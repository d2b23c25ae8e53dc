---------------------------- MODULE EngineProofs ----------------------------
(***************************************************************************)
(* Proofs about the engines of the strategies.                             *)
(*                                                                         *)
(* About ForwardEngine, the base of them all, for every number of rows,    *)
(* stop levels and faults, whatever the mode: the inductive invariant,     *)
(* what a restart recovers, and how many rows can be left open with no     *)
(* owner.                                                                  *)
(*                                                                         *)
(* About the engines of MCBars (spot_perp_cvd, oi_cvd_surge,               *)
(* eth_cvd_explosion), for every price range, distance, ratio, CVD value   *)
(* and set of magnets: the row is the trade, a stop only moves toward      *)
(* profit, a trade is closed by prices it has seen, and entries wait for   *)
(* what they have to. The loop over the magnets of a bar is followed by    *)
(* induction over its rounds.                                              *)
(***************************************************************************)
EXTENDS ForwardEngine, MCBars, FiniteSetTheorems, SequenceTheorems, WellFoundedInduction, TLAPS

-----------------------------------------------------------------------------
(* The inductive invariant.                                                *)

\* Keys not handed out yet belong to no row.
FreshIsAbsent == \A t \in Trade : t >= nextId => rows[t].status = "absent"

FlatIsFlat == ~position.held => position = Flat

\* A position with a row owns the open row inserted last.
HeldRowIsLatest ==
    position.id # NoId =>
        /\ position.held
        /\ position.id \in OpenRows(rows)
        /\ \A u \in OpenRows(rows) : u <= position.id

IInv == TypeOK /\ FreshIsAbsent /\ FlatIsFlat /\ HeldRowIsLatest /\ RowStopNeverTighter

-----------------------------------------------------------------------------
(* What the database helpers do to the rows.                               *)

LEMMA PersistOpenRows ==
    ASSUME NEW rs \in [Trade -> Row], NEW out, nextId \in Trade
    PROVE  /\ PersistOpen(rs, out) \in [Trade -> Row]
           /\ \A t \in Trade \ {nextId} : PersistOpen(rs, out)[t] = rs[t]
           /\ out = "lost" => PersistOpen(rs, out) = rs
           /\ out # "lost" => /\ PersistOpen(rs, out)[nextId].status = "open"
                              /\ PersistOpen(rs, out)[nextId].level = 0
  <1>1. [status |-> "open", level |-> 0] \in Row
    BY MaxLevelAssumption DEF Row, Level
  <1> QED
    BY <1>1 DEF PersistOpen

\* What closing a row by its key does to the rows (_persist_close).
LEMMA PersistCloseRows ==
    ASSUME NEW rs \in [Trade -> Row], NEW id, NEW l \in Level, NEW out
    PROVE  /\ PersistClose(rs, id, l, out) \in [Trade -> Row]
           /\ \A t \in Trade \ {id} : PersistClose(rs, id, l, out)[t] = rs[t]
           /\ id = NoId \/ out = "lost" => PersistClose(rs, id, l, out) = rs
           /\ id \in Trade /\ id # NoId /\ out # "lost" =>
                PersistClose(rs, id, l, out)[id].status # "open"
           /\ \A t \in Trade : rs[t].status = "absent" =>
                PersistClose(rs, id, l, out)[t] = rs[t]
  <1>1. [status |-> "closed", level |-> l] \in Row
    BY DEF Row
  <1>2. [status |-> "closed", level |-> l].status # "open"
    OBVIOUS
  <1> QED
    BY <1>1, <1>2 DEF PersistClose

\* What moving the stop of a row does to the rows (_persist_position_update).
LEMMA PersistUpdateRows ==
    ASSUME NEW rs \in [Trade -> Row], NEW id, NEW l \in Level, NEW out
    PROVE  /\ PersistUpdate(rs, id, l, out) \in [Trade -> Row]
           /\ \A t \in Trade : PersistUpdate(rs, id, l, out)[t].status = rs[t].status
           /\ \A t \in Trade : \/ PersistUpdate(rs, id, l, out)[t] = rs[t]
                               \/ t = id /\ PersistUpdate(rs, id, l, out)[t].level = l
  <1>1. ASSUME NEW r \in Row
        PROVE  /\ [r EXCEPT !.level = l] \in Row
               /\ [r EXCEPT !.level = l].status = r.status
               /\ [r EXCEPT !.level = l].level = l
    BY DEF Row
  <1> QED
    BY <1>1 DEF PersistUpdate

-----------------------------------------------------------------------------
(* LoadOpen is well-defined: there is an open row inserted last.           *)

\* The least upper bound of a non-empty set of keys belongs to it.
LEMMA GreatestKey ==
    ASSUME NEW S \in SUBSET Trade, S # {}
    PROVE  \E t \in S : \A u \in S : u <= t
  <1> DEFINE Less   == OpToRel(<, Nat)
             Bounds == {n \in Nat : \A u \in S : u <= n}
  <1>1. MaxTrade \in Bounds
    BY MaxTradeAssumption DEF Trade
  <1>2. PICK m \in Bounds : \A n \in Bounds : <<n, m>> \notin Less
    <2>1. IsWellFoundedOn(Less, Nat)
      BY NatLessThanWellFounded
    <2> HIDE DEF Less
    <2> QED
      BY <1>1, <2>1, WFMin
  <1>3. \A n \in Bounds : ~(n < m)
    BY <1>2 DEF OpToRel
  <1>4. m \in S
    <2> SUFFICES ASSUME m \notin S PROVE FALSE
      OBVIOUS
    <2>1. PICK u \in S : TRUE
      OBVIOUS
    <2>2. m \in Nat /\ u \in Nat /\ 1 <= u /\ u < m
      BY <2>1, MaxTradeAssumption DEF Trade
    <2>3. m - 1 \in Bounds
      BY <2>2, MaxTradeAssumption DEF Trade
    <2> QED
      BY <1>3, <2>2, <2>3
  <1> QED
    BY <1>4

\* A load returns the open row with the greatest key, or none (_load_open_position).
LEMMA LoadOpenIsLatest ==
    ASSUME NEW rs \in [Trade -> Row]
    PROVE  /\ OpenRows(rs) = {} => LoadOpen(rs) = Flat
           /\ OpenRows(rs) # {} =>
                /\ LoadOpen(rs).held
                /\ LoadOpen(rs) \in Position
                /\ LoadOpen(rs).id \in OpenRows(rs)
                /\ \A u \in OpenRows(rs) : u <= LoadOpen(rs).id
                /\ LoadOpen(rs).level = rs[LoadOpen(rs).id].level
  <1>1. CASE OpenRows(rs) = {}
    BY <1>1 DEF LoadOpen
  <1>2. CASE OpenRows(rs) # {}
    <2> DEFINE t == CHOOSE t \in OpenRows(rs) : \A u \in OpenRows(rs) : u <= t
    <2>1. OpenRows(rs) \in SUBSET Trade
      BY DEF OpenRows
    <2>2. t \in OpenRows(rs) /\ \A u \in OpenRows(rs) : u <= t
      BY <1>2, <2>1, GreatestKey
    <2>3. LoadOpen(rs) = [held |-> TRUE, id |-> t, level |-> rs[t].level]
      BY <1>2 DEF LoadOpen
    <2>4. rs[t].level \in Level /\ t \in Trade
      BY <2>1, <2>2 DEF Row
    <2> HIDE DEF t
    <2>5. LoadOpen(rs) \in Position
      BY <2>3, <2>4 DEF Position
    <2> QED
      BY <1>2, <2>2, <2>3, <2>5
  <1> QED
    BY <1>1, <1>2

\* When the position owns the open row inserted last, that is what a load finds.
LEMMA LoadOpenUnique ==
    ASSUME TypeOK, HeldRowIsLatest, position.id # NoId
    PROVE  LoadOpen(rows).id = position.id
  <1>1. position.id \in OpenRows(rows) /\ \A u \in OpenRows(rows) : u <= position.id
    BY DEF HeldRowIsLatest
  <1>2. /\ LoadOpen(rows).id \in OpenRows(rows)
        /\ \A u \in OpenRows(rows) : u <= LoadOpen(rows).id
    BY <1>1, LoadOpenIsLatest DEF TypeOK
  <1>3. OpenRows(rows) \in SUBSET Nat
    BY DEF OpenRows, Trade
  <1> QED
    BY <1>1, <1>2, <1>3
-----------------------------------------------------------------------------
(* The invariant is inductive.                                             *)

LEMMA InitIInv == Init => IInv
  BY MaxTradeAssumption, MaxLevelAssumption, MaxFaultsAssumption
  DEF Init, IInv, TypeOK, FreshIsAbsent, FlatIsFlat, HeldRowIsLatest,
      RowStopNeverTighter, Flat, NoRow, NoId, Position, Row, Level, Trade, OpenRows

\* The counter of faults stays in range.
LEMMA FaultType ==
    ASSUME TypeOK, NEW n \in Nat, Fault(n)
    PROVE  faults' \in 0..MaxFaults
  BY MaxFaultsAssumption DEF TypeOK, Fault

\* What opening a row on rows rs does to the invariant: shared by EnterTick and
\* ReverseTick, rs being the rows once the previous trade was dealt with.
LEMMA OpeningKeepsIInv ==
    ASSUME TypeOK,
           nextId <= MaxTrade,
           NEW rs \in [Trade -> Row],
           \A t \in Trade : t >= nextId => rs[t].status = "absent",
           NEW out \in {"ok", "lost", "unacked"},
           rows' = PersistOpen(rs, out),
           nextId' = IF out = "lost" THEN nextId ELSE nextId + 1,
           position' = [held |-> TRUE, id |-> PersistedId(out), level |-> 0],
           faults' \in 0..MaxFaults
    PROVE  IInv'
  <1>1. nextId \in Trade /\ nextId \in Nat
    BY MaxTradeAssumption DEF TypeOK, Trade
  <1>2. /\ rows' \in [Trade -> Row]
        /\ \A t \in Trade \ {nextId} : rows'[t] = rs[t]
        /\ out = "lost" => rows' = rs
        /\ out # "lost" => rows'[nextId].status = "open" /\ rows'[nextId].level = 0
    BY <1>1, PersistOpenRows
  <1>3. /\ position'.held = TRUE
        /\ position'.id = IF out = "ok" THEN nextId ELSE NoId
        /\ position'.level = 0
        /\ position' \in Position
    BY <1>1, MaxLevelAssumption DEF PersistedId, Position, Level
  <1>4. TypeOK'
    BY <1>1, <1>2, <1>3, MaxTradeAssumption DEF TypeOK, Trade
  <1>5. FreshIsAbsent'
    BY <1>1, <1>2 DEF FreshIsAbsent, Trade
  <1>6. FlatIsFlat'
    BY <1>3 DEF FlatIsFlat
  <1>7. HeldRowIsLatest'
    BY <1>1, <1>2, <1>3 DEF HeldRowIsLatest, OpenRows, Trade, NoId
  <1>8. RowStopNeverTighter'
    BY <1>1, <1>2, <1>3 DEF RowStopNeverTighter
  <1> QED
    BY <1>4, <1>5, <1>6, <1>7, <1>8 DEF IInv

\* A step to a flat position, the rows untouched or some of them closed.
LEMMA FlatteningKeepsIInv ==
    ASSUME IInv,
           position' = Flat,
           rows' \in [Trade -> Row],
           \A t \in Trade : rows[t].status = "absent" => rows'[t].status = "absent",
           nextId' = nextId,
           faults' \in 0..MaxFaults
    PROVE  IInv'
  <1>1. position' \in Position /\ position'.id = NoId
    BY MaxLevelAssumption DEF Flat, Position, Level
  <1> QED
    BY <1>1 DEF IInv, TypeOK, FreshIsAbsent, FlatIsFlat, HeldRowIsLatest,
                RowStopNeverTighter

\* A step that takes the latest open row as position, or none if there is none.
LEMMA LoadingKeepsIInv ==
    ASSUME IInv,
           position' = LoadOpen(rows),
           UNCHANGED <<rows, nextId>>,
           faults' \in 0..MaxFaults
    PROVE  IInv'
  <1>1. CASE OpenRows(rows) = {}
    <2>1. position' = Flat
      BY <1>1 DEF LoadOpen
    <2> QED
      BY <2>1, FlatteningKeepsIInv DEF IInv, TypeOK
  <1>2. CASE OpenRows(rows) # {}
    <2>1. /\ position'.held
          /\ position' \in Position
          /\ position'.id \in OpenRows(rows)
          /\ \A u \in OpenRows(rows) : u <= position'.id
          /\ position'.level = rows[position'.id].level
      BY <1>2, LoadOpenIsLatest DEF IInv, TypeOK
    <2>2. rows[position'.id].level \in Nat
      BY <2>1, MaxLevelAssumption DEF IInv, TypeOK, OpenRows, Row, Level
    <2> QED
      BY <2>1, <2>2 DEF IInv, TypeOK, FreshIsAbsent, FlatIsFlat, HeldRowIsLatest,
                        RowStopNeverTighter, OpenRows
  <1> QED
    BY <1>1, <1>2

\* The rows and the next key after the previous trade was closed, or not.
LEMMA ClosedRows ==
    ASSUME IInv, NEW l \in Level, NEW out
    PROVE  /\ PersistClose(rows, position.id, l, out) \in [Trade -> Row]
           /\ \A t \in Trade : rows[t].status = "absent" =>
                PersistClose(rows, position.id, l, out)[t].status = "absent"
  <1>1. rows \in [Trade -> Row]
    BY DEF IInv, TypeOK
  <1> DEFINE rs == PersistClose(rows, position.id, l, out)
  <1>2. rs \in [Trade -> Row]
    BY <1>1, PersistCloseRows
  <1>3. \A t \in Trade : rows[t].status = "absent" => rs[t] = rows[t]
    BY <1>1 DEF PersistClose
  <1> HIDE DEF rs
  <1>4. \A t \in Trade : rows[t].status = "absent" => rs[t].status = "absent"
    BY <1>3
  <1> QED
    BY <1>2, <1>4 DEF rs

\* Every action of the engine keeps the inductive invariant.
LEMMA NextIInv == IInv /\ [Next]_vars => IInv'
  <1> SUFFICES ASSUME IInv, [Next]_vars
               PROVE  IInv'
    OBVIOUS
  <1>t. TypeOK
    BY DEF IInv
  <1>k. \A id, out : Cost(id, out) \in Nat /\ OpenCost(out) \in Nat
    BY DEF Cost, OpenCost
  <1>f. ASSUME NEW n \in Nat, Fault(n)
        PROVE  faults' \in 0..MaxFaults
    BY <1>t, <1>f, FaultType
  <1>1. ASSUME NEW out \in OpenOutcome, EnterTick(out)
        PROVE  IInv'
    <2>1. out \in {"ok", "lost", "unacked"}
      BY DEF OpenOutcome
    <2>2. faults' \in 0..MaxFaults
      BY <1>1, <1>f, <1>k DEF EnterTick
    <2>3. rows \in [Trade -> Row] /\ FreshIsAbsent
      BY DEF IInv, TypeOK
    <2> QED
      BY <1>1, <1>t, <2>1, <2>2, <2>3, OpeningKeepsIInv DEF EnterTick, FreshIsAbsent
  <1>2. ASSUME NEW l \in Level, NEW out \in WriteOutcome, ExitTick(l, out)
        PROVE  IInv'
    <2>1. faults' \in 0..MaxFaults
      BY <1>2, <1>f, <1>k DEF ExitTick
    <2>2. /\ rows' \in [Trade -> Row]
          /\ \A t \in Trade : rows[t].status = "absent" => rows'[t].status = "absent"
      BY <1>2, ClosedRows DEF ExitTick
    <2> QED
      BY <1>2, <2>1, <2>2, FlatteningKeepsIInv DEF ExitTick
  <1>3. ASSUME NEW l \in Level, NEW out \in WriteOutcome, NEW opened \in OpenOutcome,
               ReverseTick(l, out, opened)
        PROVE  IInv'
    <2>1. opened \in {"ok", "lost", "unacked"}
      BY DEF OpenOutcome
    <2>2. faults' \in 0..MaxFaults
      <3>1. Cost(position.id, out) + OpenCost(opened) \in Nat
        BY <1>k
      <3> QED
        BY <1>3, <1>f, <3>1 DEF ReverseTick
    <2>3. /\ PersistClose(rows, position.id, l, out) \in [Trade -> Row]
          /\ \A t \in Trade : t >= nextId =>
                PersistClose(rows, position.id, l, out)[t].status = "absent"
      BY ClosedRows DEF IInv, FreshIsAbsent
    <2> QED
      BY <1>3, <1>t, <2>1, <2>2, <2>3, OpeningKeepsIInv DEF ReverseTick
  <1>4. ASSUME NEW l \in Level, NEW out \in WriteOutcome, TightenTick(l, out)
        PROVE  IInv'
    <2>1. rows' \in [Trade -> Row]
      BY <1>4, <1>t, PersistUpdateRows DEF TightenTick, TypeOK
    <2>2. \A t \in Trade : rows'[t].status = rows[t].status
      BY <1>4, <1>t, PersistUpdateRows DEF TightenTick, TypeOK
    <2>3. \A t \in Trade : rows'[t] = rows[t] \/ (t = position.id /\ rows'[t].level = l)
      <3>1. \A r \in Row : [r EXCEPT !.level = l].level = l
        BY DEF Row
      <3> QED
        BY <1>4, <1>t, <3>1 DEF TightenTick, TypeOK, PersistUpdate
    <2>4. /\ position' \in Position
          /\ position'.id = position.id /\ position'.held = position.held
          /\ position'.level = l /\ position.held /\ l > position.level
          /\ nextId' = nextId /\ faults' = faults
      BY <1>4, <1>t DEF TightenTick, TypeOK, Position
    <2>5. OpenRows(rows') = OpenRows(rows)
      BY <2>2 DEF OpenRows
    <2>6. TypeOK' /\ FreshIsAbsent' /\ FlatIsFlat' /\ HeldRowIsLatest'
      BY <1>t, <2>1, <2>2, <2>4, <2>5
      DEF IInv, TypeOK, FreshIsAbsent, FlatIsFlat, HeldRowIsLatest
    <2>7. RowStopNeverTighter'
      <3> SUFFICES ASSUME position'.id # NoId
                   PROVE  rows'[position'.id].level <= position'.level
        BY DEF RowStopNeverTighter
      <3>1. position.id \in Trade /\ rows[position.id].level <= position.level
        BY <1>t, <2>4 DEF IInv, TypeOK, Position, RowStopNeverTighter
      <3>2. rows[position.id].level \in Nat /\ position.level \in Nat /\ l \in Nat
        BY <1>t, <3>1, MaxLevelAssumption DEF TypeOK, Position, Row, Level
      <3> QED
        BY <2>3, <2>4, <3>1, <3>2
    <2> QED
      BY <2>6, <2>7 DEF IInv
  <1>5. ASSUME NEW loaded \in Readable, Restart(loaded)
        PROVE  IInv'
    <2>1. faults' \in 0..MaxFaults
      BY <1>5, <1>f DEF Restart
    <2>2. CASE loaded
      BY <1>5, <2>1, <2>2, LoadingKeepsIInv DEF Restart
    <2>3. CASE ~loaded
      BY <1>5, <1>t, <2>1, <2>3, FlatteningKeepsIInv DEF Restart, TypeOK
    <2> QED
      BY <2>2, <2>3
  <1>6. ASSUME NEW own \in BOOLEAN, Reset(own)
        PROVE  IInv'
    <2>1. faults' \in 0..MaxFaults
      BY <1>6, <1>f DEF Reset
    <2>2. NoRow \in Row /\ NoRow.status = "absent"
      BY MaxLevelAssumption DEF NoRow, Row, Level
    <2>3. /\ rows' \in [Trade -> Row]
          /\ \A t \in Trade : rows[t].status = "absent" => rows'[t].status = "absent"
      BY <1>6, <1>t, <2>2 DEF Reset, TypeOK
    <2> QED
      BY <1>6, <2>1, <2>3, FlatteningKeepsIInv DEF Reset
  <1>7. CASE SyncCleared
    <2>1. faults' \in 0..MaxFaults
      BY <1>7, <1>f DEF SyncCleared
    <2> QED
      BY <1>7, <1>t, <2>1, FlatteningKeepsIInv DEF SyncCleared, TypeOK
  <1>8. CASE SyncRestored
    BY <1>8, <1>t, LoadingKeepsIInv DEF SyncRestored, TypeOK
  <1>9. ASSUME NEW loaded \in Readable, SyncInjected(loaded)
        PROVE  IInv'
    <2>1. faults' \in 0..MaxFaults
      BY <1>9, <1>f DEF SyncInjected
    <2>2. /\ position' \in Position
          /\ position'.held = TRUE
          /\ position'.id = NoId
      BY <1>9, MaxLevelAssumption DEF SyncInjected, Position, Level
    <2> QED
      BY <1>9, <2>1, <2>2
      DEF SyncInjected, IInv, TypeOK, FreshIsAbsent, FlatIsFlat, HeldRowIsLatest,
          RowStopNeverTighter
  <1>10. CASE UNCHANGED vars
    BY <1>10 DEF vars, IInv, TypeOK, FreshIsAbsent, FlatIsFlat, HeldRowIsLatest,
                 RowStopNeverTighter, OpenRows
  <1> QED
    BY <1>1, <1>2, <1>3, <1>4, <1>5, <1>6, <1>7, <1>8, <1>9, <1>10 DEF Next

\* In every mode, whatever fails and whatever the operator does, IInv holds.
THEOREM Invariance == Spec => []IInv
  BY InitIInv, NextIInv, PTL DEF Spec

\* The types of the engine's memory and of its rows.
THEOREM TypeCorrect == Spec => []TypeOK
  <1>1. IInv => TypeOK
    BY DEF IInv
  <1> QED
    BY <1>1, Invariance, PTL

\* A restart that can read the table (_load_open_from_db) recovers the held trade,
\* whatever was lost, left open or overridden before it.
THEOREM RestartRecovers == Spec => []RestartRecoversHeldTrade
  <1>1. IInv => RestartRecoversHeldTrade
    BY LoadOpenUnique DEF IInv, RestartRecoversHeldTrade
  <1> QED
    BY <1>1, Invariance, PTL

\* A lost _persist_position_update can only loosen the stop a restart brings back.
THEOREM RowStopSafe == Spec => []RowStopNeverTighter
  <1>1. IInv => RowStopNeverTighter
    BY DEF IInv
  <1> QED
    BY <1>1, Invariance, PTL

-----------------------------------------------------------------------------
(* Rows left open with no owner.                                           *)

\* Sets of keys are finite, and adding elements adds that many at most.
LEMMA KeysGrow ==
    ASSUME NEW S \in SUBSET Trade, NEW T \in SUBSET Trade
    PROVE  /\ Cardinality(S) \in Nat /\ Cardinality(T) \in Nat
           /\ T \subseteq S => Cardinality(T) <= Cardinality(S)
           /\ \A a : T \subseteq S \cup {a} => Cardinality(T) <= Cardinality(S) + 1
           /\ \A a, b : T \subseteq S \cup {a, b} => Cardinality(T) <= Cardinality(S) + 2
  <1>1. IsFiniteSet(Trade)
    BY FS_Interval, MaxTradeAssumption DEF Trade
  <1>2. IsFiniteSet(S) /\ IsFiniteSet(T)
    BY <1>1, FS_Subset
  <1>3. Cardinality(S) \in Nat /\ Cardinality(T) \in Nat
    BY <1>2, FS_CardinalityType
  <1>4. T \subseteq S => Cardinality(T) <= Cardinality(S)
    BY <1>2, FS_Subset
  <1>5. ASSUME NEW a
        PROVE  /\ IsFiniteSet(S \cup {a})
               /\ Cardinality(S \cup {a}) \in Nat
               /\ Cardinality(S \cup {a}) <= Cardinality(S) + 1
               /\ T \subseteq S \cup {a} => Cardinality(T) <= Cardinality(S) + 1
    <2>0. /\ IsFiniteSet(S \cup {a})
          /\ \/ Cardinality(S \cup {a}) = Cardinality(S)
             \/ Cardinality(S \cup {a}) = Cardinality(S) + 1
      BY <1>2, FS_AddElement, Zenon
    <2>1. IsFiniteSet(S \cup {a}) /\ Cardinality(S \cup {a}) <= Cardinality(S) + 1
      BY <1>3, <2>0
    <2>2. Cardinality(S \cup {a}) \in Nat
      BY <2>1, FS_CardinalityType
    <2>3. T \subseteq S \cup {a} => Cardinality(T) <= Cardinality(S \cup {a})
      BY <2>1, FS_Subset
    <2> QED
      BY <1>3, <2>1, <2>2, <2>3
  <1>6. ASSUME NEW a, NEW b, T \subseteq S \cup {a, b}
        PROVE  Cardinality(T) <= Cardinality(S) + 2
    <2> DEFINE A  == S \cup {a}
               AB == A \cup {b}
    <2>1. IsFiniteSet(A) /\ Cardinality(A) \in Nat /\ Cardinality(A) <= Cardinality(S) + 1
      BY <1>5
    <2> HIDE DEF A
    <2>2. IsFiniteSet(AB) /\ Cardinality(AB) <= Cardinality(A) + 1
      BY <2>1, FS_AddElement
    <2>3. T \subseteq AB
      BY <1>6 DEF A
    <2> HIDE DEF AB
    <2>4. Cardinality(T) <= Cardinality(AB) /\ Cardinality(AB) \in Nat
      BY <2>2, <2>3, FS_Subset, FS_CardinalityType
    <2> QED
      BY <1>3, <2>1, <2>2, <2>4
  <1> QED
    BY <1>3, <1>4, <1>5, <1>6

\* A step that adds at most n unowned rows and counts n faults keeps the bound.
LEMMA BoundKept ==
    ASSUME TypeOK, StraysBounded,
           NEW n \in Nat, faults' = faults + n,
           \/ Strays' \subseteq Strays
           \/ n >= 1 /\ \E a : Strays' \subseteq Strays \cup {a}
           \/ n = 2 /\ \E a, b : Strays' \subseteq Strays \cup {a, b}
    PROVE  StraysBounded'
  <1>1. Strays \in SUBSET Trade /\ Strays' \in SUBSET Trade
    BY DEF Strays, OpenRows
  <1> DEFINE S == Strays
             T == Strays'
  <1>2. /\ Cardinality(S) \in Nat /\ Cardinality(T) \in Nat
        /\ T \subseteq S => Cardinality(T) <= Cardinality(S)
        /\ \A a : T \subseteq S \cup {a} => Cardinality(T) <= Cardinality(S) + 1
        /\ \A a, b : T \subseteq S \cup {a, b} => Cardinality(T) <= Cardinality(S) + 2
    BY <1>1, KeysGrow
  <1>3. Cardinality(S) <= faults /\ faults \in Nat
    BY MaxFaultsAssumption DEF StraysBounded, TypeOK
  <1>4. Cardinality(T) <= Cardinality(S) + n
    BY <1>2
  <1>5. Cardinality(T) <= faults + n
    <2> HIDE DEF S, T
    <2> QED
      BY <1>2, <1>3, <1>4
  <1> QED
    BY <1>5 DEF StraysBounded

\* Rows that are open once the held trade was closed, or its close was lost.
LEMMA CloseLeaves ==
    ASSUME TypeOK, NEW l \in Level, NEW out \in WriteOutcome
    PROVE  LET rs == PersistClose(rows, position.id, l, out)
           IN  OpenRows(rs) \subseteq
                  IF Cost(position.id, out) = 0 THEN Strays ELSE Strays \cup {position.id}
  <1> DEFINE rs == PersistClose(rows, position.id, l, out)
  <1>1. rows \in [Trade -> Row] /\ position.id \in Trade \cup {NoId}
    BY DEF TypeOK, Position
  <1>2. OpenRows(rs) \subseteq OpenRows(rows)
    BY <1>1 DEF PersistClose, OpenRows
  <1>3. CASE Cost(position.id, out) = 0
    <2>1. position.id = NoId \/ out # "lost"
      BY <1>3 DEF Cost
    <2>2. CASE position.id = NoId
      BY <1>2, <1>3, <2>2 DEF Strays, OpenRows, Trade, NoId
    <2>3. CASE position.id # NoId /\ out # "lost"
      <3>1. \A t \in Trade : rs[t].status = "open" => t # position.id
        BY <1>1, <2>3 DEF PersistClose
      <3> QED
        BY <1>2, <1>3, <3>1 DEF Strays, OpenRows
    <2> QED
      BY <2>1, <2>2, <2>3
  <1>4. CASE Cost(position.id, out) # 0
    BY <1>2, <1>4 DEF Strays
  <1> QED
    BY <1>3, <1>4

\* Rows that are open after an insert on the rows rs.
LEMMA OpenLeaves ==
    ASSUME nextId \in Trade, NEW rs \in [Trade -> Row], NEW out \in OpenOutcome,
           rows' = PersistOpen(rs, out),
           position' = [held |-> TRUE, id |-> PersistedId(out), level |-> 0]
    PROVE  Strays' \subseteq IF OpenCost(out) = 0 THEN OpenRows(rs)
                             ELSE OpenRows(rs) \cup {nextId}
  <1>1. /\ \A t \in Trade \ {nextId} : rows'[t] = rs[t]
        /\ out = "lost" => rows' = rs
    BY PersistOpenRows
  <1>2. position'.id = IF out = "ok" THEN nextId ELSE NoId
    BY DEF PersistedId
  <1>3. out \in {"ok", "lost", "unacked"}
    BY DEF OpenOutcome
  <1> QED
    BY <1>1, <1>2, <1>3 DEF Strays, OpenRows, OpenCost

\* Every action keeps the bound on unowned open rows by the faults so far.
LEMMA NextStrays == IInv /\ StraysBounded /\ [Next]_vars => StraysBounded'
  <1> SUFFICES ASSUME IInv, StraysBounded, [Next]_vars
               PROVE  StraysBounded'
    OBVIOUS
  <1>t. TypeOK /\ HeldRowIsLatest
    BY DEF IInv
  <1>k. \A id, out : Cost(id, out) \in 0..1 /\ OpenCost(out) \in 0..1
    BY DEF Cost, OpenCost
  <1>1. ASSUME NEW out \in OpenOutcome, EnterTick(out)
        PROVE  StraysBounded'
    <2>1. nextId \in Trade
      BY <1>1, <1>t, MaxTradeAssumption DEF EnterTick, TypeOK, Trade
    <2>2. OpenRows(rows) = Strays
      BY <1>1 DEF EnterTick, IInv, FlatIsFlat, Flat, Strays, OpenRows, Trade, NoId
    <2>3. Strays' \subseteq IF OpenCost(out) = 0 THEN Strays ELSE Strays \cup {nextId}
      BY <1>1, <1>t, <2>1, <2>2, OpenLeaves DEF EnterTick, TypeOK
    <2>4. faults' = faults + OpenCost(out)
      BY <1>1 DEF EnterTick, Fault
    <2> QED
      BY <1>t, <1>k, <2>3, <2>4, BoundKept
  <1>2. ASSUME NEW l \in Level, NEW out \in WriteOutcome, ExitTick(l, out)
        PROVE  StraysBounded'
    <2>1. Strays' \subseteq IF Cost(position.id, out) = 0 THEN Strays
                            ELSE Strays \cup {position.id}
      <3>1. Strays' \subseteq OpenRows(PersistClose(rows, position.id, l, out))
        BY <1>2 DEF ExitTick, Strays
      <3> QED
        BY <1>t, <3>1, CloseLeaves
    <2>2. faults' = faults + Cost(position.id, out)
      BY <1>2 DEF ExitTick, Fault
    <2> QED
      BY <1>t, <1>k, <2>1, <2>2, BoundKept
  <1>3. ASSUME NEW l \in Level, NEW out \in WriteOutcome, NEW opened \in OpenOutcome,
               ReverseTick(l, out, opened)
        PROVE  StraysBounded'
    <2> DEFINE rs == PersistClose(rows, position.id, l, out)
    <2>1. nextId \in Trade
      BY <1>3, <1>t, MaxTradeAssumption DEF ReverseTick, TypeOK, Trade
    <2>2. OpenRows(rs) \subseteq IF Cost(position.id, out) = 0 THEN Strays
                                 ELSE Strays \cup {position.id}
      BY <1>t, CloseLeaves
    <2>3. Strays' \subseteq IF OpenCost(opened) = 0 THEN OpenRows(rs)
                            ELSE OpenRows(rs) \cup {nextId}
      <3>1. rs \in [Trade -> Row]
        BY ClosedRows
      <3> QED
        BY <1>3, <2>1, <3>1, OpenLeaves DEF ReverseTick
    <2> HIDE DEF rs
    <2>4. faults' = faults + (Cost(position.id, out) + OpenCost(opened))
      BY <1>3 DEF ReverseTick, Fault
    <2>5. Cost(position.id, out) \in 0..1 /\ OpenCost(opened) \in 0..1
      BY <1>k
    <2>6. CASE Cost(position.id, out) = 0 /\ OpenCost(opened) = 0
      BY <1>t, <2>2, <2>3, <2>4, <2>6, BoundKept
    <2>7. CASE Cost(position.id, out) = 1 /\ OpenCost(opened) = 0
      <3>1. Strays' \subseteq Strays \cup {position.id}
        BY <2>2, <2>3, <2>7
      <3> QED
        BY <1>t, <2>4, <2>7, <3>1, BoundKept
    <2>8. CASE Cost(position.id, out) = 0 /\ OpenCost(opened) = 1
      <3>1. Strays' \subseteq Strays \cup {nextId}
        BY <2>2, <2>3, <2>8
      <3> QED
        BY <1>t, <2>4, <2>8, <3>1, BoundKept
    <2>9. CASE Cost(position.id, out) = 1 /\ OpenCost(opened) = 1
      <3>1. Strays' \subseteq Strays \cup {position.id, nextId}
        BY <2>2, <2>3, <2>9
      <3> QED
        BY <1>t, <2>4, <2>9, <3>1, BoundKept
    <2> QED
      BY <2>5, <2>6, <2>7, <2>8, <2>9
  <1>4. ASSUME NEW l \in Level, NEW out \in WriteOutcome, TightenTick(l, out)
        PROVE  StraysBounded'
    <2>1. \A t \in Trade : rows'[t].status = rows[t].status
      BY <1>4, <1>t, PersistUpdateRows DEF TightenTick, TypeOK
    <2>2. position'.id = position.id /\ faults' = faults
      BY <1>4, <1>t DEF TightenTick, TypeOK, Position
    <2>3. Strays' = Strays
      BY <2>1, <2>2 DEF Strays, OpenRows
    <2> QED
      BY <2>2, <2>3 DEF StraysBounded
  <1>5. ASSUME NEW loaded \in Readable, Restart(loaded)
        PROVE  StraysBounded'
    <2> DEFINE n == IF loaded \/ position.id = NoId THEN 0 ELSE 1
    <2>1. faults' = faults + n /\ rows' = rows
      BY <1>5 DEF Restart, Fault
    <2>2. CASE n = 1
      <3>1. Strays' \subseteq Strays \cup {position.id}
        BY <2>1 DEF Strays
      <3> QED
        BY <1>t, <2>1, <2>2, <3>1, BoundKept
    <2>3. CASE n = 0
      <3>1. CASE position.id = NoId
        <4>1. Strays' \subseteq Strays
          BY <2>1, <3>1 DEF Strays, OpenRows, Trade, NoId
        <4> QED
          BY <1>t, <2>1, <2>3, <4>1, BoundKept
      <3>2. CASE position.id # NoId
        <4>1. position'.id = position.id
          BY <1>5, <1>t, <2>3, <3>2, LoadOpenUnique DEF Restart
        <4>2. Strays' = Strays
          BY <2>1, <4>1 DEF Strays
        <4> QED
          BY <1>t, <2>1, <2>3, <4>2, BoundKept
      <3> QED
        BY <3>1, <3>2
    <2> QED
      BY <2>2, <2>3
  <1>6. ASSUME NEW own \in BOOLEAN, Reset(own)
        PROVE  StraysBounded'
    <2> DEFINE n == IF own \/ position.id = NoId THEN 0 ELSE 1
    <2>1. /\ faults' = faults + n
          /\ rows' = IF own THEN [t \in Trade |-> NoRow] ELSE rows
      BY <1>6 DEF Reset, Fault
    <2>2. CASE n = 1
      <3>1. Strays' \subseteq Strays \cup {position.id}
        BY <2>1, <2>2 DEF Strays
      <3> QED
        BY <1>t, <2>1, <2>2, <3>1, BoundKept
    <2>3. CASE n = 0
      <3>1. Strays' \subseteq Strays
        BY <2>1, <2>3 DEF Strays, OpenRows, Trade, NoId, NoRow
      <3> QED
        BY <1>t, <2>1, <2>3, <3>1, BoundKept
    <2> QED
      BY <2>2, <2>3
  <1>7. ASSUME NEW p, position' = p, rows' = rows,
               Fault(IF position.id = NoId THEN 0 ELSE 1)
        PROVE  StraysBounded'
    <2>1. CASE position.id = NoId
      <3>1. Strays' \subseteq Strays /\ faults' = faults + 0
        BY <1>7, <2>1 DEF Strays, OpenRows, Trade, NoId, Fault
      <3> QED
        BY <1>t, <3>1, BoundKept
    <2>2. CASE position.id # NoId
      <3>1. Strays' \subseteq Strays \cup {position.id} /\ faults' = faults + 1
        BY <1>7, <2>2 DEF Strays, Fault
      <3> QED
        BY <1>t, <3>1, BoundKept
    <2> QED
      BY <2>1, <2>2
  <1>8. CASE SyncCleared
    BY <1>7, <1>8 DEF SyncCleared
  <1>9. CASE SyncRestored
    <2>1. Strays' \subseteq Strays /\ faults' = faults + 0
      <3>1. rows' = rows /\ position' = LoadOpen(rows) /\ faults' = faults /\ faults \in Nat
        BY <1>9, <1>t DEF SyncRestored, TypeOK
      <3>2. CASE position.id = NoId
        BY <3>1, <3>2 DEF Strays, OpenRows, Trade, NoId
      <3>3. CASE position.id # NoId
        <4>1. position'.id = position.id
          BY <1>t, <3>1, <3>3, LoadOpenUnique
        <4> QED
          BY <3>1, <4>1 DEF Strays
      <3> QED
        BY <3>2, <3>3
    <2> QED
      BY <1>t, <2>1, BoundKept
  <1>10. ASSUME NEW loaded \in Readable, SyncInjected(loaded)
         PROVE  StraysBounded'
    BY <1>7, <1>10 DEF SyncInjected
  <1>11. CASE UNCHANGED vars
    BY <1>11 DEF vars, StraysBounded, Strays, OpenRows
  <1> QED
    BY <1>1, <1>2, <1>3, <1>4, <1>5, <1>6, <1>8, <1>9, <1>10, <1>11 DEF Next

\* Rows left open without an owner are never more than the failed commits, the
\* blind restarts and the operator's overrides so far: entering, exiting, reversing
\* and restarting leave none behind of their own.
THEOREM StraysAreFaults == Spec => []StraysBounded
  <1>1. Init => StraysBounded
    <2> SUFFICES ASSUME Init PROVE StraysBounded
      OBVIOUS
    <2>1. Strays = {}
      BY DEF Init, Strays, OpenRows, NoRow
    <2> QED
      BY <2>1, FS_EmptySet DEF Init, StraysBounded
  <1> QED
    BY <1>1, NextStrays, Invariance, PTL DEF Spec

-----------------------------------------------------------------------------
(* A database that answers, and no operator: ForwardTrades is implemented. *)

Reliable == ~DbFaults /\ ~OperatorActs

AbsentIsNew == \A t \in Trade : rows[t].status = "absent" => rows[t].level = 0

RInv == IInv /\ MemoryMatchesRow /\ AbsentIsNew

\* What is left of Next, each commit being acknowledged.
ReliableNext ==
    \/ EnterTick("ok")
    \/ \E l \in Level : ExitTick(l, "ok")
    \/ \E l \in Level : ReverseTick(l, "ok", "ok")
    \/ \E l \in Level : TightenTick(l, "ok")
    \/ Restart(TRUE)

\* In the reliable mode a step is one of the five that lose nothing.
LEMMA NextIsReliable ==
    ASSUME Reliable, Next
    PROVE  ReliableNext
  <1>1. OpenOutcome = {"ok"} /\ WriteOutcome = {"ok"} /\ Readable = {TRUE}
    BY DEF Reliable, OpenOutcome, WriteOutcome, Readable
  <1>2. (\E own \in BOOLEAN : Reset(own)) => FALSE
    BY DEF Reliable, Reset
  <1>3. ~SyncCleared /\ ~SyncRestored
    BY DEF Reliable, SyncCleared, SyncRestored
  <1>4. (\E loaded \in Readable : SyncInjected(loaded)) => FALSE
    BY DEF Reliable, SyncInjected
  <1>5. CASE \E out \in OpenOutcome : EnterTick(out)
    BY <1>1, <1>5 DEF ReliableNext
  <1>6. CASE \E l \in Level, out \in WriteOutcome : ExitTick(l, out)
    BY <1>1, <1>6 DEF ReliableNext
  <1>7. CASE \E l \in Level, out \in WriteOutcome, opened \in OpenOutcome :
                ReverseTick(l, out, opened)
    BY <1>1, <1>7 DEF ReliableNext
  <1>8. CASE \E l \in Level, out \in WriteOutcome : TightenTick(l, out)
    BY <1>1, <1>8 DEF ReliableNext
  <1>9. CASE \E loaded \in Readable : Restart(loaded)
    BY <1>1, <1>9 DEF ReliableNext
  <1> QED
    BY <1>2, <1>3, <1>4, <1>5, <1>6, <1>7, <1>8, <1>9 DEF Next

\* The held trade and its row, as the steps below need them.
LEMMA HeldRow ==
    ASSUME RInv, position.held
    PROVE  /\ position.id \in Trade
           /\ OpenRows(rows) = {position.id}
           /\ rows[position.id].status = "open"
           /\ rows[position.id].level = position.level
  BY DEF RInv, IInv, TypeOK, MemoryMatchesRow, Position, OpenRows

\* The rows after each kind of step, record by record.
LEMMA EnterRows ==
    ASSUME RInv, EnterTick("ok")
    PROVE  /\ nextId \in Trade /\ rows[nextId].status = "absent" /\ rows[nextId].level = 0
           /\ rows' = [rows EXCEPT ![nextId] = [status |-> "open", level |-> 0]]
           /\ position' = [held |-> TRUE, id |-> nextId, level |-> 0]
           /\ OpenRows(rows) = {}
  <1>1. nextId \in Trade /\ OpenRows(rows) = {} /\ "ok" # "lost"
    BY MaxTradeAssumption
    DEF EnterTick, RInv, IInv, TypeOK, MemoryMatchesRow, Trade
  <1>2. rows[nextId].status = "absent"
    BY <1>1 DEF RInv, IInv, FreshIsAbsent, Trade
  <1> QED
    BY <1>1, <1>2 DEF EnterTick, PersistOpen, PersistedId, RInv, AbsentIsNew

\* The rows after an exit: the held one is closed, the others are as before.
LEMMA ExitRows ==
    ASSUME RInv, NEW l \in Level, ExitTick(l, "ok")
    PROVE  /\ rows' = [rows EXCEPT ![position.id] = [status |-> "closed", level |-> l]]
           /\ position' = Flat
  <1>1. position.id \in Trade /\ rows[position.id].status = "open" /\ position.id # NoId
    BY HeldRow DEF ExitTick, Trade, NoId
  <1>2. rows \in [Trade -> Row]
    BY DEF RInv, IInv, TypeOK
  <1> QED
    BY <1>1, <1>2 DEF ExitTick, PersistClose

\* The rows after a reverse: the held one closed, the new one open.
LEMMA ReverseRows ==
    ASSUME RInv, NEW l \in Level, ReverseTick(l, "ok", "ok")
    PROVE  /\ nextId \in Trade /\ rows[nextId].status = "absent" /\ rows[nextId].level = 0
           /\ rows' = [rows EXCEPT ![position.id] = [status |-> "closed", level |-> l],
                                   ![nextId] = [status |-> "open", level |-> 0]]
           /\ position' = [held |-> TRUE, id |-> nextId, level |-> 0]
  <1>1. position.id \in Trade /\ rows[position.id].status = "open" /\ position.id # NoId
    BY HeldRow DEF ReverseTick, Trade, NoId
  <1>2. rows \in [Trade -> Row]
    BY DEF RInv, IInv, TypeOK
  <1>3. nextId \in Trade
    BY MaxTradeAssumption DEF ReverseTick, RInv, IInv, TypeOK, Trade
  <1>4. rows[nextId].status = "absent"
    BY <1>3 DEF RInv, IInv, FreshIsAbsent, Trade
  <1>5. PersistClose(rows, position.id, l, "ok") =
           [rows EXCEPT ![position.id] = [status |-> "closed", level |-> l]]
    BY <1>1, <1>2 DEF PersistClose
  <1> QED
    BY <1>3, <1>4, <1>5 DEF ReverseTick, PersistOpen, PersistedId, RInv, AbsentIsNew

\* The rows after the stop moved: only the held one changed, in its stop.
LEMMA TightenRows ==
    ASSUME RInv, NEW l \in Level, TightenTick(l, "ok")
    PROVE  /\ rows' = [rows EXCEPT ![position.id] = [status |-> "open", level |-> l]]
           /\ position' = [held |-> TRUE, id |-> position.id, level |-> l]
  <1>1. position.id \in Trade /\ rows[position.id].status = "open" /\ position.id # NoId
    BY HeldRow DEF TightenTick, Trade, NoId
  <1>2. rows \in [Trade -> Row] /\ position \in Position
    BY DEF RInv, IInv, TypeOK
  <1>3. \A r \in Row : r.status = "open" =>
            [r EXCEPT !.level = l] = [status |-> "open", level |-> l]
    BY DEF Row
  <1>4. rows' = [rows EXCEPT ![position.id] = [status |-> "open", level |-> l]]
    BY <1>1, <1>2, <1>3 DEF TightenTick, PersistUpdate
  <1>5. position' = [held |-> TRUE, id |-> position.id, level |-> l]
    BY <1>2 DEF TightenTick, Position
  <1> QED
    BY <1>4, <1>5

\* A restart with a database that answers brings back the position it had.
LEMMA RestartKeeps ==
    ASSUME RInv, Restart(TRUE)
    PROVE  UNCHANGED <<position, rows>>
  <1>1. position' = LoadOpen(rows) /\ rows' = rows
    BY DEF Restart
  <1>2. CASE position.held
    <2>1. LoadOpen(rows).id = position.id
      BY <1>2, HeldRow, LoadOpenUnique DEF RInv, IInv, Trade, NoId
    <2>2. /\ LoadOpen(rows).held = TRUE
          /\ LoadOpen(rows).level = position.level
          /\ LoadOpen(rows) \in Position
      BY <1>2, <2>1, HeldRow, LoadOpenIsLatest DEF RInv, IInv, TypeOK, Position
    <2>3. position \in Position /\ position.held = TRUE
      BY <1>2 DEF RInv, IInv, TypeOK, Position
    <2> QED
      BY <1>1, <2>1, <2>2, <2>3 DEF Position
  <1>3. CASE ~position.held
    BY <1>1, <1>3 DEF RInv, IInv, MemoryMatchesRow, FlatIsFlat, LoadOpen
  <1> QED
    BY <1>2, <1>3

\* The reliable invariant holds in the initial states.
LEMMA InitRInv == Init => RInv
  <1> SUFFICES ASSUME Init PROVE RInv
    OBVIOUS
  <1>1. IInv
    BY InitIInv
  <1>2. MemoryMatchesRow /\ AbsentIsNew
    BY DEF Init, MemoryMatchesRow, AbsentIsNew, Flat, NoRow, OpenRows
  <1> QED
    BY <1>1, <1>2 DEF RInv

\* Every reliable step keeps the agreement of memory and rows.
LEMMA NextRInv ==
    ASSUME Reliable, RInv, [Next]_vars
    PROVE  RInv'
  <1>1. IInv'
    BY NextIInv DEF RInv
  <1>r. rows \in [Trade -> Row] /\ AbsentIsNew /\ MemoryMatchesRow
    BY DEF RInv, IInv, TypeOK
  <1>2. MemoryMatchesRow' /\ AbsentIsNew'
    <2>1. CASE EnterTick("ok")
      <3>1. /\ nextId \in Trade /\ nextId # NoId
            /\ rows' = [rows EXCEPT ![nextId] = [status |-> "open", level |-> 0]]
            /\ position' = [held |-> TRUE, id |-> nextId, level |-> 0]
            /\ OpenRows(rows) = {}
        BY <2>1, EnterRows DEF Trade, NoId
      <3> QED
        BY <1>r, <3>1 DEF MemoryMatchesRow, AbsentIsNew, OpenRows
    <2>2. ASSUME NEW l \in Level, ExitTick(l, "ok")
          PROVE  MemoryMatchesRow' /\ AbsentIsNew'
      <3>1. OpenRows(rows) = {position.id} /\ position.id \in Trade
        BY <2>2, HeldRow DEF ExitTick
      <3>2. /\ rows' = [rows EXCEPT ![position.id] = [status |-> "closed", level |-> l]]
            /\ ~position'.held
        BY <2>2, ExitRows DEF Flat
      <3> QED
        BY <1>r, <3>1, <3>2 DEF MemoryMatchesRow, AbsentIsNew, OpenRows
    <2>3. ASSUME NEW l \in Level, ReverseTick(l, "ok", "ok")
          PROVE  MemoryMatchesRow' /\ AbsentIsNew'
      <3>1. OpenRows(rows) = {position.id} /\ position.id \in Trade
        BY <2>3, HeldRow DEF ReverseTick
      <3>2. /\ nextId \in Trade /\ nextId # NoId
            /\ rows' = [rows EXCEPT ![position.id] = [status |-> "closed", level |-> l],
                                    ![nextId] = [status |-> "open", level |-> 0]]
            /\ position' = [held |-> TRUE, id |-> nextId, level |-> 0]
        BY <2>3, ReverseRows DEF Trade, NoId
      <3> QED
        BY <1>r, <3>1, <3>2 DEF MemoryMatchesRow, AbsentIsNew, OpenRows
    <2>4. ASSUME NEW l \in Level, TightenTick(l, "ok")
          PROVE  MemoryMatchesRow' /\ AbsentIsNew'
      <3>1. /\ OpenRows(rows) = {position.id}
            /\ position.id \in Trade
            /\ position.id # NoId
        BY <2>4, HeldRow DEF TightenTick, Trade, NoId
      <3>2. /\ rows' = [rows EXCEPT ![position.id] = [status |-> "open", level |-> l]]
            /\ position' = [held |-> TRUE, id |-> position.id, level |-> l]
        BY <2>4, TightenRows
      <3> QED
        BY <1>r, <3>1, <3>2 DEF MemoryMatchesRow, AbsentIsNew, OpenRows
    <2>5. CASE UNCHANGED <<position, rows>>
      BY <1>r, <2>5 DEF MemoryMatchesRow, AbsentIsNew, OpenRows
    <2> QED
      BY <2>1, <2>2, <2>3, <2>4, <2>5, RestartKeeps, NextIsReliable
      DEF ReliableNext, vars
  <1> QED
    BY <1>1, <1>2 DEF RInv

\* While the database answers and no operator interferes, the held position with
\* its stop is the one open row, and flat memory means no open row, across restarts.
THEOREM MemoryAndRowAgree ==
    ASSUME Reliable
    PROVE  Spec => []MemoryMatchesRow
  <1>1. RInv /\ [Next]_vars => RInv'
    BY NextRInv
  <1>2. RInv => MemoryMatchesRow
    BY DEF RInv
  <1> QED
    BY <1>1, <1>2, InitRInv, PTL DEF Spec

\* A step of the engine is a step of ForwardTrades, or leaves its variables alone.
LEMMA StepRefines ==
    ASSUME Reliable, RInv, [Next]_vars
    PROVE  [Trades!Next]_(Trades!vars)
  <1> DEFINE status == [t \in Trade |-> rows[t].status]
             stop   == [t \in Trade |-> rows[t].level]
  <1>r. /\ rows \in [Trade -> Row] /\ AbsentIsNew /\ MemoryMatchesRow
        /\ position \in Position /\ Level = 0..MaxLevel
    BY DEF RInv, IInv, TypeOK, Level
  <1>1. CASE EnterTick("ok")
    <2>1. /\ nextId \in Trade
          /\ rows[nextId].status = "absent" /\ rows[nextId].level = 0
          /\ rows' = [rows EXCEPT ![nextId] = [status |-> "open", level |-> 0]]
          /\ OpenRows(rows) = {}
      BY <1>1, EnterRows
    <2>2. PICK t \in Trade : t = nextId
      BY <2>1
    <2>3. status' = [status EXCEPT ![t] = "open"] /\ stop' = stop
      BY <1>r, <2>1, <2>2
    <2>4. Trades!Open = {} /\ status[t] = "absent"
      BY <2>1, <2>2 DEF Trades!Open, OpenRows
    <2>5. Trades!Enter(t)
      BY <2>3, <2>4 DEF Trades!Enter
    <2>6. \E u \in Trade : Trades!Enter(u)
      BY <2>5
    <2> QED
      BY <2>6 DEF Trades!Next
  <1>2. ASSUME NEW l \in Level, ExitTick(l, "ok")
        PROVE  Trades!Next
    <2>1. /\ position.id \in Trade
          /\ rows[position.id].status = "open"
          /\ l >= rows[position.id].level
      BY <1>2, HeldRow DEF ExitTick
    <2>2. rows' = [rows EXCEPT ![position.id] = [status |-> "closed", level |-> l]]
      BY <1>2, ExitRows
    <2>3. status' = [status EXCEPT ![position.id] = "closed"]
      BY <1>r, <2>1, <2>2
    <2>4. stop' = [stop EXCEPT ![position.id] = l]
      BY <1>r, <2>1, <2>2
    <2>5. Trades!Exit(position.id, l)
      BY <2>1, <2>3, <2>4 DEF Trades!Exit
    <2> QED
      BY <1>r, <2>1, <2>5 DEF Trades!Next
  <1>3. ASSUME NEW l \in Level, ReverseTick(l, "ok", "ok")
        PROVE  Trades!Next
    <2>1. /\ position.id \in Trade
          /\ rows[position.id].status = "open"
          /\ l >= rows[position.id].level
      BY <1>3, HeldRow DEF ReverseTick
    <2>2. /\ nextId \in Trade
          /\ rows[nextId].status = "absent" /\ rows[nextId].level = 0
          /\ rows' = [rows EXCEPT ![position.id] = [status |-> "closed", level |-> l],
                                  ![nextId] = [status |-> "open", level |-> 0]]
      BY <1>3, ReverseRows
    <2>3. status' = [status EXCEPT ![position.id] = "closed", ![nextId] = "open"]
      BY <1>r, <2>1, <2>2
    <2>4. stop' = [stop EXCEPT ![position.id] = l]
      BY <1>r, <2>1, <2>2
    <2>5. Trades!Reverse(position.id, nextId, l)
      BY <2>1, <2>2, <2>3, <2>4 DEF Trades!Reverse
    <2> QED
      BY <1>r, <2>1, <2>2, <2>5 DEF Trades!Next
  <1>4. ASSUME NEW l \in Level, TightenTick(l, "ok")
        PROVE  Trades!Next
    <2>1. /\ position.id \in Trade
          /\ rows[position.id].status = "open"
          /\ l > rows[position.id].level
      BY <1>4, HeldRow DEF TightenTick
    <2>2. rows' = [rows EXCEPT ![position.id] = [status |-> "open", level |-> l]]
      BY <1>4, TightenRows
    <2>3. status' = status
      BY <1>r, <2>1, <2>2
    <2>4. stop' = [stop EXCEPT ![position.id] = l]
      BY <1>r, <2>1, <2>2
    <2>5. Trades!Tighten(position.id, l)
      BY <2>1, <2>3, <2>4 DEF Trades!Tighten
    <2> QED
      BY <1>r, <2>1, <2>5 DEF Trades!Next
  <1>5. CASE UNCHANGED <<position, rows>>
    BY <1>5 DEF Trades!vars
  <1> QED
    BY <1>1, <1>2, <1>3, <1>4, <1>5, RestartKeeps, NextIsReliable
    DEF ReliableNext, vars

\* Then the table tells the story of ForwardTrades: one open trade at a time, stops
\* that only tighten, no trade reopened; a restart does not show.
THEOREM Refinement ==
    ASSUME Reliable
    PROVE  Spec => ImplementsTrades
  <1>1. Init => Trades!Init
    BY DEF Init, Trades!Init, NoRow
  <1>2. RInv /\ [Next]_vars => RInv'
    BY NextRInv
  <1>3. RInv /\ [Next]_vars => [Trades!Next]_(Trades!vars)
    BY StepRefines
  <1> QED
    BY <1>1, <1>2, <1>3, InitRInv, PTL DEF Spec, ImplementsTrades, Trades!Spec

-----------------------------------------------------------------------------
(* spot_perp_cvd.                                                          *)

\* A held trade has a stop, the row has the same bet, and every side that still owes a
\* neutral reading is blocked.
SpotInv ==
    /\ SpotTypeOK /\ RowIsHeldTrade
    /\ held => trade.sl > 0 /\ row.sl > 0
    /\ owed \subseteq {s \in Sides : block[s]}
    /\ ReentryWaitsForNeutral

LEMMA ConstantTypes ==
    /\ {MaxPrice, MaxSlip, MaxFillSlip, TrailDist, MinHold, CvdExit, SlDist, TpRatio, SpotThr, SpreadThr} \subseteq Nat
    /\ MaxPrice > 0 /\ 1 \in Prices
  BY DistanceAssumption DEF Prices

LEMMA AgedFits ==
  ASSUME NEW pos \in PositionType, NEW isBar \in BOOLEAN
  PROVE  /\ Aged(pos, isBar) \in PositionType
         /\ Aged(pos, isBar).side = pos.side /\ Aged(pos, isBar).tp = pos.tp
         /\ Aged(pos, isBar).sl = pos.sl
  BY ConstantTypes DEF PositionType, Aged, Smaller

\* What the trailing stop does to a held trade: it moves toward profit or not at all.
LEMMA TrailedFits ==
  ASSUME NEW pos \in PositionType, NEW bar_ \in Bars, pos.sl > 0
  PROVE  LET moved == Trailed(pos, bar_)
         IN  /\ moved \in PositionType /\ moved.sl > 0
             /\ moved.side = pos.side /\ moved.tp = pos.tp /\ moved.entry = pos.entry
             /\ IF pos.side = "long" THEN moved.sl >= pos.sl ELSE moved.sl <= pos.sl
  <1> DEFINE best == IF pos.side = "long" THEN Bigger(pos.hwm, bar_.high) ELSE Smaller(pos.hwm, bar_.low)
             stop == IF pos.side = "long" THEN best - TrailDist ELSE best + TrailDist
             take == IF pos.side = "long" THEN stop > pos.sl ELSE pos.sl <= 0 \/ stop < pos.sl
             sl == IF take THEN stop ELSE pos.sl
             moved == Trailed(pos, bar_)
  <1>1. /\ bar_.high \in Prices /\ bar_.low \in Prices /\ pos.hwm \in Prices /\ pos.sl \in Stops
        /\ pos.side \in Sides
    BY DEF Bars, PositionType
  <1>2. best \in Prices
    BY <1>1 DEF Bigger, Smaller
  <1> HIDE DEF best
  <1>3. /\ sl \in Stops /\ sl > 0
        /\ IF pos.side = "long" THEN sl >= pos.sl ELSE sl <= pos.sl
    BY <1>1, <1>2, ConstantTypes DEF Prices, Stops, Sides
  <1>4. TrailDist # 0 => moved = [pos EXCEPT !.hwm = best, !.sl = sl]
    BY DEF Trailed, best
  <1> HIDE DEF sl, moved
  <1>5. CASE TrailDist = 0
    BY <1>5, ConstantTypes, <1>1 DEF Trailed, moved, Stops
  <1>6. CASE TrailDist # 0
    BY <1>6, <1>4, <1>3, <1>2 DEF PositionType, moved
  <1> QED
    BY <1>5, <1>6 DEF moved

SpotReasons == {"none", "closed_sl_profit", "closed_sl_loss", "closed_tp", "closed_cvd_exit", "restart"}

LEMMA BarExitFits ==
  ASSUME NEW pos, NEW bar_, NEW cvd
  PROVE  BarExit(pos, bar_, cvd).exits \in BOOLEAN /\ BarExit(pos, bar_, cvd).reason \in SpotReasons
  BY DEF BarExit, ExitAt, NoExit, SlReason, SpotReasons

LEMMA IntrabarExitFits ==
  ASSUME NEW pos, NEW p
  PROVE  IntrabarExit(pos, p).exits \in BOOLEAN /\ IntrabarExit(pos, p).reason \in SpotReasons
  BY DEF IntrabarExit, ExitAt, NoExit, SlReason, SpotReasons

LEMMA NoExitFits == NoExit.exits = FALSE /\ NoExit.reason = "none" /\ "none" \in SpotReasons
  BY DEF NoExit, SpotReasons

LEMMA OpenedFits ==
  ASSUME NEW side \in Sides, NEW bar_ \in Bars, StopOf(side, bar_.close) > 0
  PROVE  LET new == Opened(side, bar_)
         IN  new \in PositionType /\ new.side = side /\ new.sl > 0
  <1>1. bar_.close \in Prices /\ bar_.price \in Prices
    BY DEF Bars
  <1>2. StopOf(side, bar_.close) \in Stops
    BY <1>1, ConstantTypes DEF StopOf, Stops, Prices, Sides
  <1>3. TargetOf(side, bar_.close) \in Int
    <2>1. SlDist * TpRatio \in Int
      BY ConstantTypes
    <2> QED
      BY <1>1, <2>1, ConstantTypes DEF TargetOf, Prices
  <1>4. 0 \in 0..MinHold
    BY ConstantTypes
  <1> QED
    BY <1>1, <1>2, <1>3, <1>4 DEF Opened, PositionType

\* The row of a trade, as RowIsHeldTrade has it.
RowFits(r, pos) ==
    /\ r.side = pos.side /\ r.tp = pos.tp
    /\ IF pos.side = "long" THEN r.sl <= pos.sl ELSE r.sl >= pos.sl
RowType == [open : BOOLEAN, side : Sides, entry : Prices, sl : Stops, tp : Int]

LEMMA RowOfFits ==
  ASSUME NEW pos \in PositionType
  PROVE  /\ RowOf(pos) \in RowType /\ RowOf(pos).open = TRUE /\ RowOf(pos).sl = pos.sl
         /\ RowFits(RowOf(pos), pos)
  <1>2. RowOf(pos) \in RowType /\ RowOf(pos).open = TRUE /\ RowOf(pos).sl = pos.sl
    BY DEF RowOf, RowType, PositionType
  <1>3. RowFits(RowOf(pos), pos)
    BY DEF RowOf, RowFits, PositionType, Stops
  <1> QED
    BY <1>2, <1>3

LEMMA FlatFits == ClosedRow \in RowType /\ ClosedRow.open = FALSE /\ NoPosition \in PositionType
  BY ConstantTypes DEF ClosedRow, RowType, Sides, Stops, NoPosition, PositionType

LEMMA SpotInitKeeps == SpotInit => SpotInv
  <1> SUFFICES ASSUME SpotInit PROVE SpotInv
    OBVIOUS
  <1>1. /\ held = FALSE /\ trade = NoPosition /\ row = ClosedRow /\ owed = {} /\ last = Idle
        /\ block = [s \in Sides |-> FALSE]
    BY DEF SpotInit
  <1>2. row.open = FALSE
    BY <1>1, FlatFits
  <1>3. RowIsHeldTrade
    BY <1>1, <1>2 DEF RowIsHeldTrade
  <1>4. SpotTypeOK
    BY <1>1, FlatFits DEF SpotTypeOK, RowType, Idle
  <1> QED
    BY <1>1, <1>3, <1>4 DEF SpotInv, ReentryWaitsForNeutral

LEMMA SpotBarTickKeeps ==
  ASSUME SpotInv, NEW bar_ \in Bars, NEW cvd \in Readings, BarTick(bar_, cvd)
  PROVE  SpotInv'
  <1> DEFINE moved  == Trailed(Aged(trade, TRUE), bar_)
             ex     == IF held THEN BarExit(moved, bar_, cvd) ELSE NoExit
             blk    == Lifted(Blocked(ex), cvd)
             side   == Signal(cvd)
             enters == /\ ~held \/ ex.exits
                       /\ side # "none"
                       /\ ~blk[side]
                       /\ StopOf(side, bar_.close) > 0
             keeps  == held /\ ~ex.exits
             hit    == IF ex.reason = "closed_sl_loss" THEN {trade.side} ELSE {}
  <1>1. /\ held' = (keeps \/ enters)
        /\ trade' = IF enters THEN Opened(side, bar_) ELSE IF keeps THEN moved ELSE NoPosition
        /\ row' = IF enters THEN RowOf(Opened(side, bar_)) ELSE IF keeps THEN row ELSE ClosedRow
        /\ block' = blk
        /\ owed' = {s \in owed \cup hit : ~Neutral(s, cvd)}
        /\ last' = [exit |-> ex.reason,
                    side |-> IF held THEN trade.side ELSE "none",
                    entered |-> IF enters THEN side ELSE "none"]
    BY DEF BarTick
  <1>2. ex.exits \in BOOLEAN /\ ex.reason \in SpotReasons
    BY BarExitFits, NoExitFits
  <1>3. /\ trade \in PositionType /\ trade.side \in Sides /\ held \in BOOLEAN /\ row \in RowType
        /\ block \in [Sides -> BOOLEAN] /\ owed \subseteq {s \in Sides : block[s]}
        /\ row.open = held /\ (held => RowFits(row, trade) /\ trade.sl > 0 /\ row.sl > 0)
    BY DEF SpotInv, SpotTypeOK, RowIsHeldTrade, RowFits, RowType, PositionType
  <1>4. side \in Sides \cup {"none"}
    BY DEF Signal, Sides
  <1>5. /\ held => /\ moved \in PositionType /\ moved.sl > 0
                   /\ RowFits(row, moved)
    <2> SUFFICES ASSUME held PROVE moved \in PositionType /\ moved.sl > 0 /\ RowFits(row, moved)
      OBVIOUS
    <2> DEFINE aged == Aged(trade, TRUE)
    <2>1. /\ aged \in PositionType /\ aged.side = trade.side /\ aged.sl = trade.sl /\ aged.tp = trade.tp
      BY <1>3, AgedFits
    <2> HIDE DEF aged
    <2>2. aged.sl > 0
      BY <2>1, <1>3
    <2> DEFINE m == Trailed(aged, bar_)
    <2>3. /\ m \in PositionType /\ m.sl > 0 /\ m.side = aged.side /\ m.tp = aged.tp
          /\ IF aged.side = "long" THEN m.sl >= aged.sl ELSE m.sl <= aged.sl
      BY <2>1, <2>2, TrailedFits
    <2> HIDE DEF m
    <2>4. m.sl \in Int /\ row.sl \in Int /\ trade.sl \in Int
      BY <2>3, <1>3, ConstantTypes DEF PositionType, RowType, Stops
    <2>5. RowFits(row, m)
      BY <2>1, <2>3, <2>4, <1>3 DEF RowFits
    <2> QED
      BY <2>3, <2>5 DEF m, aged
  <1>6. enters => /\ side \in Sides /\ Opened(side, bar_) \in PositionType
                  /\ Opened(side, bar_).side = side /\ Opened(side, bar_).sl > 0
    BY <1>4, OpenedFits
  <1>7. blk \in [Sides -> BOOLEAN] /\ \A s \in owed' : blk[s] /\ s \in Sides
    <2>1. Blocked(ex) \in [Sides -> BOOLEAN] /\ \A s \in owed \cup hit : Blocked(ex)[s] /\ s \in Sides
      <3> HIDE DEF ex
      <3> QED
        BY <1>3 DEF Blocked
    <2> HIDE DEF ex
    <2> QED
      BY <2>1, <1>1 DEF Lifted
  <1> HIDE DEF moved, ex, blk, side, hit
  <1>8. SpotTypeOK'
    <2>1. held' \in BOOLEAN /\ block' \in [Sides -> BOOLEAN] /\ owed' \subseteq Sides
      BY <1>1, <1>7, <1>2, <1>3
    <2>2. trade' \in PositionType /\ row' \in RowType
      BY <1>1, <1>3, <1>5, <1>6, RowOfFits, FlatFits
    <2>3. last' \in [side : Sides \cup {"none"}, exit : SpotReasons, entered : Sides \cup {"none"}]
      BY <1>1, <1>2, <1>3, <1>4
    <2> QED
      BY <2>1, <2>2, <2>3 DEF SpotTypeOK, RowType, SpotReasons
  <1>9. RowIsHeldTrade' /\ (held' => trade'.sl > 0 /\ row'.sl > 0)
    <2>1. CASE enters
      <3>1. /\ held' = TRUE /\ trade' = Opened(side, bar_) /\ row' = RowOf(Opened(side, bar_))
        BY <2>1, <1>1
      <3>2. row'.open = TRUE /\ RowFits(row', trade') /\ trade'.sl > 0 /\ row'.sl > 0
        BY <2>1, <3>1, <1>6, RowOfFits
      <3> QED
        BY <3>1, <3>2 DEF RowIsHeldTrade, RowFits
    <2>2. CASE ~enters /\ keeps
      <3>1. /\ held' = TRUE /\ trade' = moved /\ row' = row /\ held = TRUE
        BY <2>2, <1>1, <1>3
      <3>2. row'.open = TRUE /\ RowFits(row', trade') /\ trade'.sl > 0 /\ row'.sl > 0
        BY <3>1, <1>3, <1>5
      <3> QED
        BY <3>1, <3>2 DEF RowIsHeldTrade, RowFits
    <2>3. CASE ~enters /\ ~keeps
      <3>1. /\ held' = FALSE /\ row' = ClosedRow
        BY <2>3, <1>1
      <3>2. row'.open = FALSE
        BY <3>1, FlatFits
      <3> QED
        BY <3>1, <3>2 DEF RowIsHeldTrade
    <2> QED
      BY <2>1, <2>2, <2>3
  <1>10. owed' \subseteq {s \in Sides : block'[s]}
    BY <1>7, <1>1
  <1>11. ReentryWaitsForNeutral'
    <2>1. last'.entered = IF enters THEN side ELSE "none"
      BY <1>1
    <2>2. "none" \notin owed'
      BY <1>7 DEF Sides
    <2>3. enters => ~blk[side]
      OBVIOUS
    <2> QED
      BY <2>1, <2>2, <2>3, <1>7 DEF ReentryWaitsForNeutral
  <1> QED
    BY <1>8, <1>9, <1>10, <1>11 DEF SpotInv

LEMMA SpotIntrabarKeeps ==
  ASSUME SpotInv, NEW p \in Prices, IntrabarTick(p)
  PROVE  SpotInv'
  <1> DEFINE pos == Aged(trade, FALSE)
             ex  == IntrabarExit(pos, p)
  <1>1. /\ held /\ held' = ~ex.exits
        /\ trade' = IF ex.exits THEN NoPosition ELSE pos
        /\ row' = IF ex.exits THEN ClosedRow ELSE row
        /\ block' = Blocked(ex)
        /\ owed' = owed \cup (IF ex.reason = "closed_sl_loss" THEN {trade.side} ELSE {})
        /\ last' = [Idle EXCEPT !.exit = ex.reason, !.side = trade.side]
    BY DEF IntrabarTick
  <1>2. ex.exits \in BOOLEAN /\ ex.reason \in SpotReasons
    BY IntrabarExitFits
  <1>3. /\ trade \in PositionType /\ trade.side \in Sides /\ row \in RowType
        /\ block \in [Sides -> BOOLEAN] /\ owed \subseteq {s \in Sides : block[s]}
        /\ row.open = held /\ RowFits(row, trade) /\ trade.sl > 0 /\ row.sl > 0
    BY <1>1 DEF SpotInv, SpotTypeOK, RowIsHeldTrade, RowFits, RowType, PositionType
  <1>4. /\ pos \in PositionType /\ pos.side = trade.side /\ pos.tp = trade.tp /\ pos.sl = trade.sl
    BY <1>3, AgedFits
  <1> HIDE DEF pos, ex
  <1>5. SpotTypeOK'
    <2>1. trade' \in PositionType /\ row' \in RowType /\ held' \in BOOLEAN
      BY <1>1, <1>2, <1>3, <1>4, FlatFits
    <2>2. block' \in [Sides -> BOOLEAN] /\ owed' \subseteq Sides
      BY <1>1, <1>3 DEF Blocked
    <2>3. last' \in [side : Sides \cup {"none"}, exit : SpotReasons, entered : Sides \cup {"none"}]
      BY <1>1, <1>2, <1>3 DEF Idle
    <2> QED
      BY <2>1, <2>2, <2>3 DEF SpotTypeOK, RowType, SpotReasons
  <1>6. RowIsHeldTrade' /\ (held' => trade'.sl > 0 /\ row'.sl > 0)
    <2>1. CASE ex.exits
      <3>1. /\ held' = FALSE /\ row' = ClosedRow
        BY <2>1, <1>1
      <3>2. row'.open = FALSE
        BY <3>1, FlatFits
      <3> QED
        BY <3>1, <3>2 DEF RowIsHeldTrade
    <2>2. CASE ~ex.exits
      <3>1. /\ held' = TRUE /\ row' = row /\ trade' = pos /\ held = TRUE
        BY <2>2, <1>1, <1>3
      <3>2. row'.open = TRUE /\ RowFits(row', trade') /\ trade'.sl > 0 /\ row'.sl > 0
        <4>1. row'.open = TRUE /\ row'.sl > 0
          BY <3>1, <1>3
        <4>2. RowFits(row, pos)
          BY <1>3, <1>4 DEF RowFits
        <4>3. pos.sl > 0
          BY <1>3, <1>4
        <4> QED
          BY <3>1, <4>1, <4>2, <4>3
      <3> QED
        BY <3>1, <3>2 DEF RowIsHeldTrade, RowFits
    <2> QED
      BY <2>1, <2>2
  <1>7. owed' \subseteq {s \in Sides : block'[s]}
    BY <1>1, <1>3 DEF Blocked
  <1>8. ReentryWaitsForNeutral'
    <2>1. last'.entered = "none"
      BY <1>1 DEF Idle
    <2> QED
      BY <2>1, <1>7 DEF ReentryWaitsForNeutral, Sides
  <1> QED
    BY <1>5, <1>6, <1>7, <1>8 DEF SpotInv

LEMMA SpotRestartKeeps ==
  ASSUME SpotInv, SpotRestart
  PROVE  SpotInv'
  <1>1. /\ trade \in PositionType /\ row \in RowType /\ row.open = held
        /\ held => RowFits(row, trade) /\ row.sl > 0
    BY DEF SpotInv, SpotTypeOK, RowIsHeldTrade, RowFits, RowType
  <1> DEFINE back == [side |-> row.side, entry |-> row.entry, sl |-> row.sl,
                      tp |-> row.tp, hwm |-> row.entry, hold |-> 0]
  <1>2. /\ held' = row.open /\ trade' = IF row.open THEN back ELSE NoPosition
        /\ block' = [s \in Sides |-> FALSE] /\ last' = [Idle EXCEPT !.exit = "restart"]
        /\ owed' = {} /\ row' = row
    BY DEF SpotRestart
  <1>3. back \in PositionType
    <2>1. 0 \in 0..MinHold
      BY ConstantTypes
    <2> QED
      BY <2>1, <1>1 DEF PositionType, RowType
  <1>4. RowFits(row, back) /\ back.sl = row.sl
    BY <1>1 DEF RowFits, RowType, Stops
  <1> HIDE DEF back
  <1>5. RowIsHeldTrade' /\ (held' => trade'.sl > 0 /\ row'.sl > 0)
    <2>1. row'.open = held'
      BY <1>1, <1>2
    <2>2. held' => RowFits(row', trade') /\ trade'.sl > 0 /\ row'.sl > 0
      BY <1>1, <1>2, <1>4
    <2> QED
      BY <2>1, <2>2 DEF RowIsHeldTrade, RowFits
  <1>6. SpotTypeOK'
    <2>1. trade' \in PositionType /\ held' \in BOOLEAN
      BY <1>1, <1>2, <1>3, FlatFits DEF RowType
    <2>2. last' \in [side : Sides \cup {"none"}, exit : SpotReasons, entered : Sides \cup {"none"}]
      BY <1>2 DEF Idle, SpotReasons
    <2> QED
      BY <2>1, <2>2, <1>1, <1>2 DEF SpotTypeOK, RowType, SpotReasons
  <1> QED
    BY <1>2, <1>5, <1>6 DEF SpotInv, ReentryWaitsForNeutral

LEMMA SpotFillKeeps ==
  ASSUME SpotInv, NEW p \in Prices, FillNoted(p)
  PROVE  SpotInv'
  <1>1. /\ row.open /\ row' = [row EXCEPT !.entry = p] /\ last' = Idle
        /\ held' = held /\ trade' = trade /\ block' = block /\ owed' = owed
    BY DEF FillNoted
  <1>2. SpotTypeOK /\ RowIsHeldTrade /\ row \in RowType /\ owed \subseteq Sides
    BY DEF SpotInv, SpotTypeOK, RowType
  <1>3. /\ row' \in RowType /\ row'.open = row.open /\ row'.side = row.side /\ row'.sl = row.sl
        /\ row'.tp = row.tp
    BY <1>1, <1>2 DEF RowType
  <1>4. SpotTypeOK'
    BY <1>1, <1>2, <1>3 DEF SpotTypeOK, RowType, Idle
  <1>5. RowIsHeldTrade'
    BY <1>1, <1>2, <1>3 DEF RowIsHeldTrade
  <1>6. ReentryWaitsForNeutral'
    BY <1>1, <1>2 DEF ReentryWaitsForNeutral, Idle, Sides
  <1> QED
    BY <1>1, <1>3, <1>4, <1>5, <1>6 DEF SpotInv

LEMMA SpotIdles == SpotInv /\ UNCHANGED spotVars => SpotInv'
  BY DEF SpotInv, spotVars, SpotTypeOK, RowIsHeldTrade, ReentryWaitsForNeutral

LEMMA SpotStepKeeps == SpotInv /\ [SpotNext]_spotVars => SpotInv'
  <1> SUFFICES ASSUME SpotInv, [SpotNext]_spotVars PROVE SpotInv'
    OBVIOUS
  <1>1. CASE \E bar_ \in Bars, cvd \in Readings : BarTick(bar_, cvd)
    BY <1>1, SpotBarTickKeeps
  <1>2. CASE \E p \in Prices : IntrabarTick(p) \/ FillNoted(p)
    BY <1>2, SpotIntrabarKeeps, SpotFillKeeps
  <1>3. CASE SpotRestart
    BY <1>3, SpotRestartKeeps
  <1>4. CASE UNCHANGED spotVars
    BY <1>4, SpotIdles
  <1> QED
    BY <1>1, <1>2, <1>3, <1>4 DEF SpotNext

\* A step that keeps a trade and is no restart moves its stop toward profit or not at all.
StopHolds ==
    held /\ held' /\ last'.entered = "none" /\ last'.exit # "restart" =>
        IF trade.side = "long" THEN trade'.sl >= trade.sl ELSE trade'.sl <= trade.sl

LEMMA SpotStopHolds == SpotInv /\ [SpotNext]_spotVars => StopHolds
  <1> SUFFICES ASSUME SpotInv, [SpotNext]_spotVars, held, held', last'.entered = "none", last'.exit # "restart"
               PROVE  IF trade.side = "long" THEN trade'.sl >= trade.sl ELSE trade'.sl <= trade.sl
    BY DEF StopHolds
  <1>1. trade \in PositionType /\ trade.sl > 0 /\ trade.sl \in Int
    BY ConstantTypes DEF SpotInv, SpotTypeOK, PositionType, Stops
  <1>2. CASE \E bar_ \in Bars, cvd \in Readings : BarTick(bar_, cvd)
    <2>1. PICK bar_ \in Bars, cvd \in Readings : BarTick(bar_, cvd)
      BY <1>2
    <2> DEFINE aged == Aged(trade, TRUE)
               side == Signal(cvd)
    <2>2. aged \in PositionType /\ aged.side = trade.side /\ aged.sl = trade.sl
      BY <1>1, AgedFits
    <2>3. trade' = Trailed(aged, bar_)
      <3>1. side # "none" => last'.entered = "none" \/ last'.entered = side
        BY <2>1 DEF BarTick
      <3> DEFINE ex == BarExit(Trailed(aged, bar_), bar_, cvd)
                 enters == /\ ~held \/ ex.exits
                           /\ side # "none"
                           /\ ~Lifted(Blocked(ex), cvd)[side]
                           /\ StopOf(side, bar_.close) > 0
      <3>2. /\ last'.entered = IF enters THEN side ELSE "none"
            /\ held' = ((held /\ ~ex.exits) \/ enters)
            /\ trade' = IF enters THEN Opened(side, bar_)
                       ELSE IF held /\ ~ex.exits THEN Trailed(aged, bar_) ELSE NoPosition
        BY <2>1 DEF BarTick
      <3>3. ~enters
        <4>1. enters => side # "none"
          OBVIOUS
        <4> HIDE DEF enters, side
        <4> QED
          BY <3>2, <4>1
      <3> HIDE DEF enters, ex
      <3> QED
        BY <3>2, <3>3
    <2> HIDE DEF aged
    <2> QED
      BY <2>2, <2>3, <1>1, TrailedFits
  <1>3. CASE \E p \in Prices : IntrabarTick(p) \/ FillNoted(p)
    <2>1. trade'.sl = trade.sl
      BY <1>3, <1>1, AgedFits DEF IntrabarTick, FillNoted
    <2> QED
      BY <2>1, <1>1
  <1>4. CASE SpotRestart
    BY <1>4 DEF SpotRestart, Idle
  <1>5. CASE UNCHANGED spotVars
    BY <1>5, <1>1 DEF spotVars
  <1> QED
    BY <1>2, <1>3, <1>4, <1>5 DEF SpotNext

-----------------------------------------------------------------------------
(* oi_cvd_surge.                                                           *)

\* The range of b lies in that of a.
Covers(a, b) == a.low <= b.low /\ a.high >= b.high
Quotes == [high : O!Prices, low : O!Prices]
SurgePositions == [side : Sides, entry : O!Prices, sl : Nat, tp : Nat]

\* The history of the price since the entry covers every range a tick may still look
\* at, as long as the bar had no restart; a bar is entered once per process.
SurgeInv ==
    /\ O!TypeOK
    /\ bar.low <= price /\ price <= bar.high
    /\ noted <= bar.id
    /\ task # O!NoTask => noted = bar.id /\ task.bar.id = bar.id
    /\ surgeHeld => seen.low <= price /\ price <= seen.high
    /\ surgeHeld /\ restarts = 0 /\ noted # bar.id => Covers(seen, bar)
    /\ surgeHeld /\ restarts = 0 /\ task # O!NoTask => Covers(seen, task.bar)
    /\ entries <= restarts + (IF noted = bar.id /\ task = O!NoTask THEN 1 ELSE 0)
    /\ O!ExitWasTouched

LEMMA SurgeConstants ==
    /\ SurgeMaxPrice \in Nat /\ SurgeMaxPrice > 0 /\ MaxBar \in Nat /\ MaxBar > 0
    /\ RrRatio \in Nat /\ MaxRestarts \in Nat /\ Dists \subseteq Nat /\ 1 \in O!Prices
  BY EngineAssumption DEF O!ConstantsFit, O!Prices

LEMMA SurgeTypes ==
  ASSUME SurgeInv
  PROVE  /\ price \in O!Prices /\ price \in Int /\ bar \in O!Bars
         /\ bar.id \in Int /\ bar.id >= 1 /\ bar.low \in Int /\ bar.high \in Int
         /\ noted \in Int /\ seen \in Quotes /\ seen.low \in Int /\ seen.high \in Int
         /\ task \in O!States \cup {O!NoTask} /\ surgeHeld \in BOOLEAN
         /\ surgePos \in SurgePositions
         /\ entries \in Nat /\ restarts \in Nat
  BY SurgeConstants DEF SurgeInv, O!TypeOK, O!Prices, O!Bars, Quotes, SurgePositions, O!Sides, Sides

LEMMA TaskTypes ==
  ASSUME task \in O!States
  PROVE  /\ task.bar \in O!Bars /\ task.bar.low \in Int /\ task.bar.high \in Int
         /\ task.close \in O!Prices /\ task.sig.sl \in Int /\ task.sig.tp \in Int
         /\ task.sig.side # "none" => task.sig.side \in Sides
  BY SurgeConstants DEF O!States, O!Bars, O!Prices, O!Signals, O!NoSignal, O!Sides, Sides

LEMMA NoTaskIsNone == O!NoTask \notin O!States
  BY SurgeConstants DEF O!NoTask, O!States, O!Prices

\* What a quote does to a range.
LEMMA QuotesWiden ==
  ASSUME NEW q \in Quotes, NEW p \in O!Prices
  PROVE  /\ O!Widened(q, p) \in Quotes
         /\ O!Widened(q, p).low = Smaller(q.low, p) /\ O!Widened(q, p).high = Bigger(q.high, p)
  BY SurgeConstants DEF Quotes, O!Widened, O!Prices, O!Smaller, O!Bigger, Smaller, Bigger

LEMMA BarsWiden ==
  ASSUME NEW q \in O!Bars, NEW p \in O!Prices
  PROVE  /\ O!Widened(q, p) \in O!Bars /\ O!Widened(q, p).id = q.id
         /\ O!Widened(q, p).low = Smaller(q.low, p) /\ O!Widened(q, p).high = Bigger(q.high, p)
  BY SurgeConstants DEF O!Bars, O!Widened, O!Prices, O!Smaller, O!Bigger, Smaller, Bigger

LEMMA WidenedCovers ==
  ASSUME NEW a \in Int, NEW b \in Int, NEW c \in Int
  PROVE  /\ Smaller(a, c) <= c /\ c <= Bigger(a, c)
         /\ Smaller(a, c) <= a /\ a <= Bigger(a, c)
         /\ a <= b => Smaller(a, c) <= Smaller(b, c)
         /\ a >= b => Bigger(a, c) >= Bigger(b, c)
  BY DEF Smaller, Bigger

\* A trade that a range closes was closed at a price of every wider range.
LEMMA ExitIsTouched ==
  ASSUME NEW pos \in SurgePositions, NEW r, NEW s, r.low \in Int, r.high \in Int,
         s.low \in Int, s.high \in Int, Covers(s, r)
  PROVE  LET ex == O!OiCvdExit(pos, r)
             at == [side |-> pos.side, sl |-> ex.price, tp |-> ex.price]
         IN  /\ ex.exits \in BOOLEAN
             /\ ex.exits => IF ex.reason = "closed_tp1" THEN O!TargetHit(at, s.low, s.high)
                            ELSE O!StopHit(at, s.low, s.high)
  <1>1. pos.side \in Sides /\ pos.sl \in Nat /\ pos.tp \in Nat
    BY DEF SurgePositions
  <1>2. O!SlReason(pos) # "closed_tp1"
    BY DEF O!SlReason
  <1> DEFINE ex == O!OiCvdExit(pos, r)
             at == [side |-> pos.side, sl |-> ex.price, tp |-> ex.price]
  <1>6. at.side = pos.side /\ at.sl = ex.price /\ at.tp = ex.price
    OBVIOUS
  <1>3. CASE O!TargetHit(pos, r.low, r.high)
    <2>1. ex.exits = TRUE /\ ex.price = pos.tp /\ ex.reason = "closed_tp1"
      BY <1>3 DEF O!OiCvdExit, O!ExitAt
    <2> HIDE DEF ex, at
    <2>2. O!TargetHit(at, s.low, s.high)
      BY <1>3, <1>1, <1>6, <2>1 DEF O!TargetHit, Covers
    <2> QED
      BY <2>1, <2>2 DEF at, ex
  <1>4. CASE ~O!TargetHit(pos, r.low, r.high) /\ O!StopHit(pos, r.low, r.high)
    <2>1. ex.exits = TRUE /\ ex.price = pos.sl /\ ex.reason # "closed_tp1"
      BY <1>4, <1>2 DEF O!OiCvdExit, O!ExitAt
    <2> HIDE DEF ex, at
    <2>2. O!StopHit(at, s.low, s.high)
      BY <1>4, <1>1, <1>6, <2>1 DEF O!StopHit, Covers
    <2> QED
      BY <2>1, <2>2 DEF at, ex
  <1>5. CASE ~O!TargetHit(pos, r.low, r.high) /\ ~O!StopHit(pos, r.low, r.high)
    BY <1>5 DEF O!OiCvdExit, O!NoExit
  <1> QED
    BY <1>3, <1>4, <1>5

LEMMA NoExitYetFits ==
    /\ O!NoExitYet.exit.exits = FALSE /\ O!NoExitYet.side \in Sides
    /\ {O!NoExitYet.high, O!NoExitYet.low} \subseteq O!Prices
  BY SurgeConstants DEF O!NoExitYet, O!NoExit, Sides

LEMMA NothingClosed == surgeLast = O!NoExitYet => O!ExitWasTouched
  BY NoExitYetFits DEF O!ExitWasTouched

LEMMA SurgeInitKeeps == O!Init => SurgeInv
  <1> SUFFICES ASSUME O!Init PROVE SurgeInv
    OBVIOUS
  <1>1. /\ price \in O!Prices /\ bar = [id |-> 1, high |-> price, low |-> price]
        /\ noted = 0 /\ task = O!NoTask /\ surgeHeld = FALSE /\ surgePos = O!NoPosition
        /\ seen = [high |-> 1, low |-> 1] /\ entries = 0 /\ restarts = 0 /\ surgeLast = O!NoExitYet
    BY DEF O!Init
  <1>2. O!TypeOK
    <2>1. bar \in O!Bars /\ seen \in [high : O!Prices, low : O!Prices]
      BY <1>1, SurgeConstants DEF O!Bars
    <2>2. surgePos \in [side : O!Sides, entry : O!Prices, sl : Nat, tp : Nat]
      BY <1>1, SurgeConstants DEF O!NoPosition, O!Sides
    <2>3. surgeLast.side \in O!Sides /\ {surgeLast.high, surgeLast.low} \subseteq O!Prices
      BY <1>1, NoExitYetFits DEF O!Sides, Sides
    <2>4. noted \in 0..MaxBar /\ entries \in Nat /\ restarts \in 0..MaxRestarts
      BY <1>1, SurgeConstants
    <2>5. price \in O!Prices /\ task \in O!States \cup {O!NoTask} /\ surgeHeld \in BOOLEAN
      BY <1>1
    <2> QED
      BY <2>1, <2>2, <2>3, <2>4, <2>5 DEF O!TypeOK
  <1>3. bar.low <= price /\ price <= bar.high /\ noted <= bar.id
    BY <1>1, SurgeConstants DEF O!Prices
  <1>4. entries <= restarts + (IF noted = bar.id /\ task = O!NoTask THEN 1 ELSE 0)
    BY <1>1
  <1> QED
    BY <1>1, <1>2, <1>3, <1>4, NothingClosed DEF SurgeInv

LEMMA SurgeMoveKeeps ==
  ASSUME SurgeInv, NEW p \in O!Prices, O!Move(p)
  PROVE  SurgeInv'
  <1>1. /\ price' = p /\ bar' = O!Widened(bar, p)
        /\ seen' = IF surgeHeld THEN O!Widened(seen, p) ELSE seen
        /\ noted' = noted /\ task' = task /\ surgeHeld' = surgeHeld /\ surgePos' = surgePos
        /\ entries' = entries /\ restarts' = restarts /\ surgeLast' = surgeLast
    BY DEF O!Move, O!engineVars
  <1>2. /\ bar' \in O!Bars /\ bar'.id = bar.id
        /\ bar'.low = Smaller(bar.low, p) /\ bar'.high = Bigger(bar.high, p)
    BY <1>1, SurgeTypes, BarsWiden
  <1>3. /\ seen' \in Quotes
        /\ surgeHeld => seen'.low = Smaller(seen.low, p) /\ seen'.high = Bigger(seen.high, p)
    BY <1>1, SurgeTypes, QuotesWiden
  <1>4. p \in Int
    BY SurgeConstants DEF O!Prices
  <1>5. bar'.low <= price' /\ price' <= bar'.high /\ noted' <= bar'.id
    BY <1>1, <1>2, <1>4, SurgeTypes, WidenedCovers DEF SurgeInv
  <1>6. surgeHeld' => seen'.low <= price' /\ price' <= seen'.high
    BY <1>1, <1>3, <1>4, SurgeTypes, WidenedCovers
  <1>7. surgeHeld' /\ restarts' = 0 /\ noted' # bar'.id => Covers(seen', bar')
    BY <1>1, <1>2, <1>3, <1>4, SurgeTypes, WidenedCovers DEF SurgeInv, Covers
  <1>8. surgeHeld' /\ restarts' = 0 /\ task' # O!NoTask => Covers(seen', task'.bar)
    <2> SUFFICES ASSUME surgeHeld, restarts = 0, task # O!NoTask PROVE Covers(seen', task.bar)
      BY <1>1
    <2>1. Covers(seen, task.bar)
      BY DEF SurgeInv
    <2>2. task.bar.low \in Int /\ task.bar.high \in Int
      BY SurgeTypes, TaskTypes
    <2>3. seen'.low <= seen.low /\ seen.high <= seen'.high /\ seen'.low \in Int /\ seen'.high \in Int
      BY <1>3, <1>4, SurgeTypes, WidenedCovers, SurgeConstants DEF Quotes, O!Prices
    <2> QED
      BY <2>1, <2>2, <2>3, SurgeTypes DEF Covers
  <1>9. O!TypeOK' /\ O!ExitWasTouched'
    BY <1>1, <1>2, <1>3 DEF SurgeInv, O!TypeOK, O!ExitWasTouched, Quotes
  <1> QED
    BY <1>1, <1>2, <1>5, <1>6, <1>7, <1>8, <1>9 DEF SurgeInv

LEMMA SurgeNewBarKeeps ==
  ASSUME SurgeInv, O!NewBar
  PROVE  SurgeInv'
  <1>1. /\ bar.id < MaxBar /\ task = O!NoTask
        /\ bar' = [id |-> bar.id + 1, high |-> price, low |-> price]
        /\ entries' = 0 /\ restarts' = 0 /\ surgeLast' = O!NoExitYet
        /\ price' = price /\ noted' = noted /\ task' = task /\ surgeHeld' = surgeHeld
        /\ surgePos' = surgePos /\ seen' = seen
    BY DEF O!NewBar
  <1>2. /\ bar' \in O!Bars /\ bar'.id = bar.id + 1 /\ bar'.low = price /\ bar'.high = price
    BY <1>1, SurgeTypes, SurgeConstants DEF O!Bars
  <1>3. surgeLast'.side \in O!Sides /\ {surgeLast'.high, surgeLast'.low} \subseteq O!Prices
    BY <1>1, NoExitYetFits DEF O!Sides, Sides
  <1>4. O!TypeOK'
    BY <1>1, <1>2, <1>3, SurgeConstants DEF SurgeInv, O!TypeOK
  <1>5. O!ExitWasTouched'
    BY <1>1, NoExitYetFits DEF O!ExitWasTouched
  <1>6. bar'.low <= price' /\ price' <= bar'.high /\ noted' <= bar'.id /\ noted' # bar'.id
    BY <1>1, <1>2, SurgeTypes DEF SurgeInv
  <1>7. surgeHeld' => Covers(seen', bar')
    BY <1>1, <1>2, SurgeTypes DEF SurgeInv, Covers
  <1> QED
    BY <1>1, <1>4, <1>5, <1>6, <1>7 DEF SurgeInv

LEMMA SignalTypes ==
  ASSUME SurgeInv, NEW sig, \/ sig = O!NoSignal
                            \/ \E s \in O!Sides, d \in Dists : sig = O!SignalOf(s, price, d)
  PROVE  sig \in O!Signals \cup {O!NoSignal}
  <1>1. CASE \E s \in O!Sides, d \in Dists : sig = O!SignalOf(s, price, d)
    <2>1. PICK s \in O!Sides, d \in Dists : sig = O!SignalOf(s, price, d)
      BY <1>1
    <2>2. d \in Int /\ RrRatio \in Int /\ d * RrRatio \in Int /\ price \in Int
      <3>1. d \in Int /\ RrRatio \in Int /\ price \in Int
        BY SurgeConstants, SurgeTypes
      <3> QED
        BY <3>1
    <2> QED
      BY <2>1, <2>2 DEF O!SignalOf, O!Signals
  <1> QED
    BY <1>1

LEMMA SurgeFetchKeeps ==
  ASSUME SurgeInv, NEW sig \in O!Signals \cup {O!NoSignal}, O!Fetch(sig)
  PROVE  SurgeInv'
  <1> DEFINE t == [bar |-> bar, close |-> price, sig |-> sig]
  <1>1. /\ noted # bar.id /\ task = O!NoTask /\ noted' = bar.id /\ task' = t
        /\ price' = price /\ bar' = bar /\ surgeHeld' = surgeHeld /\ surgePos' = surgePos
        /\ entries' = entries /\ seen' = seen /\ restarts' = restarts /\ surgeLast' = surgeLast
    BY DEF O!Fetch, O!marketVars, O!engineVars
  <1>2. t \in O!States /\ t.bar = bar
    BY SurgeTypes DEF O!States
  <1> HIDE DEF t
  <1>3. task' # O!NoTask
    BY <1>1, <1>2, NoTaskIsNone
  <1>4. bar.id \in 0..MaxBar
    BY SurgeTypes, SurgeConstants DEF O!Bars
  <1>5. O!TypeOK'
    BY <1>1, <1>2, <1>4 DEF SurgeInv, O!TypeOK
  <1>6. entries' <= restarts'
    BY <1>1 , SurgeTypes DEF SurgeInv
  <1>7. O!ExitWasTouched'
    BY <1>1 DEF SurgeInv, O!ExitWasTouched
  <1> QED
    BY <1>1, <1>2, <1>3, <1>4, <1>5, <1>6, <1>7, SurgeTypes DEF SurgeInv

LEMMA SurgeTickKeeps ==
  ASSUME SurgeInv, O!RunTick
  PROVE  SurgeInv'
  <1> DEFINE range  == O!TickRange(task)
             ex     == IF surgeHeld THEN O!OiCvdExit(surgePos, range) ELSE O!NoExit
             enters == ~surgeHeld /\ O!Tradable(task.sig)
  <1>1. /\ task # O!NoTask /\ task' = O!NoTask
        /\ surgeHeld' = ((surgeHeld /\ ~ex.exits) \/ enters)
        /\ surgePos' = IF enters THEN O!Opened(task)
                       ELSE IF ex.exits THEN O!NoPosition ELSE surgePos
        /\ seen' = IF enters THEN [high |-> price, low |-> price] ELSE seen
        /\ entries' = IF enters THEN entries + 1 ELSE entries
        /\ surgeLast' = IF ex.exits THEN O!Closed(ex) ELSE O!NoExitYet
        /\ price' = price /\ bar' = bar /\ noted' = noted /\ restarts' = restarts
    BY DEF O!RunTick, O!marketVars
  <1>2. task \in O!States
    BY <1>1, SurgeTypes
  <1>3. range.low = task.bar.low /\ range.high = task.bar.high
    BY DEF O!TickRange
  <1> DEFINE at == [side |-> surgePos.side, sl |-> ex.price, tp |-> ex.price]
  <1>4. /\ ex.exits \in BOOLEAN
        /\ ex.exits => surgeHeld
        /\ ex.exits /\ restarts = 0 =>
             IF ex.reason = "closed_tp1" THEN O!TargetHit(at, seen.low, seen.high)
             ELSE O!StopHit(at, seen.low, seen.high)
    <2>1. CASE ~surgeHeld
      BY <2>1 DEF O!NoExit
    <2>2. CASE surgeHeld /\ restarts # 0
      BY <2>2 DEF O!OiCvdExit, O!NoExit, O!ExitAt
    <2>3. CASE surgeHeld /\ restarts = 0
      <3>1. Covers(seen, range)
        BY <2>3, <1>1, <1>3 DEF SurgeInv, Covers
      <3>2. surgePos \in SurgePositions /\ range.low \in Int /\ range.high \in Int
        BY SurgeTypes, <1>2, TaskTypes, <1>3
      <3> HIDE DEF range
      <3> QED
        BY <2>3, <3>1, <3>2, SurgeTypes, ExitIsTouched
    <2> QED
      BY <2>1, <2>2, <2>3, SurgeTypes
  <1>5. enters => O!Opened(task) \in SurgePositions
    BY <1>2, TaskTypes, SurgeTypes DEF O!Tradable, O!Opened, SurgePositions
  <1>6. O!NoPosition \in SurgePositions
    BY SurgeConstants DEF O!NoPosition, SurgePositions, Sides
  <1>7. O!Closed(ex).exit = ex /\ O!Closed(ex).side = surgePos.side /\ O!Closed(ex).low = seen.low
        /\ O!Closed(ex).high = seen.high
    BY DEF O!Closed
  <1> HIDE DEF ex, enters
  <1>8. O!TypeOK'
    <2>1. price' \in O!Prices /\ bar' \in O!Bars /\ noted' \in 0..MaxBar /\ restarts' \in 0..MaxRestarts
      BY <1>1 DEF SurgeInv, O!TypeOK
    <2>2. task' \in O!States \cup {O!NoTask} /\ surgeHeld' \in BOOLEAN /\ entries' \in Nat
      BY <1>1, SurgeTypes
    <2>3. surgePos' \in SurgePositions
      BY <1>1, <1>5, <1>6, SurgeTypes
    <2>4. seen' \in Quotes
      BY <1>1, SurgeTypes DEF Quotes
    <2>5. surgeLast'.side \in O!Sides /\ {surgeLast'.high, surgeLast'.low} \subseteq O!Prices
      <3>1. surgePos.side \in Sides /\ {seen.low, seen.high} \subseteq O!Prices
        BY SurgeTypes DEF SurgePositions, Quotes
      <3>2. CASE ex.exits
        BY <3>1, <3>2, <1>1, <1>7 DEF O!Sides, Sides
      <3>3. CASE ~ex.exits
        <4>1. surgeLast' = O!NoExitYet
          BY <3>3, <1>1
        <4> QED
          BY <4>1, NoExitYetFits DEF O!Sides, Sides
      <3> QED
        BY <3>2, <3>3
    <2> QED
      BY <2>1, <2>2, <2>3, <2>4, <2>5 DEF O!TypeOK, SurgePositions, Quotes, O!Sides, Sides
  <1>9. O!ExitWasTouched'
    <2>1. CASE ex.exits
      <3>1. surgeLast'.exit = ex /\ surgeLast'.side = surgePos.side /\ surgeLast'.low = seen.low
            /\ surgeLast'.high = seen.high
        BY <2>1, <1>1, <1>7
      <3> QED
        BY <2>1, <3>1, <1>1, <1>4 DEF O!ExitWasTouched
    <2>2. CASE ~ex.exits
      <3>1. surgeLast' = O!NoExitYet
        BY <2>2, <1>1
      <3> QED
        BY <3>1, NoExitYetFits DEF O!ExitWasTouched
    <2> QED
      BY <2>1, <2>2
  <1>10. surgeHeld' => seen'.low <= price' /\ price' <= seen'.high
    BY <1>1, SurgeTypes DEF SurgeInv
  <1>11. noted' = bar'.id
    BY <1>1 DEF SurgeInv
  <1>12. entries' <= restarts' + 1
    BY <1>1, SurgeTypes DEF SurgeInv
  <1> QED
    BY <1>1, <1>8, <1>9, <1>10, <1>11, <1>12 DEF SurgeInv

LEMMA SurgeIntrabarKeeps ==
  ASSUME SurgeInv, O!IntrabarTick
  PROVE  SurgeInv'
  <1> DEFINE range == [high |-> price, low |-> price, price |-> price]
             ex    == O!OiCvdExit(surgePos, range)
             at == [side |-> surgePos.side, sl |-> ex.price, tp |-> ex.price]
  <1>1. /\ surgeHeld /\ surgeHeld' = ~ex.exits
        /\ surgePos' = IF ex.exits THEN O!NoPosition ELSE surgePos
        /\ surgeLast' = IF ex.exits THEN O!Closed(ex) ELSE O!NoExitYet
        /\ price' = price /\ bar' = bar /\ noted' = noted /\ task' = task
        /\ entries' = entries /\ restarts' = restarts /\ seen' = seen
    BY DEF O!IntrabarTick, O!marketVars
  <1>2. /\ ex.exits \in BOOLEAN
        /\ ex.exits =>
             IF ex.reason = "closed_tp1" THEN O!TargetHit(at, seen.low, seen.high)
             ELSE O!StopHit(at, seen.low, seen.high)
    <2>1. Covers(seen, range) /\ range.low \in Int /\ range.high \in Int
      BY <1>1, SurgeTypes DEF SurgeInv, Covers
    <2> HIDE DEF range
    <2> QED
      BY <2>1, SurgeTypes, ExitIsTouched
  <1>6. O!NoPosition \in SurgePositions
    BY SurgeConstants DEF O!NoPosition, SurgePositions, Sides
  <1>7. O!Closed(ex).exit = ex /\ O!Closed(ex).side = surgePos.side /\ O!Closed(ex).low = seen.low
        /\ O!Closed(ex).high = seen.high
    BY DEF O!Closed
  <1> HIDE DEF ex
  <1>8. O!TypeOK'
    <2>3. surgePos' \in SurgePositions
      BY <1>1, <1>6, SurgeTypes
    <2>5. surgeLast'.side \in O!Sides /\ {surgeLast'.high, surgeLast'.low} \subseteq O!Prices
      <3>1. surgePos.side \in Sides /\ {seen.low, seen.high} \subseteq O!Prices
        BY SurgeTypes DEF SurgePositions, Quotes
      <3>2. CASE ex.exits
        BY <3>1, <3>2, <1>1, <1>7 DEF O!Sides, Sides
      <3>3. CASE ~ex.exits
        <4>1. surgeLast' = O!NoExitYet
          BY <3>3, <1>1
        <4> QED
          BY <4>1, NoExitYetFits DEF O!Sides, Sides
      <3> QED
        BY <3>2, <3>3
    <2> QED
      BY <1>1, <1>2, <2>3, <2>5 DEF SurgeInv, O!TypeOK, SurgePositions, O!Sides, Sides
  <1>9. O!ExitWasTouched'
    <2>1. CASE ex.exits
      <3>1. surgeLast'.exit = ex /\ surgeLast'.side = surgePos.side /\ surgeLast'.low = seen.low
            /\ surgeLast'.high = seen.high
        BY <2>1, <1>1, <1>7
      <3> QED
        BY <2>1, <3>1, <1>1, <1>2 DEF O!ExitWasTouched
    <2>2. CASE ~ex.exits
      <3>1. surgeLast' = O!NoExitYet
        BY <2>2, <1>1
      <3> QED
        BY <3>1, NoExitYetFits DEF O!ExitWasTouched
    <2> QED
      BY <2>1, <2>2
  <1> QED
    BY <1>1, <1>8, <1>9 DEF SurgeInv

LEMMA SurgeRestartKeeps ==
  ASSUME SurgeInv, O!Restart
  PROVE  SurgeInv'
  <1>1. /\ restarts < MaxRestarts /\ restarts' = restarts + 1 /\ noted' = 0 /\ task' = O!NoTask
        /\ surgeLast' = O!NoExitYet
        /\ price' = price /\ bar' = bar /\ surgeHeld' = surgeHeld /\ surgePos' = surgePos
        /\ entries' = entries /\ seen' = seen
    BY DEF O!Restart, O!marketVars, O!engineVars
  <1>2. surgeLast'.side \in O!Sides /\ {surgeLast'.high, surgeLast'.low} \subseteq O!Prices
    BY <1>1, NoExitYetFits DEF O!Sides, Sides
  <1>3. restarts' \in 0..MaxRestarts /\ restarts' # 0 /\ noted' \in 0..MaxBar
    BY <1>1, SurgeConstants, SurgeTypes
  <1>4. O!TypeOK'
    BY <1>1, <1>2, <1>3 DEF SurgeInv, O!TypeOK
  <1>5. O!ExitWasTouched'
    BY <1>1, NoExitYetFits DEF O!ExitWasTouched
  <1>6. entries' <= restarts' /\ noted' <= bar'.id
    BY <1>1, SurgeTypes DEF SurgeInv
  <1>7. entries' <= restarts' + (IF noted' = bar'.id /\ task' = O!NoTask THEN 1 ELSE 0)
    BY <1>1, <1>6, SurgeTypes
  <1> QED
    BY <1>1, <1>3, <1>4, <1>5, <1>6, <1>7 DEF SurgeInv

LEMMA SurgeIdles == SurgeInv /\ UNCHANGED surge => SurgeInv'
  BY DEF SurgeInv, surge, O!TypeOK, O!ExitWasTouched, Covers

LEMMA SurgeStepKeeps == SurgeInv /\ (O!Next \/ UNCHANGED surge) => SurgeInv'
  <1> SUFFICES ASSUME SurgeInv, O!Next \/ UNCHANGED surge PROVE SurgeInv'
    OBVIOUS
  <1>1. CASE \E p \in O!Prices : O!Move(p)
    BY <1>1, SurgeMoveKeeps
  <1>2. CASE O!NewBar
    BY <1>2, SurgeNewBarKeeps
  <1>3. CASE O!Fetch(O!NoSignal)
    <2>1. O!NoSignal \in O!Signals \cup {O!NoSignal}
      OBVIOUS
    <2> QED
      BY <1>3, <2>1, SurgeFetchKeeps
  <1>4. CASE \E side \in O!Sides, dist \in Dists : O!Fetch(O!SignalOf(side, price, dist))
    <2>1. PICK side \in O!Sides, dist \in Dists : O!Fetch(O!SignalOf(side, price, dist))
      BY <1>4
    <2> DEFINE sig == O!SignalOf(side, price, dist)
    <2>2. sig \in O!Signals \cup {O!NoSignal}
      BY SignalTypes
    <2>3. O!Fetch(sig)
      BY <2>1
    <2> HIDE DEF sig
    <2> QED
      BY <2>2, <2>3, SurgeFetchKeeps
  <1>5. CASE O!RunTick
    BY <1>5, SurgeTickKeeps
  <1>6. CASE O!IntrabarTick
    BY <1>6, SurgeIntrabarKeeps
  <1>7. CASE O!Restart
    BY <1>7, SurgeRestartKeeps
  <1>8. CASE UNCHANGED surge
    BY <1>8, SurgeIdles
  <1> QED
    BY <1>1, <1>2, <1>3, <1>4, <1>5, <1>6, <1>7, <1>8 DEF O!Next

-----------------------------------------------------------------------------
(* Numbers, and functions defined by recursion on them: what the loop over *)
(* the magnets of a bar needs.                                             *)

LEMMA LeastNatural ==
  ASSUME NEW T, T \subseteq Nat, T # {}
  PROVE  \E x \in T : \A y \in T : x <= y
  <1> DEFINE R == OpToRel(<, Nat)
  <1>1. \A x, y \in Nat : y < x => <<y, x>> \in R
    BY DEF OpToRel
  <1>2. IsWellFoundedOn(R, Nat)
    BY NatLessThanWellFounded
  <1> HIDE DEF R
  <1>3. PICK x \in T : \A y \in T : <<y, x>> \notin R
    BY <1>2, WFMin
  <1>4. \A y \in T : ~(y < x)
    BY <1>1, <1>3
  <1>5. \A y \in T : x <= y
    BY <1>4
  <1> QED
    BY <1>5

\* A set of numbers below a bound has a greatest element.
LEMMA GreatestNatural ==
  ASSUME NEW T, T \subseteq Nat, T # {}, NEW b \in Nat, \A x \in T : x <= b
  PROVE  \E x \in T : \A y \in T : y <= x
  <1> DEFINE U == {k \in Nat : \A x \in T : x <= k}
  <1>1. U \subseteq Nat /\ U # {}
    OBVIOUS
  <1> HIDE DEF U
  <1>2. PICK u \in U : \A v \in U : u <= v
    BY <1>1, LeastNatural
  <1>3. u \in Nat /\ \A x \in T : x <= u
    BY <1>2 DEF U
  <1>4. u \in T
    <2> SUFFICES ASSUME u \notin T PROVE FALSE
      OBVIOUS
    <2>1. \A x \in T : x <= u - 1
      BY <1>3
    <2>2. u - 1 \in Nat
      <3>1. PICK x \in T : x <= u - 1
        BY <2>1
      <3> QED
        BY <3>1, <1>3
    <2>3. u - 1 \in U
      BY <2>1, <2>2 DEF U
    <2> QED
      BY <2>3, <1>2, <1>3
  <1> QED
    BY <1>3, <1>4

\* The rounds of the loop over the targets, as many as are asked for.
Rounds(f, pos, best, map, K) ==
    f = [n \in 0..K |-> IF n = 0 THEN X!Kept(pos) ELSE X!Stepped(f[n - 1], best, map)]

LEMMA RoundsExist ==
  ASSUME NEW pos, NEW best, NEW map, NEW K \in Nat
  PROVE  \E f : Rounds(f, pos, best, map, K)
  <1> DEFINE T == {k \in Nat : ~(\E f : Rounds(f, pos, best, map, k))}
  <1> SUFFICES ASSUME T # {} PROVE FALSE
    OBVIOUS
  <1>1. T \subseteq Nat
    OBVIOUS
  <1> HIDE DEF T
  <1>2. PICK k \in T : \A j \in T : k <= j
    BY <1>1, LeastNatural
  <1>3. k \in Nat /\ ~(\E f : Rounds(f, pos, best, map, k))
    BY DEF T
  <1>4. CASE k = 0
    <2> DEFINE f == [n \in 0..0 |-> X!Kept(pos)]
    <2>1. Rounds(f, pos, best, map, 0)
      BY DEF Rounds
    <2> QED
      BY <2>1, <1>3, <1>4
  <1>5. CASE k # 0
    <2>1. k - 1 \in Nat /\ k - 1 \notin T
      BY <1>2, <1>3, <1>5
    <2>2. PICK g : Rounds(g, pos, best, map, k - 1)
      BY <2>1 DEF T
    <2> DEFINE f == [n \in 0..k |-> IF n = 0 THEN X!Kept(pos) ELSE X!Stepped(g[n - 1], best, map)]
    <2>3. \A n \in 0..(k - 1) : g[n] = IF n = 0 THEN X!Kept(pos) ELSE X!Stepped(g[n - 1], best, map)
      BY <2>2 DEF Rounds
    <2>4. \A n \in 0..k : n # 0 => n - 1 \in 0..k /\ f[n - 1] = g[n - 1]
      <3> SUFFICES ASSUME NEW n \in 0..k, n # 0 PROVE n - 1 \in 0..k /\ f[n - 1] = g[n - 1]
        OBVIOUS
      <3>1. n - 1 \in 0..(k - 1) /\ n - 1 \in 0..k
        BY <1>3
      <3> QED
        BY <3>1, <2>3
    <2>5. f = [n \in 0..k |-> IF n = 0 THEN X!Kept(pos) ELSE X!Stepped(f[n - 1], best, map)]
      BY <2>4
    <2> HIDE DEF f
    <2>6. Rounds(f, pos, best, map, k)
      BY <2>5 DEF Rounds
    <2> QED
      BY <2>6, <1>3
  <1> QED
    BY <1>4, <1>5

LEMMA AdvancedIsRounds ==
  ASSUME NEW pos, NEW best, NEW map, X!Cardinality(map) + 1 \in Nat
  PROVE  \E f : /\ Rounds(f, pos, best, map, X!Cardinality(map) + 1)
               /\ X!Advanced(pos, best, map) = f[X!Cardinality(map) + 1]
  <1> DEFINE K == X!Cardinality(map) + 1
             f  == CHOOSE g : Rounds(g, pos, best, map, K)
  <1>1. Rounds(f, pos, best, map, K)
    <2>1. \E g : Rounds(g, pos, best, map, K)
      BY RoundsExist
    <2> QED
      BY <2>1
  <1>2. X!Advanced(pos, best, map) = f[K]
    BY DEF X!Advanced, Rounds
  <1> QED
    BY <1>1, <1>2

-----------------------------------------------------------------------------
(* eth_cvd_explosion.                                                      *)

\* The row is the trade, of its types.
ExplosionInv == X!TypeOK /\ X!RowIsHeldTrade

LEMMA ExplosionConstants ==
    /\ ExMaxPrice \in Nat /\ ExMaxPrice > 0 /\ Rr \in Nat /\ Rr > 0
    /\ ExMaxSlip \in Nat /\ Risk \in Nat /\ Step \in Nat
    /\ \A map \in Maps : X!Cardinality(map) \in Nat /\ map \subseteq Nat /\ 0 \notin map
    /\ Contexts \subseteq [open : Nat, m15 : Nat] /\ 1 \in X!Prices /\ X!Prices \subseteq Nat
  <1>1. /\ {ExMaxPrice, Rr} \subseteq Nat \ {0} /\ {ExMaxSlip, Risk, Step} \subseteq Nat
        /\ \A map \in Maps : X!IsFiniteSet(map) /\ map \subseteq Nat \ {0}
        /\ Contexts \subseteq [open : Nat, m15 : Nat]
    BY EngineAssumption DEF X!ConstantsFit
  <1>2. \A map \in Maps : IsFiniteSet(map)
    BY <1>1 DEF X!IsFiniteSet, IsFiniteSet
  <1>3. \A map \in Maps : Cardinality(map) \in Nat
    BY <1>2, FS_CardinalityType
  <1>4. \A map \in Maps : X!Cardinality(map) = Cardinality(map)
    BY DEF X!Cardinality, Cardinality
  <1> QED
    BY <1>1, <1>3, <1>4 DEF X!Prices

\* The next magnet is one of the map further in profit, and there is none where it is 0.
LEMMA NextMagnetFits ==
  ASSUME NEW side \in Sides, NEW map, map \subseteq Nat, NEW ref \in Nat
  PROVE  LET nxt == X!NextMagnet(side, map, ref)
         IN  /\ nxt \in Nat
             /\ nxt # 0 => nxt \in map /\ X!Ahead(side, nxt, ref)
  <1> DEFINE ahead == {m \in map : X!Ahead(side, m, ref)}
             Best(m) == \A n \in ahead : X!Reaches(side, n, m)
  <1>1. CASE ahead = {}
    BY <1>1 DEF X!NextMagnet
  <1>2. CASE ahead # {}
    <2>1. ahead \subseteq Nat /\ \A m \in ahead : m \in map /\ X!Ahead(side, m, ref)
      OBVIOUS
    <2> HIDE DEF ahead
    <2>2. \E m \in ahead : Best(m)
      <3>1. CASE side = "long"
        <4>1. PICK m \in ahead : \A n \in ahead : m <= n
          BY <1>2, <2>1, LeastNatural
        <4>2. \A n \in ahead : n = m \/ n > m
          BY <4>1, <2>1
        <4> QED
          BY <3>1, <4>2 DEF X!Reaches, X!Ahead
      <3>2. CASE side = "short"
        <4>1. \A n \in ahead : n <= ref
          BY <2>1, <3>2 DEF X!Ahead
        <4>2. PICK m \in ahead : \A n \in ahead : n <= m
          BY <1>2, <2>1, <4>1, GreatestNatural
        <4>3. \A n \in ahead : n = m \/ n < m
          BY <4>2, <2>1
        <4> QED
          BY <3>2, <4>3 DEF X!Reaches, X!Ahead
      <3> QED
        BY <3>1, <3>2 DEF Sides
    <2>3. X!NextMagnet(side, map, ref) = CHOOSE m \in ahead : Best(m)
      BY <1>2 DEF X!NextMagnet, ahead
    <2> HIDE DEF Best
    <2>4. X!NextMagnet(side, map, ref) \in ahead
      BY <2>2, <2>3
    <2> QED
      BY <2>1, <2>4
  <1> QED
    BY <1>1, <1>2

LEMMA ReachesTransitive ==
  ASSUME NEW side \in Sides, NEW a \in Int, NEW b \in Int, NEW c \in Int,
         X!Reaches(side, a, b), X!Reaches(side, b, c)
  PROVE  X!Reaches(side, a, c)
  BY DEF X!Reaches, X!Ahead, Sides

\* A stop that is lifted is at least as good as it was, and a price.
LEMMA LiftedFits ==
  ASSUME NEW pos \in X!PositionType, NEW sl \in Int, pos.side = "short" => sl >= 0
  PROVE  X!Lifted(pos, sl) \in Nat /\ X!Reaches(pos.side, X!Lifted(pos, sl), pos.sl)
  BY DEF X!Lifted, X!Reaches, X!Ahead, X!PositionType, X!Sides

LEMMA GapDivides ==
  ASSUME NEW a \in Nat, NEW b \in Nat
  PROVE  X!Gap(a, b) \div Rr \in Nat
  <1>1. X!Gap(a, b) \in Nat
    BY DEF X!Gap
  <1> QED
    BY <1>1, ExplosionConstants

LEMMA NewStopFits ==
  ASSUME NEW pos \in X!PositionType, NEW nxt \in Nat
  PROVE  X!NewStop(pos, nxt) \in Int /\ (pos.side = "short" => X!NewStop(pos, nxt) >= 0)
  <1>1. pos.tp \in Nat /\ pos.entry \in Nat /\ pos.levels \in Seq(Nat) /\ pos.side \in Sides
    BY ExplosionConstants DEF X!PositionType, X!Sides, Sides
  <1>2. CASE mode = "magnet_tp_rr"
    <2> DEFINE g == X!Gap(nxt, pos.tp) \div Rr
    <2>1. g \in Nat
      BY <1>1, GapDivides
    <2>2. X!NewStop(pos, nxt) = X!Toward(pos.side, pos.tp, -g)
      BY <1>2 DEF X!NewStop
    <2> HIDE DEF g
    <2> QED
      BY <2>1, <2>2, <1>1 DEF X!Toward, Sides
  <1>3. CASE mode # "magnet_tp_rr"
    <2> DEFINE back == Len(pos.levels) - Step
    <2>1. X!NewStop(pos, nxt) = IF back < 1 THEN pos.entry ELSE pos.levels[back]
      BY <1>3 DEF X!NewStop
    <2>2. Len(pos.levels) \in Nat /\ back \in Int /\ back <= Len(pos.levels)
      BY <1>1, ExplosionConstants
    <2>3. back >= 1 => pos.levels[back] \in Nat
      BY <1>1, <2>2
    <2> HIDE DEF back
    <2>4. X!NewStop(pos, nxt) \in Nat
      BY <2>1, <2>2, <2>3, <1>1
    <2> QED
      BY <2>4
  <1> QED
    BY <1>2, <1>3

\* What may become of a trade: it is closed, or it went on, its levels at least as far
\* in profit as before, and longer by a level where they changed.
GoesOn(new, pos) ==
    /\ new \in X!PositionType /\ new.side = pos.side
    /\ X!Reaches(pos.side, new.sl, pos.sl) /\ X!Reaches(pos.side, new.tp, pos.tp)
    /\ new = pos \/ Len(new.levels) > Len(pos.levels)
OnTrack(res, pos) == res = X!Closed \/ (res.closed = FALSE /\ GoesOn(res.pos, pos))

LEMMA ClosedFits == X!Closed.closed = TRUE /\ X!Closed.pos = X!NoPosition /\ X!NoPosition \in X!PositionType
  <1>1. <<>> \in Seq(Nat)
    OBVIOUS
  <1> QED
    BY <1>1, ExplosionConstants DEF X!Closed, X!NoPosition, X!PositionType, X!Sides

LEMMA KeptFits ==
  ASSUME NEW pos \in X!PositionType
  PROVE  OnTrack(X!Kept(pos), pos) /\ X!Kept(pos).pos = pos /\ X!Kept(pos).closed = FALSE
  BY DEF OnTrack, GoesOn, X!Kept, X!Reaches

LEMMA SteppedFits ==
  ASSUME NEW pos \in X!PositionType, NEW res, OnTrack(res, pos), NEW best, NEW map \in Maps
  PROVE  OnTrack(X!Stepped(res, best, map), pos)
  <1> DEFINE cur == res.pos
             nxt == X!NextMagnet(cur.side, map, cur.tp)
             sl  == X!Lifted(cur, X!NewStop(cur, nxt))
             new == [cur EXCEPT !.sl = sl, !.tp = nxt, !.levels = Append(@, nxt)]
  <1>1. CASE res.closed \/ ~X!Reaches(cur.side, best, cur.tp)
    BY <1>1 DEF X!Stepped
  <1>2. CASE ~res.closed /\ X!Reaches(cur.side, best, cur.tp) /\ nxt = 0
    BY <1>2 DEF X!Stepped, OnTrack
  <1>3. CASE ~res.closed /\ X!Reaches(cur.side, best, cur.tp) /\ nxt # 0
    <2>1. GoesOn(cur, pos)
      BY <1>3, ClosedFits DEF OnTrack
    <2>2. /\ cur \in X!PositionType /\ cur.side = pos.side /\ cur.tp \in Nat /\ cur.side \in Sides
          /\ cur.sl \in Nat /\ cur.levels \in Seq(Nat)
      BY <2>1 DEF GoesOn, X!PositionType, X!Sides, Sides
    <2>3. nxt \in Nat /\ X!Ahead(cur.side, nxt, cur.tp)
      BY <1>3, <2>2, ExplosionConstants, NextMagnetFits
    <2>4. sl \in Nat /\ X!Reaches(cur.side, sl, cur.sl)
      BY <2>2, <2>3, NewStopFits, LiftedFits
    <2>5. X!Stepped(res, best, map) = X!Kept(new)
      BY <1>3 DEF X!Stepped
    <2> HIDE DEF sl, nxt, cur
    <2>6. Append(cur.levels, nxt) \in Seq(Nat) /\ Len(Append(cur.levels, nxt)) = Len(cur.levels) + 1
      BY <2>2, <2>3
    <2>7. /\ new \in X!PositionType /\ new.side = cur.side /\ new.sl = sl /\ new.tp = nxt
          /\ new.levels = Append(cur.levels, nxt)
      BY <2>2, <2>3, <2>4, <2>6 DEF X!PositionType
    <2> HIDE DEF new
    <2>8. pos.sl \in Nat /\ pos.tp \in Nat /\ pos.side \in Sides /\ Len(pos.levels) \in Nat
          /\ Len(cur.levels) \in Nat
      BY <2>2 DEF X!PositionType, X!Sides, Sides
    <2>9. X!Reaches(pos.side, new.sl, pos.sl)
      <3>1. X!Reaches(pos.side, new.sl, cur.sl) /\ X!Reaches(pos.side, cur.sl, pos.sl)
        BY <2>1, <2>2, <2>4, <2>7 DEF GoesOn
      <3> QED
        BY <3>1, <2>2, <2>4, <2>7, <2>8, ReachesTransitive
    <2>10. X!Reaches(pos.side, new.tp, pos.tp)
      <3>1. X!Reaches(pos.side, new.tp, cur.tp) /\ X!Reaches(pos.side, cur.tp, pos.tp)
        BY <2>1, <2>2, <2>3, <2>7 DEF GoesOn, X!Reaches
      <3> QED
        BY <3>1, <2>2, <2>3, <2>7, <2>8, ReachesTransitive
    <2>11. Len(new.levels) > Len(pos.levels)
      <3>1. Len(cur.levels) >= Len(pos.levels)
        BY <2>1, <2>8 DEF GoesOn
      <3> QED
        BY <3>1, <2>6, <2>7, <2>8
    <2>12. GoesOn(new, pos)
      BY <2>2, <2>7, <2>9, <2>10, <2>11 DEF GoesOn
    <2> QED
      BY <2>5, <2>12 DEF OnTrack, X!Kept
  <1> QED
    BY <1>1, <1>2, <1>3

\* The loop over the targets, however many rounds it takes.
LEMMA AdvancedFits ==
  ASSUME NEW pos \in X!PositionType, NEW best, NEW map \in Maps
  PROVE  OnTrack(X!Advanced(pos, best, map), pos)
  <1> DEFINE K == X!Cardinality(map) + 1
  <1>1. K \in Nat
    BY ExplosionConstants
  <1>2. PICK f : Rounds(f, pos, best, map, K) /\ X!Advanced(pos, best, map) = f[K]
    BY <1>1, AdvancedIsRounds
  <1> HIDE DEF K
  <1>3. \A n \in 0..K : f[n] = IF n = 0 THEN X!Kept(pos) ELSE X!Stepped(f[n - 1], best, map)
    BY <1>2 DEF Rounds
  <1> DEFINE T == {n \in 0..K : ~OnTrack(f[n], pos)}
  <1>4. T = {}
    <2> SUFFICES ASSUME T # {} PROVE FALSE
      OBVIOUS
    <2>1. T \subseteq Nat
      OBVIOUS
    <2> HIDE DEF T
    <2>2. PICK n \in T : \A m \in T : n <= m
      BY <2>1, LeastNatural
    <2>3. n \in 0..K /\ ~OnTrack(f[n], pos)
      BY DEF T
    <2>4. CASE n = 0
      BY <2>3, <2>4, <1>3, KeptFits
    <2>5. CASE n # 0
      <3>1. n - 1 \in 0..K /\ n - 1 \notin T
        BY <2>2, <2>3, <2>5, <1>1
      <3>2. OnTrack(f[n - 1], pos)
        BY <3>1 DEF T
      <3>3. f[n] = X!Stepped(f[n - 1], best, map)
        BY <2>3, <2>5, <1>3
      <3> QED
        BY <3>2, <3>3, <2>3, SteppedFits
    <2> QED
      BY <2>4, <2>5
  <1>5. K \in 0..K
    BY <1>1
  <1> QED
    BY <1>2, <1>4, <1>5

LEMMA ExBarExitFits ==
  ASSUME NEW pos \in X!PositionType, NEW bar_, NEW map \in Maps, NEW m15
  PROVE  OnTrack(X!BarExit(pos, bar_, map, m15), pos)
  <1>1. OnTrack(X!Closed, pos) /\ OnTrack(X!Kept(pos), pos)
    BY KeptFits DEF OnTrack
  <1>2. OnTrack(X!SimpleExit(pos, bar_), pos)
    BY <1>1 DEF X!SimpleExit
  <1>3. OnTrack(X!MagnetExit(pos, bar_, map), pos)
    <2> DEFINE adv == X!Advanced(pos, X!BestOf(pos.side, bar_), map)
    <2>1. OnTrack(adv, pos)
      BY AdvancedFits
    <2> HIDE DEF adv
    <2> QED
      BY <1>1, <2>1 DEF X!MagnetExit, adv
  <1> QED
    BY <1>1, <1>2, <1>3 DEF X!BarExit

\* Between bars a trade is closed or left as it is.
LEMMA ExPriceExitFits ==
  ASSUME NEW pos \in X!PositionType, NEW p
  PROVE  X!PriceExit(pos, p) = X!Closed \/ X!PriceExit(pos, p) = X!Kept(pos)
  BY DEF X!PriceExit, X!SimpleExit

\* The levels of a signal are numbers; an entry takes them only where both are above 0.
LEMMA LevelTypes ==
  ASSUME NEW side \in Sides, NEW close \in X!Prices, NEW map \in Maps, NEW open \in Nat
  PROVE  LET lv == X!Tightened(side, close, open, X!Resolved(side, close, map))
         IN  lv.tp \in Int /\ lv.sl \in Int
  <1> DEFINE tp == X!NextMagnet(side, map, close)
             sl == X!NextMagnet(X!Other(side), map, close)
             res == X!Resolved(side, close, map)
  <1>1. close \in Nat /\ map \subseteq Nat /\ X!Other(side) \in Sides
    BY ExplosionConstants DEF X!Other, Sides
  <1>2. tp \in Nat /\ sl \in Nat
    BY <1>1, NextMagnetFits
  <1>3. X!Gap(tp, close) \div Rr \in Nat
    BY <1>1, <1>2, GapDivides
  <1>4. \A d \in Int : X!Toward(side, close, d) \in Int
    BY <1>1 DEF X!Toward
  <1>5. Risk * Rr \in Int /\ -Risk \in Int
    <2>1. Risk \in Int /\ Rr \in Int
      BY ExplosionConstants
    <2> QED
      BY <2>1
  <1> HIDE DEF tp, sl
  <1>6. res.tp \in Int /\ res.sl \in Int /\ res = [tp |-> res.tp, sl |-> res.sl]
    <2> DEFINE floor  == X!Toward(side, close, -Risk)
               capped == IF X!Ahead(side, sl, floor) THEN sl ELSE floor
    <2>1. floor \in Int /\ capped \in Int
      BY <1>4, <1>5, <1>2
    <2>2. \/ res = X!NoLevels
          \/ res = [tp |-> X!Toward(side, close, Risk * Rr), sl |-> X!Toward(side, close, -Risk)]
          \/ res = [tp |-> tp, sl |-> X!Toward(side, close, -(X!Gap(tp, close) \div Rr))]
          \/ res = [tp |-> tp, sl |-> capped]
      BY DEF X!Resolved, tp, sl
    <2> HIDE DEF res, capped, floor
    <2>3. -(X!Gap(tp, close) \div Rr) \in Int
      BY <1>3
    <2> QED
      BY <2>1, <2>2, <2>3, <1>2, <1>4, <1>5 DEF X!NoLevels
  <1> HIDE DEF res
  <1> QED
    BY <1>6 DEF X!Tightened, res

LEMMA ExplosionInitKeeps == X!Init => ExplosionInv
  <1> SUFFICES ASSUME X!Init PROVE ExplosionInv
    OBVIOUS
  <1>1. /\ mode \in Modes /\ exHeld = FALSE /\ exPos = X!NoPosition
        /\ exRow = [open |-> FALSE, pos |-> X!NoPosition] /\ entered = FALSE
    BY DEF X!Init
  <1>2. exRow.open = FALSE /\ exRow.pos = X!NoPosition
    BY <1>1
  <1>3. X!TypeOK
    BY <1>1, ClosedFits DEF X!TypeOK
  <1> QED
    BY <1>1, <1>2, <1>3 DEF ExplosionInv, X!RowIsHeldTrade

LEMMA ExplosionBarTickKeeps ==
  ASSUME ExplosionInv, NEW bar_ \in X!Bars, NEW map \in Maps, NEW ctx \in Contexts,
         NEW side \in X!Sides \cup {"none"}, X!BarTick(bar_, map, side, ctx)
  PROVE  /\ ExplosionInv'
         /\ exHeld /\ exHeld' /\ ~entered' => GoesOn(exPos', exPos)
  <1> DEFINE res    == IF exHeld THEN X!BarExit(exPos, bar_, map, ctx.m15) ELSE X!Closed
             lv     == X!Tightened(side, bar_.close, ctx.open, X!Resolved(side, bar_.close, map))
             enters == res.closed /\ side # "none" /\ lv.tp > 0 /\ lv.sl > 0
             new    == [side |-> side, entry |-> bar_.price, sl |-> lv.sl, tp |-> lv.tp,
                        levels |-> <<lv.tp>>]
             none   == [open |-> FALSE, pos |-> X!NoPosition]
  <1>1. /\ exHeld' = (enters \/ ~res.closed)
        /\ exPos' = IF enters THEN new ELSE res.pos
        /\ exRow' = IF enters THEN [open |-> TRUE, pos |-> new]
                    ELSE IF res.closed THEN none
                    ELSE IF Len(res.pos.levels) > Len(exPos.levels) THEN [exRow EXCEPT !.pos = res.pos]
                    ELSE exRow
        /\ entered' = enters /\ mode' = mode
    BY DEF X!BarTick, X!RowUpdated
  <1>2. /\ mode \in Modes /\ exHeld \in BOOLEAN /\ exPos \in X!PositionType
        /\ exRow \in [open : BOOLEAN, pos : X!PositionType] /\ exRow.open = exHeld /\ exRow.pos = exPos
    BY DEF ExplosionInv, X!TypeOK, X!RowIsHeldTrade
  <1>3. /\ OnTrack(res, exPos)
        /\ ~exHeld => res = X!Closed
    BY <1>2, ExBarExitFits DEF OnTrack
  <1>4. enters => new \in X!PositionType
    <2> SUFFICES ASSUME side # "none", lv.tp > 0, lv.sl > 0 PROVE new \in X!PositionType
      OBVIOUS
    <2>1. side \in Sides /\ bar_.close \in X!Prices /\ bar_.price \in X!Prices /\ ctx.open \in Nat
      BY ExplosionConstants DEF X!Sides, Sides, X!Bars
    <2>2. lv.tp \in Int /\ lv.sl \in Int
      BY <2>1, LevelTypes
    <2> HIDE DEF lv
    <2>3. <<lv.tp>> \in Seq(Nat) /\ lv.tp \in Nat /\ lv.sl \in Nat
      BY <2>2
    <2> QED
      BY <2>1, <2>3 DEF X!PositionType, X!Sides, Sides
  <1> HIDE DEF res, new, lv
  <1>5. CASE enters
    <2>1. /\ exHeld' = TRUE /\ exPos' = new /\ exRow' = [open |-> TRUE, pos |-> new] /\ entered' = TRUE
      BY <1>5, <1>1
    <2>2. exRow'.open = TRUE /\ exRow'.pos = new /\ exRow' \in [open : BOOLEAN, pos : X!PositionType]
      BY <2>1, <1>4, <1>5
    <2>3. X!TypeOK'
      BY <2>1, <2>2, <1>1, <1>2, <1>4, <1>5 DEF X!TypeOK
    <2> QED
      BY <2>1, <2>2, <2>3 DEF ExplosionInv, X!RowIsHeldTrade
  <1>6. CASE ~enters /\ res = X!Closed
    <2>1. /\ exHeld' = FALSE /\ exPos' = X!NoPosition /\ exRow' = none /\ entered' = FALSE
      BY <1>6, <1>1, ClosedFits
    <2>2. exRow'.open = FALSE /\ exRow'.pos = X!NoPosition /\ exRow' \in [open : BOOLEAN, pos : X!PositionType]
      BY <2>1, ClosedFits
    <2>3. X!TypeOK'
      BY <2>1, <2>2, <1>1, <1>2, ClosedFits DEF X!TypeOK
    <2> QED
      BY <2>1, <2>2, <2>3 DEF ExplosionInv, X!RowIsHeldTrade
  <1>7. CASE ~enters /\ res # X!Closed
    <2>1. res.closed = FALSE /\ GoesOn(res.pos, exPos) /\ exHeld = TRUE
      BY <1>7, <1>3, <1>2 DEF OnTrack
    <2>2. exHeld' = TRUE /\ exPos' = res.pos /\ entered' = FALSE
      BY <1>7, <2>1, <1>1
    <2>3. exRow'.open = TRUE /\ exRow'.pos = res.pos /\ exRow' \in [open : BOOLEAN, pos : X!PositionType]
      <3>1. CASE Len(res.pos.levels) > Len(exPos.levels)
        <4>1. exRow' = [exRow EXCEPT !.pos = res.pos]
          BY <3>1, <2>1, <1>7, <1>1
        <4> QED
          BY <4>1, <2>1, <1>2 DEF GoesOn
      <3>2. CASE ~(Len(res.pos.levels) > Len(exPos.levels))
        <4>1. exRow' = exRow
          BY <3>2, <2>1, <1>7, <1>1
        <4>2. res.pos = exPos
          BY <3>2, <2>1 DEF GoesOn
        <4> QED
          BY <4>1, <4>2, <2>1, <1>2
      <3> QED
        BY <3>1, <3>2
    <2>4. X!TypeOK'
      BY <2>1, <2>2, <2>3, <1>1, <1>2 DEF X!TypeOK, GoesOn
    <2> QED
      BY <2>1, <2>2, <2>3, <2>4 DEF ExplosionInv, X!RowIsHeldTrade
  <1> QED
    BY <1>5, <1>6, <1>7

LEMMA ExplosionIntrabarKeeps ==
  ASSUME ExplosionInv, NEW p, X!IntrabarTick(p)
  PROVE  /\ ExplosionInv'
         /\ exHeld /\ exHeld' /\ ~entered' => GoesOn(exPos', exPos)
  <1> DEFINE res  == X!PriceExit(exPos, p)
             none == [open |-> FALSE, pos |-> X!NoPosition]
  <1>1. /\ exHeld /\ exHeld' = ~res.closed /\ exPos' = res.pos
        /\ exRow' = IF res.closed THEN none ELSE exRow
        /\ entered' = FALSE /\ mode' = mode
    BY DEF X!IntrabarTick
  <1>2. /\ mode \in Modes /\ exHeld \in BOOLEAN /\ exPos \in X!PositionType
        /\ exRow \in [open : BOOLEAN, pos : X!PositionType] /\ exRow.open = exHeld /\ exRow.pos = exPos
    BY DEF ExplosionInv, X!TypeOK, X!RowIsHeldTrade
  <1>3. res = X!Closed \/ res = X!Kept(exPos)
    BY <1>2, ExPriceExitFits
  <1> HIDE DEF res
  <1>4. CASE res = X!Closed
    <2>1. /\ exHeld' = FALSE /\ exPos' = X!NoPosition /\ exRow' = none
      BY <1>4, <1>1, ClosedFits
    <2>2. exRow'.open = FALSE /\ exRow'.pos = X!NoPosition /\ exRow' \in [open : BOOLEAN, pos : X!PositionType]
      BY <2>1, ClosedFits
    <2>3. X!TypeOK'
      BY <2>1, <2>2, <1>1, <1>2, ClosedFits DEF X!TypeOK
    <2> QED
      BY <2>1, <2>2, <2>3 DEF ExplosionInv, X!RowIsHeldTrade
  <1>5. CASE res = X!Kept(exPos)
    <2>1. /\ exHeld' = TRUE /\ exPos' = exPos /\ exRow' = exRow /\ exHeld = TRUE
      BY <1>5, <1>1, <1>2, KeptFits
    <2>2. X!TypeOK'
      BY <2>1, <1>1, <1>2 DEF X!TypeOK
    <2>3. GoesOn(exPos', exPos)
      BY <2>1, <1>2 DEF GoesOn, X!Reaches
    <2> QED
      BY <2>1, <2>2, <2>3, <1>2 DEF ExplosionInv, X!RowIsHeldTrade
  <1> QED
    BY <1>3, <1>4, <1>5

LEMMA ExplosionRestartKeeps ==
  ASSUME ExplosionInv, X!Restart
  PROVE  /\ ExplosionInv'
         /\ exHeld /\ exHeld' /\ ~entered' => GoesOn(exPos', exPos)
  <1>1. /\ exHeld' = exRow.open /\ exPos' = exRow.pos /\ entered' = FALSE
        /\ mode' = mode /\ exRow' = exRow
    BY DEF X!Restart
  <1>2. /\ mode \in Modes /\ exHeld \in BOOLEAN /\ exPos \in X!PositionType
        /\ exRow \in [open : BOOLEAN, pos : X!PositionType] /\ exRow.open = exHeld /\ exRow.pos = exPos
    BY DEF ExplosionInv, X!TypeOK, X!RowIsHeldTrade
  <1>3. exHeld' = exHeld /\ exPos' = exPos
    BY <1>1, <1>2
  <1>4. X!TypeOK' /\ X!RowIsHeldTrade'
    BY <1>1, <1>2, <1>3 DEF X!TypeOK, X!RowIsHeldTrade
  <1>5. GoesOn(exPos', exPos)
    BY <1>3, <1>2 DEF GoesOn, X!Reaches
  <1> QED
    BY <1>4, <1>5 DEF ExplosionInv

LEMMA ExplosionStepKeeps ==
  ExplosionInv /\ (X!Next \/ UNCHANGED explosion) =>
    /\ ExplosionInv'
    /\ exHeld /\ exHeld' /\ ~entered' => GoesOn(exPos', exPos)
  <1> SUFFICES ASSUME ExplosionInv, X!Next \/ UNCHANGED explosion
               PROVE  /\ ExplosionInv'
                      /\ exHeld /\ exHeld' /\ ~entered' => GoesOn(exPos', exPos)
    OBVIOUS
  <1>1. CASE \E bar_ \in X!Bars, map \in Maps, ctx \in Contexts :
               \E side \in X!Sides \cup {"none"} : X!BarTick(bar_, map, side, ctx)
    BY <1>1, ExplosionBarTickKeeps
  <1>2. CASE \E p \in X!Prices : X!IntrabarTick(p)
    BY <1>2, ExplosionIntrabarKeeps
  <1>3. CASE X!Restart
    BY <1>3, ExplosionRestartKeeps
  <1>4. CASE UNCHANGED explosion
    BY <1>4 DEF explosion, ExplosionInv, X!TypeOK, X!RowIsHeldTrade, GoesOn, X!Reaches
  <1> QED
    BY <1>1, <1>2, <1>3, <1>4 DEF X!Next

-----------------------------------------------------------------------------
(* The three engines together.                                             *)

BarsInv == SpotInv /\ SurgeInv /\ ExplosionInv

LEMMA BarsInit == MCInit => BarsInv
  BY SpotInitKeeps, SurgeInitKeeps, ExplosionInitKeeps DEF MCInit, BarsInv

LEMMA BarsStep == BarsInv /\ [MCNext]_mcVars =>
    /\ BarsInv'
    /\ [SpotNext]_spotVars /\ (X!Next \/ UNCHANGED explosion)
  <1> SUFFICES ASSUME BarsInv, [MCNext]_mcVars
               PROVE  BarsInv' /\ [SpotNext]_spotVars /\ (X!Next \/ UNCHANGED explosion)
    OBVIOUS
  <1>1. [SpotNext]_spotVars /\ (O!Next \/ UNCHANGED surge) /\ (X!Next \/ UNCHANGED explosion)
    BY DEF MCNext, mcVars
  <1> QED
    BY <1>1, SpotStepKeeps, SurgeStepKeeps, ExplosionStepKeeps DEF BarsInv

LEMMA BarsHold == MCSpec => []BarsInv
  BY BarsInit, BarsStep, PTL DEF MCSpec

\* The state of each engine, at every moment of every behaviour, is of its types.
THEOREM BarsTypes == MCSpec => []TypesOK
  <1>1. BarsInv => TypesOK
    BY DEF BarsInv, SpotInv, SurgeInv, ExplosionInv, TypesOK
  <1> QED
    BY <1>1, BarsHold, PTL

\* The row is the held trade, or for spot_perp_cvd the same bet with its first stop at
\* worst, so a restart goes on with it; oi_cvd_surge closes no trade by a high or a low
\* from before its entry.
THEOREM BarsRecorded == MCSpec => []TradesAsRecorded
  <1>1. BarsInv => TradesAsRecorded
    BY DEF BarsInv, SpotInv, SurgeInv, ExplosionInv, TradesAsRecorded
  <1> QED
    BY <1>1, BarsHold, PTL

\* After a stop loss spot_perp_cvd enters a side only once its CVD was seen neutral, and
\* one process of oi_cvd_surge enters once in a bar. (The parts "signal" and "scores" ask
\* about the recursive rules of two signals on given bars; TLC evaluates them.)
THEOREM BarsEntries == MCSpec => [](part \notin {"signal", "scores"} => EntriesJustified)
  <1>1. BarsInv => ReentryWaitsForNeutral /\ O!OneEntryPerBar
    BY SurgeTypes DEF BarsInv, SpotInv, SurgeInv, O!OneEntryPerBar
  <1>2. BarsInv => (part \notin {"signal", "scores"} => EntriesJustified)
    BY <1>1 DEF EntriesJustified
  <1> QED
    BY <1>2, BarsHold, PTL

\* The step property of eth_cvd_explosion.
LevelsHold ==
    exHeld /\ exHeld' /\ ~entered' =>
        /\ X!Reaches(exPos.side, exPos'.sl, exPos.sl)
        /\ X!Reaches(exPos.side, exPos'.tp, exPos.tp)

\* As long as a trade is held its stop moves only toward profit; of eth_cvd_explosion this
\* holds through restarts too, and its target moves only away from the entry.
THEOREM BarsLevels == MCSpec => LevelsOnlyAdvance
  <1>1. BarsInv /\ [MCNext]_mcVars => [StopHolds]_spotVars
    BY BarsStep, SpotStopHolds DEF BarsInv
  <1>2. BarsInv /\ [MCNext]_mcVars => [LevelsHold]_(X!vars)
    BY BarsStep, ExplosionStepKeeps DEF BarsInv, LevelsHold, GoesOn
  <1>3. MCSpec => [][StopHolds]_spotVars /\ [][LevelsHold]_(X!vars)
    BY <1>1, <1>2, BarsHold, PTL DEF MCSpec
  <1>4. StopNeverLoosens <=> [][StopHolds]_spotVars
    BY PTL DEF StopNeverLoosens, StopHolds
  <1>5. X!LevelsOnlyAdvance <=> [][LevelsHold]_(X!vars)
    BY PTL DEF X!LevelsOnlyAdvance, LevelsHold
  <1> QED
    BY <1>3, <1>4, <1>5, PTL DEF LevelsOnlyAdvance
=============================================================================
