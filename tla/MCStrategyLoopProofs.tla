------------------------ MODULE MCStrategyLoopProofs ------------------------
(***************************************************************************)
(* The properties of the run of MCStrategyLoop: its "faulty" part for      *)
(* every value of the constants, its "live" part for its own. What         *)
(* StrategyLoopProofs shows of a step holds of the steps of both.          *)
(***************************************************************************)
EXTENDS MCStrategyLoop, StrategyLoopProofs

LP == INSTANCE StrategyLoopProofs WITH
  MaxBar <- 3, MaxRestarts <- 0, Failures <- FALSE, Outages <- FALSE, LateAnswers <- TRUE,
  Viewers <- {}

\* Each part keeps its own invariant.
PartsInv ==
    /\ part \in {"live", "faulty"}
    /\ part = "live" => LP!UInv
    /\ part = "faulty" => BInv

\* Under one more assumption, the first part keeps a stronger one.
FaultyInv ==
    /\ part \in {"live", "faulty"}
    /\ part = "faulty" => TInv

-----------------------------------------------------------------------------
(* Live and LP are the same instance of StrategyLoop, under two names      *)

LEMMA SameInit == Live!Init => LP!Init
  BY DEF Live!Init, LP!Init, Live!Callers, LP!Callers, Live!Idle, LP!Idle, Live!Bars, LP!Bars

LEMMA SameStep == Live!Next => LP!Next
  <1>1. Live!Bars = LP!Bars /\ Live!Times = LP!Times /\ Live!Callers = LP!Callers
    BY DEF Live!Bars, LP!Bars, Live!Times, LP!Times, Live!Callers, LP!Callers
  <1>2. \A t : Live!Bar(t) = LP!Bar(t) /\ (Live!InWindow(t) <=> LP!InWindow(t))
    BY DEF Live!Bar, LP!Bar, Live!InWindow, LP!InWindow
  <1>3. /\ Live!Yielded <=> LP!Yielded
        /\ Live!AtTop <=> LP!AtTop
        /\ Live!Serves <=> LP!Serves
        /\ Live!Sleep <=> LP!Sleep
        /\ \A label : Live!GoTo(label) <=> LP!GoTo(label)
        /\ Live!Idle = LP!Idle
    BY <1>2 DEF Live!Yielded, LP!Yielded, Live!AtTop, LP!AtTop, Live!Serves, LP!Serves,
       Live!Sleep, LP!Sleep, Live!GoTo, LP!GoTo, Live!NextTrigger, LP!NextTrigger, Live!Idle,
       LP!Idle
  <1>4. \A c : /\ Live!Ask(c) <=> LP!Ask(c)
               /\ Live!Apply(c) <=> LP!Apply(c)
               /\ Live!Miss(c) <=> LP!Miss(c)
    BY <1>2, <1>3 DEF Live!Ask, LP!Ask, Live!Apply, LP!Apply, Live!Miss, LP!Miss
  <1>5. Live!Advance => LP!Advance
    BY <1>1, <1>2, <1>3 DEF Live!Advance, LP!Advance, Live!feedVars, LP!feedVars, Live!engineVars,
       LP!engineVars, Live!loopVars, LP!loopVars
  <1>6. Live!Market => LP!Market
    BY <1>3 DEF Live!Market, LP!Market, Live!feedVars, LP!feedVars, Live!loopVars, LP!loopVars,
       Live!tickHist, LP!tickHist, Live!watchHist, LP!watchHist
  <1>7. (\E c \in Live!Callers : Live!Answer(c)) => (\E c \in LP!Callers : LP!Answer(c))
    BY <1>1, <1>2, <1>3 DEF Live!Answer, LP!Answer, Live!engineVars, LP!engineVars, Live!loopVars,
       LP!loopVars, Live!tickHist, LP!tickHist, Live!watchHist, LP!watchHist
  <1>8. (\E t \in tasks : Live!RunTick(t)) => (\E t \in tasks : LP!RunTick(t))
    BY <1>3 DEF Live!RunTick, LP!RunTick, Live!loopVars, LP!loopVars, Live!tickHist, LP!tickHist
  <1>9. Live!TopHeld => LP!TopHeld
    BY <1>2, <1>3, <1>4 DEF Live!TopHeld, LP!TopHeld, Live!engineVars, LP!engineVars,
       Live!tickHist, LP!tickHist, Live!watchHist, LP!watchHist
  <1>10. Live!TopFlat => LP!TopFlat
    BY <1>3, <1>4 DEF Live!TopFlat, LP!TopFlat, Live!engineVars, LP!engineVars, Live!tickHist,
       LP!tickHist, Live!watchHist, LP!watchHist
  <1>11. Live!LoopDone => LP!LoopDone
    BY <1>3, <1>4 DEF Live!LoopDone, LP!LoopDone, Live!engineVars, LP!engineVars, Live!watchHist,
       LP!watchHist
  <1>12. Live!LoopRaise => LP!LoopRaise
    BY <1>3, <1>4 DEF Live!LoopRaise, LP!LoopRaise, Live!engineVars, LP!engineVars,
       Live!watchHist, LP!watchHist
  <1>13. Live!CheckPrice => LP!CheckPrice
    BY <1>3 DEF Live!CheckPrice, LP!CheckPrice, Live!feedVars, LP!feedVars, Live!tickHist,
       LP!tickHist
  <1>14. ~Live!NoPrice
    BY DEF Live!NoPrice
  <1>15. Live!Executed => LP!Executed
    BY <1>3 DEF Live!Executed, LP!Executed, Live!feedVars, LP!feedVars, Live!engineVars,
       LP!engineVars, Live!tickHist, LP!tickHist, Live!watchHist, LP!watchHist
  <1>16. Live!Restart => LP!Restart
    BY <1>1, <1>2, <1>3 DEF Live!Restart, LP!Restart, Live!engineVars, LP!engineVars,
       Live!watchHist, LP!watchHist
  <1> QED
    BY <1>5, <1>6, <1>7, <1>8, <1>9, <1>10, <1>11, <1>12, <1>13, <1>14, <1>15, <1>16 DEF Live!Next, LP!Next

LEMMA LiveInit == Live!Init => LP!UInv
  BY SameInit, LP!InitKeeps, LP!WatchInit DEF LP!UInv

LEMMA LiveStep == LP!UInv /\ (Live!Next \/ UNCHANGED vars) => LP!UInv'
  <1>1. (Live!Next \/ UNCHANGED vars) => [LP!Next]_(LP!vars)
    BY SameStep DEF vars, LP!vars, feedVars, engineVars, loopVars, tickHist, watchHist,
       LP!feedVars, LP!engineVars, LP!loopVars,
       LP!tickHist, LP!watchHist
  <1> QED
    BY <1>1, LP!BarsStep, LP!WatchKeeps DEF LP!UInv

-----------------------------------------------------------------------------
LEMMA PartsInit == MCInit => PartsInv
  BY LiveInit, InitKeeps DEF MCInit, PartsInv

LEMMA PartsStep == PartsInv /\ [MCNext]_mcVars => PartsInv'
  <1> SUFFICES ASSUME PartsInv, [MCNext]_mcVars PROVE PartsInv'
    OBVIOUS
  <1>1. /\ part' = part
        /\ part = "live" => Live!Next \/ UNCHANGED vars
        /\ part = "faulty" => Next \/ UNCHANGED vars
    BY DEF MCNext, mcVars
  <1>2. CASE part = "live"
    BY <1>1, <1>2, LiveStep DEF PartsInv
  <1>3. CASE part = "faulty"
    BY <1>1, <1>3, BarsStep DEF PartsInv
  <1> QED
    BY <1>2, <1>3 DEF PartsInv

\* The types of both parts.
THEOREM PartsTypeCorrect == MCSpec => []TypesOK
  <1>1. PartsInv => TypesOK
    BY DEF PartsInv, TypesOK, BInv, LP!UInv, LP!BInv, Live!TypeOK, LP!TypeOK, Live!Times,
       LP!Times, Live!Bars, LP!Bars, Live!Callers, LP!Callers, Live!CallType, LP!CallType,
       Live!TaskType, LP!TaskType
  <1> QED
    BY PartsInit, PartsStep, <1>1, PTL DEF MCSpec

\* In both parts a bar without a tick was missed for a known cause, and in the part in
\* which nothing fails no position goes unchecked for two bodies in a row.
THEOREM BarsAccountedForAlways == MCSpec => []BarsAccountedFor
  <1>1. BInv => LostBarHasCause
    BY AllHaveCause
  <1>2. LP!UInv => Live!LostBarHasCause /\ UnwatchedAtMostOnce
    <2>1. LP!UInv => LP!LostBarHasCause
      BY LP!AllHaveCause DEF LP!UInv
    <2> QED
      BY <2>1 DEF LP!UInv, UnwatchedAtMostOnce, LP!UnwatchedAtMostOnce, Live!LostBarHasCause,
         LP!LostBarHasCause, Live!Unticked, LP!Unticked, Live!Bars, LP!Bars, Live!Bar, LP!Bar
  <1>3. PartsInv => BarsAccountedFor
    BY <1>1, <1>2 DEF PartsInv, BarsAccountedFor
  <1> QED
    BY PartsInit, PartsStep, <1>3, PTL DEF MCSpec

\* With the constants of the first part, in which no request outlives its bar, a process
\* fires one tick for a bar at most, in its window.
THEOREM OnceUnlessLate == ~LateAnswers => (MCSpec => []OnceInWindowUnlessLate)
  <1> SUFFICES ASSUME ~LateAnswers PROVE MCSpec => []OnceInWindowUnlessLate
    OBVIOUS
  <1>1. MCInit => FaultyInv
    BY InitKeeps, TicksInit DEF MCInit, FaultyInv, TInv
  <1>2. FaultyInv /\ [MCNext]_mcVars => FaultyInv'
    <2>1. TInv /\ [Next]_vars => TInv'
      BY BarsStep, TicksKeep DEF TInv
    <2> QED
      BY <2>1 DEF FaultyInv, MCNext, mcVars
  <1>3. FaultyInv => OnceInWindowUnlessLate
    BY OncePerBar DEF FaultyInv, OnceInWindowUnlessLate
  <1> QED
    BY <1>1, <1>2, <1>3, PTL DEF MCSpec

=============================================================================
