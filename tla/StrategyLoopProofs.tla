------------------------- MODULE StrategyLoopProofs -------------------------
(***************************************************************************)
(* Proofs about StrategyLoop, for any number of bars, restarts and         *)
(* dashboards, whatever fails and however late answers come: a bar without *)
(* a tick has a known cause; and, as long as no request outlives its bar,  *)
(* a process ticks a bar once, in its window; and, as long as requests and *)
(* prices come, no position goes unchecked for two bodies in a row.        *)
(***************************************************************************)
EXTENDS StrategyLoop, TLAPS

\* A bar that was ticked, or missed for one of the causes the actions note.
Accounted(b) == fired[b] > 0 \/ b \in lost \cup spent

\* A request in flight is at most one phase old, knows whether it began in a window,
\* and brings a bar between the one it began in and the one of now.
Fits(k) ==
    /\ k.at # "idle" /\ k.since \in Times /\ k.since <= now /\ now <= k.since + 1
    /\ k.inWin <=> InWindow(k.since)
    /\ k.at = "answered" => k.bar \in Bars /\ Bar(k.since) <= k.bar /\ k.bar <= Bar(now)
    /\ ~LateAnswers => Bar(k.since) = Bar(now)
CallsFit == \A c \in Callers : call[c] = Idle \/ Fits(call[c])

\* The loop waits for its own request, and for no other.
LoopWaits == call[loop] = Idle <=> pc \notin {"flat_fn", "held_fn"}

\* The bar that is noted is accounted for, and is no bar of the future; nor is a ticked one.
NotedHasCause == lastBar <= Bar(now) /\ (lastBar # 0 => Accounted(lastBar))
NoneAhead == \A b \in Bars : b > Bar(now) => fired[b] = 0

\* What a loop that is not to wake in this phase leaves behind.
SleepsToWindow ==
    pc = "sleep" => \/ wake <= now
                    \/ InWindow(now) /\ wake = now + 2 /\ Accounted(Bar(now))
                    \/ ~InWindow(now) /\ wake = now + 1

\* A loop that was at its top in this window, and does not wait, has seen to the bar.
ActedInTime ==
    /\ acted <= now /\ looked <= now
    /\ (InWindow(now) /\ acted = now /\ pc \notin {"flat_fn", "held_fn"}) => Accounted(Bar(now))

\* A bar that is over is accounted for, or the loop's request for it is in flight.
OverHasCause ==
    \A b \in Bars : b < Bar(now) =>
        Accounted(b) \/ (call[loop].inWin /\ Bar(call[loop].since) = b)

BInv ==
    /\ TypeOK /\ CallsFit /\ LoopWaits /\ NotedHasCause /\ NoneAhead
    /\ SleepsToWindow /\ ActedInTime /\ OverHasCause

\* One tick for each process that noted the bar.
TicksCounted ==
    \A b \in Bars : fired[b] <= restarts + (IF b = lastBar \/ b < Bar(now) THEN 1 ELSE 0)
TInv == BInv /\ TicksCounted /\ TickInOwnWindow

\* A position that went unchecked for a body is still held, and the loop is about to
\* look: it does not sleep, or wakes in this window, and asks for nothing in a body.
Exposed == (exposed => held) /\ (unwatched > 0 => held /\ exposed)
LookIsWatch == looked = now => watched
AboutToLook ==
    unwatched > 0 => /\ pc = "sleep" => InWindow(now) /\ wake = now
                     /\ ~InWindow(now) => call[loop] = Idle \/ call[loop].since # now
UInv == BInv /\ Exposed /\ LookIsWatch /\ AboutToLook /\ UnwatchedAtMostOnce

-----------------------------------------------------------------------------
(* The clock                                                               *)

\* A bar has two phases.
LEMMA BarOf ==
    ASSUME NEW t \in Nat
    PROVE  /\ Bar(t) \in Nat
           /\ t = 2 * Bar(t) \/ t = 2 * Bar(t) + 1
           /\ InWindow(t) <=> t = 2 * Bar(t) + 1
  BY DEF Bar, InWindow

\* Every moment up to the bound is in one of the bars.
LEMMA TimesOf ==
    ASSUME NEW t \in Times
    PROVE  /\ t \in Nat /\ Bar(t) \in Bars /\ Bar(t) \in Nat
           /\ t = 2 * Bar(t) \/ t = 2 * Bar(t) + 1
           /\ InWindow(t) <=> t = 2 * Bar(t) + 1
  <1>1. t \in Nat /\ 2 <= t /\ t <= 2 * MaxBar + 1 /\ MaxBar \in Nat
    BY BarAssumption DEF Times
  <1>2. Bar(t) \in Nat /\ (t = 2 * Bar(t) \/ t = 2 * Bar(t) + 1)
    BY <1>1, BarOf
  <1>3. Bar(t) \in Bars
    BY <1>1, <1>2 DEF Bars
  <1> QED
    BY <1>1, <1>3, BarOf

\* A bar ends with its window.
LEMMA NextPhase ==
    ASSUME NEW t \in Times, t + 1 \in Times
    PROVE  /\ InWindow(t) => Bar(t + 1) = Bar(t) + 1 /\ ~InWindow(t + 1)
           /\ ~InWindow(t) => Bar(t + 1) = Bar(t) /\ InWindow(t + 1)
  BY TimesOf

-----------------------------------------------------------------------------
(* What steps have in common                                               *)

\* A step that leaves the clock, the requests and the ticks alone.
LEMMA TicksSame ==
    ASSUME BInv, UNCHANGED <<now, lastBar, call, fired, lost, spent>>
    PROVE  /\ CallsFit' /\ NotedHasCause' /\ NoneAhead' /\ OverHasCause'
           /\ \A b : Accounted(b)' <=> Accounted(b)
  <1>1. \A b : Accounted(b)' <=> Accounted(b)
    BY DEF Accounted
  <1>2. CallsFit'
    BY DEF BInv, CallsFit, Fits
  <1>3. NotedHasCause' /\ NoneAhead' /\ OverHasCause'
    BY <1>1 DEF BInv, NotedHasCause, NoneAhead, OverHasCause
  <1> QED
    BY <1>1, <1>2, <1>3

\* A caller that is not waiting asks.
LEMMA AskFits ==
    ASSUME BInv, NEW c \in Callers, Ask(c), now' = now
    PROVE  /\ CallsFit' /\ call' \in [Callers -> CallType]
           /\ call'[c] # Idle /\ call'[c].since = now /\ (call'[c].inWin <=> InWindow(now))
           /\ \A x \in Callers \ {c} : call'[x] = call[x]
  <1>1. PICK k : k = [at |-> "asked", since |-> now, inWin |-> InWindow(now), bar |-> 0]
    OBVIOUS
  <1>2. /\ k.at = "asked" /\ k.since = now /\ (k.inWin <=> InWindow(now))
        /\ k # Idle
    BY <1>1 DEF Idle
  <1>3. k \in CallType
    <2>1. InWindow(now) \in BOOLEAN
      BY DEF InWindow
    <2> QED
      BY <1>1, <2>1 DEF CallType, BInv, TypeOK
  <1>4. call' = [call EXCEPT ![c] = k] /\ call'[c] = k /\ \A x \in Callers \ {c} : call'[x] = call[x]
    BY <1>1 DEF Ask, BInv, TypeOK
  <1>5. call' \in [Callers -> CallType]
    BY <1>3, <1>4 DEF BInv, TypeOK
  <1>6. Fits(k)'
    <2>1. now \in Times /\ now \in Nat
      BY TimesOf DEF BInv, TypeOK
    <2> QED
      BY <1>2, <2>1 DEF Fits
  <1>7. CallsFit'
    BY <1>4, <1>6 DEF BInv, CallsFit, Fits
  <1> QED
    BY <1>2, <1>4, <1>5, <1>7

\* A caller whose call ends, and the calls of the others.
LEMMA IdleFits ==
    ASSUME BInv, NEW c \in Callers, call' = [call EXCEPT ![c] = Idle], now' = now
    PROVE  /\ CallsFit' /\ call' \in [Callers -> CallType] /\ call'[c] = Idle
           /\ \A x \in Callers \ {c} : call'[x] = call[x]
  <1>1. Idle \in CallType
    BY DEF Idle, CallType
  <1>2. call'[c] = Idle /\ \A x \in Callers \ {c} : call'[x] = call[x]
    BY DEF BInv, TypeOK
  <1> QED
    BY <1>1, <1>2 DEF BInv, TypeOK, CallsFit, Fits

\* What an answer adds to the books: its bar, and the one the loop asked for in its
\* window, are accounted for.
LEMMA AppliedAnswer ==
    ASSUME BInv, NEW c \in Callers, call[c].at = "answered", Apply(c), now' = now
    PROVE  /\ lastBar' = call[c].bar /\ call[c].bar \in Bars /\ call' = [call EXCEPT ![c] = Idle]
           /\ cached' \in BOOLEAN /\ tasks' \subseteq TaskType
           /\ fired' \in [Bars -> Nat] /\ misplaced' \subseteq Bars
           /\ lost' \subseteq Bars /\ spent' \subseteq Bars
           /\ \A b \in Bars : Accounted(b) => Accounted(b)'
           /\ \A b \in Bars : b = call[c].bar => Accounted(b)'
           /\ \A b \in Bars : (c = loop /\ call[c].inWin /\ b = Bar(call[c].since)) => Accounted(b)'
           /\ NotedHasCause' /\ NoneAhead'
  <1> USE DEF BInv
  <1>1. PICK k \in CallType : k = call[c]
    BY DEF TypeOK
  <1>2. k # Idle /\ Fits(k)
    BY <1>1 DEF CallsFit, Idle
  <1>3. k.bar \in Bars /\ k.bar \in Nat /\ k.since \in Times /\ k.bar <= Bar(now)
    BY <1>1, <1>2 DEF Fits, Bars
  <1>4. now \in Times /\ now \in Nat /\ Bar(now) \in Nat /\ Bar(k.since) \in Bars
    BY <1>3, TimesOf DEF TypeOK
  <1>5. PICK bar \in Bars : bar = k.bar
    BY <1>3
  <1>6. \A b \in Bars : fired'[b] \in Nat /\ fired'[b] >= fired[b]
                       /\ (b # bar => fired'[b] = fired[b])
    BY <1>1, <1>5 DEF Apply, TypeOK
  <1>7. fired' \in [Bars -> Nat]
    BY <1>1, <1>5 DEF Apply, TypeOK
  <1>8. /\ lastBar' = bar /\ call' = [call EXCEPT ![c] = Idle] /\ cached' \in BOOLEAN
        /\ spent' = IF bar # lastBar /\ ~k.inWin THEN spent \cup {bar} ELSE spent
        /\ lost' = IF c = loop /\ k.inWin /\ bar # Bar(k.since) THEN lost \cup {Bar(k.since)} ELSE lost
        /\ bar # lastBar /\ k.inWin => fired' = [fired EXCEPT ![bar] = @ + 1]
    BY <1>1, <1>5 DEF Apply
  <1>9. tasks' \subseteq TaskType /\ misplaced' \subseteq Bars
    <2>1. [bar |-> bar, since |-> now] \in TaskType
      BY <1>4 DEF TaskType
    <2> QED
      BY <1>1, <1>5, <2>1 DEF Apply, TypeOK
  <1>10. spent' \subseteq Bars /\ lost' \subseteq Bars /\ spent \subseteq spent' /\ lost \subseteq lost'
    BY <1>4, <1>8 DEF TypeOK
  <1>11. ASSUME NEW b \in Bars, Accounted(b)
         PROVE  Accounted(b)'
    BY <1>6, <1>10, <1>11 DEF Accounted, TypeOK
  <1>12. Accounted(bar)'
    <2>1. CASE bar = lastBar
      <3>1. Accounted(bar)
        BY <2>1, <1>5 DEF NotedHasCause, Bars
      <3> QED
        BY <3>1, <1>11
    <2>2. CASE bar # lastBar /\ k.inWin
      <3>1. fired'[bar] = fired[bar] + 1 /\ fired[bar] \in Nat
        BY <2>2, <1>8 DEF TypeOK
      <3> QED
        BY <3>1 DEF Accounted
    <2>3. CASE bar # lastBar /\ ~k.inWin
      BY <2>3, <1>8 DEF Accounted
    <2> QED
      BY <2>1, <2>2, <2>3
  <1>13. \A b \in Bars : (c = loop /\ k.inWin /\ b = Bar(k.since)) => Accounted(b)'
    BY <1>8, <1>12 DEF Accounted
  <1>14. NotedHasCause'
    BY <1>3, <1>5, <1>8, <1>12 DEF NotedHasCause
  <1>15. NoneAhead'
    BY <1>3, <1>4, <1>5, <1>6 DEF NoneAhead, Bars
  <1> HIDE DEF BInv
  <1>16. lastBar' = call[c].bar /\ call[c].bar \in Bars
    BY <1>1, <1>5, <1>8
  <1>17. \A b \in Bars : b = call[c].bar => Accounted(b)'
    BY <1>1, <1>5, <1>12
  <1>18. \A b \in Bars : (c = loop /\ call[c].inWin /\ b = Bar(call[c].since)) => Accounted(b)'
    BY <1>1, <1>13
  <1> QED
    BY <1>7, <1>8, <1>9, <1>10, <1>11, <1>14, <1>15, <1>16, <1>17, <1>18

\* What a request that fails adds to them.
LEMMA MissedAnswer ==
    ASSUME BInv, NEW c \in Callers, call[c].at = "asked", Miss(c), now' = now
    PROVE  /\ lastBar' = lastBar /\ call' = [call EXCEPT ![c] = Idle]
           /\ UNCHANGED <<cached, tasks, fired, misplaced, spent>>
           /\ lost' \subseteq Bars
           /\ \A b \in Bars : Accounted(b) => Accounted(b)'
           /\ \A b \in Bars : (c = loop /\ (call[c].inWin \/ InWindow(now)) /\ b = Bar(call[c].since))
                                => Accounted(b)'
           /\ NotedHasCause' /\ NoneAhead'
  <1>1. PICK k \in CallType : k = call[c]
    BY DEF BInv, TypeOK
  <1>2. k # Idle /\ Fits(k)
    BY <1>1 DEF BInv, CallsFit, Idle
  <1>3. Bar(k.since) \in Bars
    BY <1>2, TimesOf DEF Fits
  <1>4. /\ lastBar' = lastBar /\ call' = [call EXCEPT ![c] = Idle]
        /\ UNCHANGED <<cached, tasks, fired, misplaced, spent>>
        /\ lost' = IF c = loop /\ (k.inWin \/ InWindow(now)) THEN lost \cup {Bar(k.since)} ELSE lost
    BY <1>1 DEF Miss
  <1>5. lost' \subseteq Bars /\ lost \subseteq lost'
    BY <1>3, <1>4 DEF BInv, TypeOK
  <1>6. \A b \in Bars : Accounted(b) => Accounted(b)'
    BY <1>4, <1>5 DEF Accounted
  <1>7. \A b \in Bars : (c = loop /\ (k.inWin \/ InWindow(now)) /\ b = Bar(k.since)) => Accounted(b)'
    BY <1>4 DEF Accounted
  <1>8. NotedHasCause' /\ NoneAhead'
    BY <1>4, <1>6 DEF BInv, NotedHasCause, NoneAhead, TypeOK
  <1> QED
    BY <1>1, <1>4, <1>5, <1>6, <1>7, <1>8

\* A call that ends, one way or the other: what the loop asked for in a window is
\* accounted for, and when its call ends in a window, so is the bar of now.
LEMMA CallEnds ==
    ASSUME BInv, NEW c \in Callers, now' = now,
           \/ call[c].at = "answered" /\ Apply(c)
           \/ call[c].at = "asked" /\ Miss(c)
    PROVE  /\ lastBar' \in Bars \cup {0} /\ cached' \in BOOLEAN /\ tasks' \subseteq TaskType
           /\ fired' \in [Bars -> Nat] /\ misplaced' \subseteq Bars
           /\ lost' \subseteq Bars /\ spent' \subseteq Bars
           /\ call' \in [Callers -> CallType] /\ call'[c] = Idle
           /\ \A x \in Callers \ {c} : call'[x] = call[x]
           /\ CallsFit' /\ NotedHasCause' /\ NoneAhead' /\ OverHasCause'
           /\ \A b \in Bars : Accounted(b) => Accounted(b)'
           /\ \A b \in Bars : (c = loop /\ InWindow(now) /\ b = Bar(now)) => Accounted(b)'
  <1>1. call' = [call EXCEPT ![c] = Idle]
    BY DEF Apply, Miss
  <1>2. /\ CallsFit' /\ call' \in [Callers -> CallType] /\ call'[c] = Idle
        /\ \A x \in Callers \ {c} : call'[x] = call[x]
    BY <1>1, IdleFits
  <1>3. /\ lastBar' \in Bars \cup {0} /\ cached' \in BOOLEAN /\ tasks' \subseteq TaskType
        /\ fired' \in [Bars -> Nat] /\ misplaced' \subseteq Bars
        /\ lost' \subseteq Bars /\ spent' \subseteq Bars
        /\ NotedHasCause' /\ NoneAhead'
        /\ \A b \in Bars : Accounted(b) => Accounted(b)'
        /\ \A b \in Bars : (c = loop /\ call[c].inWin /\ b = Bar(call[c].since)) => Accounted(b)'
    <2>1. CASE call[c].at = "answered" /\ Apply(c)
      BY <2>1, AppliedAnswer
    <2>2. CASE call[c].at = "asked" /\ Miss(c)
      <3>1. lastBar \in Bars \cup {0} /\ cached \in BOOLEAN /\ tasks \subseteq TaskType
            /\ fired \in [Bars -> Nat] /\ misplaced \subseteq Bars /\ spent \subseteq Bars
        BY DEF BInv, TypeOK
      <3> QED
        BY <2>2, <3>1, MissedAnswer
    <2> QED
      BY <2>1, <2>2
  <1>4. \A b \in Bars : (c = loop /\ InWindow(now) /\ b = Bar(now)) => Accounted(b)'
    <2> SUFFICES ASSUME NEW b \in Bars, c = loop, InWindow(now), b = Bar(now)
                 PROVE  Accounted(b)'
      OBVIOUS
    <2>1. PICK k \in CallType : k = call[c]
      BY DEF BInv, TypeOK
    <2>2. k # Idle /\ Fits(k)
      BY <2>1 DEF BInv, CallsFit, Idle
    <2>3. now \in Times /\ k.since \in Times /\ k.since <= now /\ now <= k.since + 1
      BY <2>2 DEF BInv, TypeOK, Fits
    <2>4. Bar(k.since) = b
      BY <2>3, TimesOf
    <2>5. CASE call[c].at = "answered" /\ Apply(c)
      <3>1. call[c].bar = b
        <4>1. k.bar \in Bars /\ Bar(k.since) <= k.bar /\ k.bar <= Bar(now)
          BY <2>1, <2>2, <2>5 DEF Fits
        <4> QED
          BY <2>1, <2>4, <4>1 DEF Bars
      <3> QED
        BY <2>5, <3>1, AppliedAnswer
    <2>6. CASE call[c].at = "asked" /\ Miss(c)
      BY <2>1, <2>4, <2>6, MissedAnswer
    <2> QED
      BY <2>5, <2>6
  <1>5. OverHasCause'
    <2> SUFFICES ASSUME NEW b \in Bars, b < Bar(now)
                 PROVE  Accounted(b)' \/ (call'[loop].inWin /\ Bar(call'[loop].since) = b)
      BY DEF OverHasCause
    <2>1. Accounted(b) \/ (call[loop].inWin /\ Bar(call[loop].since) = b)
      BY DEF BInv, OverHasCause
    <2>2. CASE Accounted(b)
      BY <1>3, <2>2
    <2>3. CASE call[loop].inWin /\ Bar(call[loop].since) = b
      <3>1. CASE c = loop
        BY <1>3, <2>3, <3>1
      <3>2. CASE c # loop
        <4>1. loop \in Callers \ {c}
          BY <3>2 DEF Callers
        <4>2. call'[loop] = call[loop]
          BY <1>2, <4>1
        <4> QED
          BY <2>3, <4>2
      <3> QED
        BY <3>1, <3>2
    <2> QED
      BY <2>1, <2>2, <2>3
  <1> QED
    BY <1>2, <1>3, <1>4, <1>5

\* A step that leaves the clock and the loop where they are, and no bar less accounted for.
LEMMA LoopStays ==
    ASSUME BInv, UNCHANGED <<now, pc, wake, acted, looked>>,
           \A b \in Bars : Accounted(b) => Accounted(b)'
    PROVE  SleepsToWindow' /\ ActedInTime'
  <1>1. Bar(now) \in Bars
    BY TimesOf DEF BInv, TypeOK
  <1>2. PICK b \in Bars : b = Bar(now)
    BY <1>1
  <1>3. Accounted(b) => Accounted(b)'
    BY <1>2
  <1>4. SleepsToWindow'
    BY <1>2, <1>3 DEF BInv, SleepsToWindow
  <1>5. ActedInTime'
    BY <1>2, <1>3 DEF BInv, ActedInTime
  <1> QED
    BY <1>4, <1>5

-----------------------------------------------------------------------------
(* Every step keeps BInv                                                   *)

LEMMA InitKeeps == Init => BInv
  <1> SUFFICES ASSUME Init PROVE BInv
    OBVIOUS
  <1>1. now \in Times /\ now \in Nat /\ Bar(now) = 1 /\ MaxBar \in Nat \ {0}
    <2>1. MaxBar \in Nat \ {0}
      BY BarAssumption
    <2>2. now \in Times
      BY <2>1 DEF Init, Times
    <2>3. Bar(now) = 1
      BY DEF Init, Bar
    <2> QED
      BY <2>1, <2>2, <2>3, TimesOf
  <1>2. Idle \in CallType
    BY DEF Idle, CallType
  <1>3. TypeOK
    <2>1. call \in [Callers -> CallType]
      BY <1>2 DEF Init
    <2>2. fired \in [Bars -> Nat]
      BY DEF Init
    <2>3. restarts \in 0..MaxRestarts
      BY RestartAssumption DEF Init
    <2> QED
      BY <1>1, <2>1, <2>2, <2>3 DEF Init, TypeOK
  <1>4. loop \in Callers /\ \A c \in Callers : call[c] = Idle
    BY DEF Callers, Init
  <1>5. CallsFit /\ LoopWaits /\ NotedHasCause
    BY <1>1, <1>4 DEF Init, CallsFit, LoopWaits, NotedHasCause
  <1>6. NoneAhead /\ SleepsToWindow /\ ActedInTime
    BY <1>1 DEF Init, NoneAhead, SleepsToWindow, ActedInTime
  <1>7. OverHasCause
    BY <1>1 DEF OverHasCause, Bars
  <1> QED
    BY <1>3, <1>5, <1>6, <1>7 DEF BInv

LEMMA AdvanceKeeps == BInv /\ Advance => BInv'
  <1> SUFFICES ASSUME BInv, Advance PROVE BInv'
    OBVIOUS
  <1> DEFINE nxt == now + 1
  <1>1. /\ now \in Times /\ now \in Nat /\ nxt \in Times /\ nxt \in Nat /\ now' = nxt
        /\ Bar(now) \in Bars /\ Bar(nxt) \in Bars /\ Bar(now) \in Nat /\ Bar(nxt) \in Nat
    BY TimesOf DEF BInv, TypeOK, Advance
  <1>2. /\ InWindow(now) => Bar(nxt) = Bar(now) + 1 /\ ~InWindow(nxt)
        /\ ~InWindow(now) => Bar(nxt) = Bar(now) /\ InWindow(nxt)
    BY <1>1, NextPhase
  <1>3. /\ UNCHANGED <<restarts, lastBar, cached, call, tasks, held, breach, pc, wake, acted,
                       looked, fired, misplaced, spent>>
        /\ lost \subseteq lost' /\ lost' \subseteq lost \cup {Bar(now)}
    BY DEF Advance, feedVars, engineVars, loopVars
  <1>4. /\ exposed' \in BOOLEAN /\ watched' \in BOOLEAN /\ unwatched' \in Nat
    <2>1. exposed \in BOOLEAN /\ held \in BOOLEAN /\ unwatched \in Nat
      BY DEF BInv, TypeOK
    <2>2. exposed' \in {exposed, held} /\ watched' = FALSE
      BY DEF Advance
    <2>3. unwatched' = unwatched \/ unwatched' = 0 \/ unwatched' = unwatched + 1
      BY DEF Advance
    <2>4. unwatched' \in Nat
      BY <2>1, <2>3
    <2>5. exposed' \in BOOLEAN /\ watched' \in BOOLEAN
      BY <2>1, <2>2
    <2> QED
      BY <2>4, <2>5
  <1>5. TypeOK'
    BY <1>1, <1>3, <1>4 DEF BInv, TypeOK
  <1>6. \A b \in Bars : Accounted(b) => Accounted(b)'
    BY <1>3 DEF Accounted
  <1>7. \A c \in Callers : call[c] # Idle => call[c].since = now /\ (InWindow(now) => LateAnswers)
    BY DEF BInv, CallsFit, Fits, Advance
  <1>8. CallsFit'
    <2> SUFFICES ASSUME NEW c \in Callers, call[c] # Idle PROVE Fits(call[c])'
      BY <1>3 DEF CallsFit
    <2>1. PICK k \in CallType : k = call[c]
      BY DEF BInv, TypeOK
    <2>2. Fits(k) /\ k.since = now /\ (InWindow(now) => LateAnswers)
      BY <2>1, <1>7 DEF BInv, CallsFit
    <2>3. k.at = "answered" => k.bar \in Nat
      BY <2>2 DEF Fits, Bars
    <2>4. Fits(k)'
      BY <2>2, <2>3, <1>1, <1>2 DEF Fits
    <2> QED
      BY <2>1, <2>4, <1>3
  <1>9. LoopWaits'
    BY <1>3 DEF BInv, LoopWaits
  <1>10. NotedHasCause'
    <2>1. lastBar \in Bars \cup {0} /\ lastBar <= Bar(now) /\ (lastBar # 0 => Accounted(lastBar))
      BY DEF BInv, TypeOK, NotedHasCause
    <2>2. lastBar <= Bar(nxt)
      BY <2>1, <1>1, <1>2 DEF Bars
    <2>3. PICK b \in Bars \cup {0} : b = lastBar
      BY <2>1
    <2>4. b # 0 => Accounted(b)'
      BY <1>6, <2>1, <2>3
    <2> QED
      BY <2>2, <2>3, <2>4, <1>1, <1>3 DEF NotedHasCause
  <1>11. NoneAhead'
    BY <1>1, <1>2, <1>3 DEF BInv, NoneAhead, Bars
  <1>12. SleepsToWindow'
    <2>1. wake \in Nat /\ (pc = "sleep" => wake > now)
      BY DEF BInv, TypeOK, Advance
    <2> QED
      BY <2>1, <1>1, <1>2, <1>3 DEF BInv, SleepsToWindow
  <1>13. acted \in Nat /\ looked \in Nat /\ acted <= now /\ looked <= now
    BY TimesOf DEF BInv, TypeOK, ActedInTime
  <1>14. ActedInTime'
    BY <1>1, <1>3, <1>13 DEF ActedInTime
  <1>15. OverHasCause'
    <2> SUFFICES ASSUME NEW b \in Bars, b < Bar(nxt)
                 PROVE  Accounted(b)' \/ (call[loop].inWin /\ Bar(call[loop].since) = b)
      BY <1>1, <1>3 DEF OverHasCause
    <2>1. CASE b < Bar(now)
      BY <2>1, <1>6 DEF BInv, OverHasCause
    <2>2. CASE ~(b < Bar(now))
      <3>1. InWindow(now) /\ b = Bar(now)
        BY <2>2, <1>1, <1>2 DEF Bars
      <3>2. CASE pc \in {"flat_fn", "held_fn"}
        <4>1. loop \in Callers /\ call[loop] # Idle
          BY <3>2 DEF BInv, LoopWaits, Callers
        <4>2. PICK k \in CallType : k = call[loop]
          BY <4>1 DEF BInv, TypeOK
        <4>3. k.since = now /\ (k.inWin <=> InWindow(k.since))
          BY <4>1, <4>2, <1>7 DEF BInv, CallsFit, Fits
        <4> QED
          BY <3>1, <4>2, <4>3
      <3>3. CASE pc = "sleep"
        <4>1. wake \in Nat /\ wake > now
          BY <3>3 DEF BInv, TypeOK, Advance
        <4>2. Accounted(b)
          BY <3>1, <3>3, <4>1, <1>1 DEF BInv, SleepsToWindow
        <4> QED
          BY <4>2, <1>6
      <3>4. CASE pc \in {"nap", "price", "executing"}
        <4>1. CASE acted = now
          <5>1. Accounted(b)
            BY <3>1, <3>4, <4>1 DEF BInv, ActedInTime
          <5> QED
            BY <5>1, <1>6
        <4>2. CASE acted # now
          <5>1. pc = "executing" /\ acted < now
            BY <3>1, <3>4, <4>2, <1>1, <1>13 DEF Advance
          <5>2. b \in lost'
            BY <3>1, <5>1 DEF Advance
          <5> QED
            BY <5>2 DEF Accounted
        <4> QED
          BY <4>1, <4>2
      <3> QED
        BY <3>2, <3>3, <3>4 DEF BInv, TypeOK, Advance, Yielded
    <2> QED
      BY <2>1, <2>2
  <1> QED
    BY <1>5, <1>8, <1>9, <1>10, <1>11, <1>12, <1>14, <1>15 DEF BInv

\* The price crosses the stop.
LEMMA MarketKeeps == BInv /\ Market => BInv'
  <1> SUFFICES ASSUME BInv, Market PROVE BInv'
    OBVIOUS
  <1>1. UNCHANGED <<now, restarts, lastBar, cached, call, tasks, held, pc, wake, acted, looked,
                    fired, misplaced, lost, spent, exposed, watched, unwatched>>
    BY DEF Market, feedVars, loopVars, tickHist, watchHist
  <1>2. breach' \in BOOLEAN
    BY DEF BInv, TypeOK, Market
  <1>3. TypeOK'
    BY <1>1, <1>2 DEF BInv, TypeOK
  <1>4. /\ CallsFit' /\ NotedHasCause' /\ NoneAhead' /\ OverHasCause'
        /\ \A b : Accounted(b)' <=> Accounted(b)
    BY <1>1, TicksSame
  <1>5. SleepsToWindow' /\ ActedInTime'
    BY <1>1, <1>4, LoopStays
  <1>6. LoopWaits'
    BY <1>1 DEF BInv, LoopWaits
  <1> QED
    BY <1>3, <1>4, <1>5, <1>6 DEF BInv

LEMMA AnswerKeeps == ASSUME NEW c \in Callers PROVE BInv /\ Answer(c) => BInv'
  <1> SUFFICES ASSUME BInv, Answer(c) PROVE BInv'
    OBVIOUS
  <1>1. UNCHANGED <<now, restarts, lastBar, cached, tasks, held, breach, pc, wake, acted, looked,
                    fired, misplaced, lost, spent, exposed, watched, unwatched>>
    BY DEF Answer, engineVars, loopVars, tickHist, watchHist
  <1>2. PICK k \in CallType : k = call[c]
    BY DEF BInv, TypeOK
  <1>3. PICK m : m = [k EXCEPT !.at = "answered", !.bar = Bar(now)]
    OBVIOUS
  <1>4. m.at = "answered" /\ m.bar = Bar(now) /\ m.since = k.since /\ m.inWin = k.inWin
    BY <1>3 DEF CallType
  <1>5. call' = [call EXCEPT ![c] = m]
    BY <1>2, <1>3 DEF Answer
  <1>6. now \in Times /\ Bar(now) \in Bars /\ Bar(now) \in Nat
    BY TimesOf DEF BInv, TypeOK
  <1>7. m \in CallType
    BY <1>3, <1>6 DEF CallType
  <1>8. Fits(k) /\ k # Idle /\ m # Idle
    BY <1>2, <1>4 DEF BInv, CallsFit, Answer, Idle
  <1>9. Fits(m)
    <2>1. k.since \in Times /\ k.since <= now /\ now <= k.since + 1
      BY <1>8 DEF Fits
    <2>2. Bar(k.since) <= Bar(now)
      BY <2>1, <1>6, TimesOf
    <2> QED
      BY <1>4, <1>6, <1>8, <2>2 DEF Fits
  <1>10. call' \in [Callers -> CallType] /\ call'[c] = m /\ \A x \in Callers \ {c} : call'[x] = call[x]
    BY <1>5, <1>7 DEF BInv, TypeOK
  <1>11. Fits(m)'
    BY <1>1, <1>9 DEF Fits
  <1>12. CallsFit'
    BY <1>1, <1>10, <1>11 DEF BInv, CallsFit, Fits
  <1>13. TypeOK'
    BY <1>1, <1>10 DEF BInv, TypeOK
  <1>14. \A b : Accounted(b)' <=> Accounted(b)
    BY <1>1 DEF Accounted
  <1>15. NotedHasCause' /\ NoneAhead'
    BY <1>1, <1>14 DEF BInv, NotedHasCause, NoneAhead
  <1>16. SleepsToWindow' /\ ActedInTime'
    BY <1>1, <1>14, LoopStays
  <1>17. /\ call'[loop] = Idle <=> call[loop] = Idle
         /\ call'[loop].inWin = call[loop].inWin /\ call'[loop].since = call[loop].since
    <2>1. CASE c = loop
      BY <2>1, <1>2, <1>4, <1>8, <1>10
    <2>2. CASE c # loop
      BY <2>2, <1>10 DEF Callers
    <2> QED
      BY <2>1, <2>2
  <1>18. LoopWaits'
    BY <1>1, <1>17 DEF BInv, LoopWaits
  <1>19. OverHasCause'
    BY <1>1, <1>14, <1>17 DEF BInv, OverHasCause
  <1> QED
    BY <1>12, <1>13, <1>15, <1>16, <1>18, <1>19 DEF BInv

LEMMA ViewerAskKeeps == ASSUME NEW v \in Viewers PROVE BInv /\ ViewerAsk(v) => BInv'
  <1> SUFFICES ASSUME BInv, ViewerAsk(v) PROVE BInv'
    OBVIOUS
  <1>1. v \in Callers /\ loop \in Callers \ {v}
    BY LoopAssumption DEF Callers
  <1>2. UNCHANGED <<now, restarts, lastBar, cached, tasks, held, breach, pc, wake, acted, looked,
                    fired, misplaced, lost, spent, exposed, watched, unwatched>>
    BY DEF ViewerAsk, engineVars, loopVars, tickHist, watchHist
  <1>3. Ask(v)
    BY DEF ViewerAsk
  <1>4. /\ CallsFit' /\ call' \in [Callers -> CallType]
        /\ call'[loop] = call[loop]
    BY <1>1, <1>2, <1>3, AskFits
  <1>5. TypeOK'
    BY <1>2, <1>4 DEF BInv, TypeOK
  <1>6. \A b : Accounted(b)' <=> Accounted(b)
    BY <1>2 DEF Accounted
  <1>7. NotedHasCause' /\ NoneAhead'
    BY <1>2, <1>6 DEF BInv, NotedHasCause, NoneAhead
  <1>8. SleepsToWindow' /\ ActedInTime'
    BY <1>2, <1>6, LoopStays
  <1>9. LoopWaits' /\ OverHasCause'
    BY <1>2, <1>4, <1>6 DEF BInv, LoopWaits, OverHasCause
  <1> QED
    BY <1>4, <1>5, <1>7, <1>8, <1>9 DEF BInv

LEMMA ViewerDoneKeeps == ASSUME NEW v \in Viewers PROVE BInv /\ ViewerDone(v) => BInv'
  <1> SUFFICES ASSUME BInv, ViewerDone(v) PROVE BInv'
    OBVIOUS
  <1>1. v \in Callers /\ loop \in Callers \ {v}
    BY LoopAssumption DEF Callers
  <1>2. /\ UNCHANGED <<now, restarts, held, breach, pc, wake, acted, looked, exposed, watched,
                       unwatched>>
        /\ \/ call[v].at = "answered" /\ Apply(v)
           \/ call[v].at = "asked" /\ Miss(v)
    BY DEF ViewerDone, engineVars, loopVars, watchHist
  <1>3. /\ lastBar' \in Bars \cup {0} /\ cached' \in BOOLEAN /\ tasks' \subseteq TaskType
        /\ fired' \in [Bars -> Nat] /\ misplaced' \subseteq Bars
        /\ lost' \subseteq Bars /\ spent' \subseteq Bars
        /\ call' \in [Callers -> CallType] /\ call'[loop] = call[loop]
        /\ CallsFit' /\ NotedHasCause' /\ NoneAhead' /\ OverHasCause'
        /\ \A b \in Bars : Accounted(b) => Accounted(b)'
    BY <1>1, <1>2, CallEnds
  <1>4. TypeOK'
    BY <1>2, <1>3 DEF BInv, TypeOK
  <1>5. SleepsToWindow' /\ ActedInTime'
    BY <1>2, <1>3, LoopStays
  <1>6. LoopWaits'
    BY <1>2, <1>3 DEF BInv, LoopWaits
  <1> QED
    BY <1>3, <1>4, <1>5, <1>6 DEF BInv

LEMMA RunTickKeeps == ASSUME NEW t \in tasks PROVE BInv /\ RunTick(t) => BInv'
  <1> SUFFICES ASSUME BInv, RunTick(t) PROVE BInv'
    OBVIOUS
  <1>1. UNCHANGED <<now, restarts, lastBar, cached, call, pc, wake, acted, looked,
                    fired, misplaced, lost, spent, watched>>
    BY DEF RunTick, loopVars, tickHist
  <1>2. TypeOK'
    <2>1. PICK exits \in BOOLEAN, enters \in BOOLEAN :
            /\ held' = ((held /\ ~exits) \/ enters)
            /\ breach' = (breach /\ held /\ ~exits)
            /\ exposed' = (exposed /\ held /\ ~exits)
            /\ unwatched' = IF exits THEN 0 ELSE unwatched
      BY DEF RunTick
    <2>2. held' \in BOOLEAN /\ breach' \in BOOLEAN /\ exposed' \in BOOLEAN
      BY <2>1
    <2>3. unwatched' \in Nat
      BY <2>1 DEF BInv, TypeOK
    <2>4. tasks' \subseteq TaskType
      BY DEF RunTick, BInv, TypeOK
    <2> QED
      BY <1>1, <2>2, <2>3, <2>4 DEF BInv, TypeOK
  <1>3. /\ CallsFit' /\ NotedHasCause' /\ NoneAhead' /\ OverHasCause'
        /\ \A b : Accounted(b)' <=> Accounted(b)
    BY <1>1, TicksSame
  <1>4. SleepsToWindow' /\ ActedInTime'
    BY <1>1, <1>3, LoopStays
  <1>5. LoopWaits'
    BY <1>1 DEF BInv, LoopWaits
  <1> QED
    BY <1>2, <1>3, <1>4, <1>5 DEF BInv

\* The loop at its top has no request in flight.
LEMMA AtTopIdle ==
    ASSUME BInv, AtTop
    PROVE  /\ loop \in Callers /\ call[loop] = Idle /\ pc \in {"top", "nap", "sleep"}
           /\ \A b \in Bars : b < Bar(now) => Accounted(b)
  <1>1. loop \in Callers /\ pc \in {"top", "nap", "sleep"}
    BY DEF Callers, AtTop
  <1>2. call[loop] = Idle
    BY <1>1 DEF BInv, LoopWaits
  <1>3. ~call[loop].inWin
    BY <1>2 DEF Idle
  <1> QED
    BY <1>1, <1>2, <1>3 DEF BInv, OverHasCause

\* At its top the loop asks.
LEMMA TopAsks ==
    ASSUME BInv, AtTop, Ask(loop), pc' \in {"flat_fn", "held_fn"}, wake' = 0, acted' = now,
           UNCHANGED <<now, looked, restarts, lastBar, cached, tasks, engineVars, tickHist, watchHist>>
    PROVE  BInv'
  <1>1. UNCHANGED <<now, looked, restarts, lastBar, cached, tasks, held, breach,
                    fired, misplaced, lost, spent, exposed, watched, unwatched>>
    BY DEF engineVars, tickHist, watchHist
  <1>2. /\ loop \in Callers /\ call[loop] = Idle
        /\ \A b \in Bars : b < Bar(now) => Accounted(b)
    BY AtTopIdle
  <1>3. CallsFit' /\ call' \in [Callers -> CallType] /\ call'[loop] # Idle
    BY <1>1, <1>2, AskFits
  <1>4. now \in Times /\ now \in Nat
    BY TimesOf DEF BInv, TypeOK
  <1>5. TypeOK'
    BY <1>1, <1>3, <1>4 DEF BInv, TypeOK
  <1>6. \A b : Accounted(b)' <=> Accounted(b)
    BY <1>1 DEF Accounted
  <1>7. NotedHasCause' /\ NoneAhead' /\ OverHasCause'
    BY <1>1, <1>2, <1>6 DEF BInv, NotedHasCause, NoneAhead, OverHasCause
  <1>8. LoopWaits' /\ SleepsToWindow'
    BY <1>3 DEF LoopWaits, SleepsToWindow
  <1>9. ActedInTime'
    BY <1>1, <1>4 DEF BInv, ActedInTime
  <1> QED
    BY <1>3, <1>5, <1>7, <1>8, <1>9 DEF BInv

\* At its top the loop asks for nothing: it has no reason to in the window of a bar.
LEMMA TopGoesOn ==
    ASSUME BInv, AtTop, acted' = now,
           \/ pc' = "price" /\ wake' = 0
           \/ pc' = "sleep" /\ wake' = now + 1 /\ ~InWindow(now),
           InWindow(now) => Accounted(Bar(now)),
           UNCHANGED <<now, looked, call, restarts, lastBar, cached, tasks, engineVars, tickHist,
                       watchHist>>
    PROVE  BInv'
  <1>1. UNCHANGED <<now, looked, call, restarts, lastBar, cached, tasks, held, breach,
                    fired, misplaced, lost, spent, exposed, watched, unwatched>>
    BY DEF engineVars, tickHist, watchHist
  <1>2. call[loop] = Idle
    BY AtTopIdle
  <1>3. now \in Times /\ now \in Nat
    BY TimesOf DEF BInv, TypeOK
  <1>4. TypeOK'
    BY <1>1, <1>3 DEF BInv, TypeOK
  <1>5. /\ CallsFit' /\ NotedHasCause' /\ NoneAhead' /\ OverHasCause'
        /\ \A b : Accounted(b)' <=> Accounted(b)
    BY <1>1, TicksSame
  <1>6. LoopWaits'
    BY <1>1, <1>2 DEF LoopWaits
  <1>7. SleepsToWindow'
    BY <1>1, <1>3 DEF SleepsToWindow
  <1>8. ActedInTime'
    BY <1>1, <1>3, <1>5 DEF BInv, ActedInTime
  <1> QED
    BY <1>4, <1>5, <1>6, <1>7, <1>8 DEF BInv

LEMMA TopHeldKeeps == BInv /\ TopHeld => BInv'
  <1> SUFFICES ASSUME BInv, TopHeld PROVE BInv'
    OBVIOUS
  <1>1. CASE InWindow(now) /\ lastBar < Bar(now)
    <2>1. Ask(loop) /\ pc' = "held_fn" /\ wake' = 0
      BY <1>1 DEF TopHeld, GoTo
    <2> QED
      BY <2>1, TopAsks DEF TopHeld
  <1>2. CASE ~(InWindow(now) /\ lastBar < Bar(now))
    <2>1. call' = call /\ pc' = "price" /\ wake' = 0
      BY <1>2 DEF TopHeld, GoTo
    <2>2. InWindow(now) => Accounted(Bar(now))
      <3>1. Bar(now) \in Bars /\ Bar(now) \in Nat
        BY TimesOf DEF BInv, TypeOK
      <3>2. lastBar \in Nat /\ lastBar <= Bar(now) /\ (lastBar # 0 => Accounted(lastBar))
        BY DEF BInv, TypeOK, NotedHasCause, Bars
      <3>3. InWindow(now) => lastBar = Bar(now) /\ lastBar # 0
        BY <1>2, <3>1, <3>2 DEF Bars
      <3> QED
        BY <3>2, <3>3
    <2> QED
      BY <2>1, <2>2, TopGoesOn DEF TopHeld
  <1> QED
    BY <1>1, <1>2

LEMMA TopFlatKeeps == BInv /\ TopFlat => BInv'
  <1> SUFFICES ASSUME BInv, TopFlat PROVE BInv'
    OBVIOUS
  <1>1. CASE Serves
    <2>1. call' = call /\ pc' = "sleep" /\ wake' = now + 1 /\ ~InWindow(now)
      BY <1>1 DEF TopFlat, Sleep, Serves, NextTrigger
    <2> QED
      BY <2>1, TopGoesOn DEF TopFlat
  <1>2. CASE ~Serves
    <2>1. Ask(loop) /\ pc' = "flat_fn" /\ wake' = 0
      BY <1>2 DEF TopFlat, GoTo
    <2> QED
      BY <2>1, TopAsks DEF TopFlat
  <1> QED
    BY <1>1, <1>2

\* The loop's call ends, and the loop goes to its top, to the price or to sleep.
LEMMA LoopCallEnds ==
    ASSUME BInv, UNCHANGED <<now, restarts, engineVars, acted, looked, watchHist>>,
           \/ call[loop].at = "answered" /\ Apply(loop)
           \/ call[loop].at = "asked" /\ Miss(loop),
           Sleep \/ GoTo("top") \/ GoTo("price")
    PROVE  BInv'
  <1>1. loop \in Callers
    BY DEF Callers
  <1>2. UNCHANGED <<now, restarts, held, breach, acted, looked, exposed, watched, unwatched>>
    BY DEF engineVars, watchHist
  <1>3. /\ lastBar' \in Bars \cup {0} /\ cached' \in BOOLEAN /\ tasks' \subseteq TaskType
        /\ fired' \in [Bars -> Nat] /\ misplaced' \subseteq Bars
        /\ lost' \subseteq Bars /\ spent' \subseteq Bars
        /\ call' \in [Callers -> CallType] /\ call'[loop] = Idle
        /\ CallsFit' /\ NotedHasCause' /\ NoneAhead' /\ OverHasCause'
        /\ \A b \in Bars : Accounted(b) => Accounted(b)'
        /\ \A b \in Bars : (InWindow(now) /\ b = Bar(now)) => Accounted(b)'
    BY <1>1, <1>2, CallEnds
  <1>4. now \in Times /\ now \in Nat /\ Bar(now) \in Bars
    BY TimesOf DEF BInv, TypeOK
  <1>5. \/ pc' \in {"top", "price"} /\ wake' = 0
        \/ pc' = "sleep" /\ wake' = IF InWindow(now) THEN now + 2 ELSE now + 1
    BY DEF Sleep, GoTo, NextTrigger
  <1>6. pc' \in {"top", "price", "sleep"} /\ wake' \in Nat
    BY <1>4, <1>5
  <1>7. TypeOK'
    BY <1>2, <1>3, <1>6 DEF BInv, TypeOK
  <1>8. LoopWaits'
    BY <1>3, <1>6 DEF LoopWaits
  <1>9. PICK b \in Bars : b = Bar(now)
    BY <1>4
  <1>10. InWindow(now) => Accounted(b)'
    BY <1>3, <1>9
  <1>11. SleepsToWindow'
    BY <1>2, <1>5, <1>9, <1>10 DEF SleepsToWindow
  <1>12. ActedInTime'
    BY <1>2, <1>9, <1>10 DEF BInv, ActedInTime
  <1> QED
    BY <1>3, <1>7, <1>8, <1>11, <1>12 DEF BInv

LEMMA LoopDoneKeeps == BInv /\ LoopDone => BInv'
  BY LoopCallEnds DEF LoopDone

LEMMA LoopRaiseKeeps == BInv /\ LoopRaise => BInv'
  BY LoopCallEnds DEF LoopRaise

\* The loop, past its request and before its nap.
LEMMA LoopGoesOn ==
    ASSUME BInv, pc \in {"price", "executing"}, pc' \in {"executing", "nap"}, wake' = 0,
           looked' \in {looked, now}, held' \in BOOLEAN, breach' \in BOOLEAN, exposed' \in BOOLEAN,
           watched' \in BOOLEAN, unwatched' \in Nat,
           UNCHANGED <<now, restarts, feedVars, acted, tickHist>>
    PROVE  BInv'
  <1>1. UNCHANGED <<now, restarts, lastBar, cached, call, tasks, acted, fired, misplaced, lost, spent>>
    BY DEF feedVars, tickHist
  <1>2. now \in Times /\ now \in Nat
    BY TimesOf DEF BInv, TypeOK
  <1>3. TypeOK'
    BY <1>1, <1>2 DEF BInv, TypeOK
  <1>4. /\ CallsFit' /\ NotedHasCause' /\ NoneAhead' /\ OverHasCause'
        /\ \A b : Accounted(b)' <=> Accounted(b)
    BY <1>1, TicksSame
  <1>5. LoopWaits' /\ SleepsToWindow'
    BY <1>1 DEF BInv, LoopWaits, SleepsToWindow
  <1>6. ActedInTime'
    BY <1>1, <1>2, <1>4 DEF BInv, ActedInTime
  <1> QED
    BY <1>3, <1>4, <1>5, <1>6 DEF BInv

LEMMA CheckPriceKeeps == BInv /\ CheckPrice => BInv'
  <1> SUFFICES ASSUME BInv, CheckPrice PROVE BInv'
    OBVIOUS
  <1>1. held \in BOOLEAN /\ breach \in BOOLEAN /\ exposed \in BOOLEAN /\ unwatched \in Nat
    BY DEF BInv, TypeOK
  <1>2. /\ held' \in {FALSE, held} /\ breach' \in {FALSE, breach} /\ exposed' \in {FALSE, exposed}
        /\ (unwatched' = 0 \/ unwatched' = unwatched)
        /\ pc' \in {"executing", "nap"} /\ wake' = 0
    BY DEF CheckPrice, GoTo
  <1>3. pc = "price" /\ watched' = TRUE /\ looked' = now
        /\ UNCHANGED <<now, restarts, feedVars, acted, tickHist>>
    BY DEF CheckPrice
  <1>4. held' \in BOOLEAN /\ breach' \in BOOLEAN /\ exposed' \in BOOLEAN
    BY <1>1, <1>2
  <1>5. unwatched' \in Nat
    BY <1>1, <1>2
  <1> QED
    BY <1>2, <1>3, <1>4, <1>5, LoopGoesOn

LEMMA NoPriceKeeps == BInv /\ NoPrice => BInv'
  <1> SUFFICES ASSUME BInv, NoPrice PROVE BInv'
    OBVIOUS
  <1>1. /\ held' \in BOOLEAN /\ breach' \in BOOLEAN /\ exposed' \in BOOLEAN /\ watched' \in BOOLEAN
        /\ unwatched' \in Nat
    BY DEF BInv, TypeOK, NoPrice, engineVars, watchHist
  <1> QED
    BY <1>1, LoopGoesOn DEF NoPrice, GoTo

LEMMA ExecutedKeeps == BInv /\ Executed => BInv'
  <1> SUFFICES ASSUME BInv, Executed PROVE BInv'
    OBVIOUS
  <1>1. /\ held' \in BOOLEAN /\ breach' \in BOOLEAN /\ exposed' \in BOOLEAN /\ watched' \in BOOLEAN
        /\ unwatched' \in Nat
    BY DEF BInv, TypeOK, Executed, engineVars, watchHist
  <1> QED
    BY <1>1, LoopGoesOn DEF Executed, GoTo

LEMMA RestartKeeps == BInv /\ Restart => BInv'
  <1> SUFFICES ASSUME BInv, Restart PROVE BInv'
    OBVIOUS
  <1>1. /\ UNCHANGED <<now, held, breach, fired, misplaced, spent, exposed, watched, unwatched>>
        /\ lastBar' = 0 /\ cached' = FALSE /\ tasks' = {} /\ pc' = "top" /\ wake' = 0
        /\ acted' = 0 /\ looked' = 0 /\ call' = [c \in Callers |-> Idle]
    BY DEF Restart, GoTo, engineVars, watchHist
  <1>2. restarts' \in 0..MaxRestarts
    BY RestartAssumption DEF BInv, TypeOK, Restart
  <1>3. now \in Times /\ now \in Nat /\ Bar(now) \in Nat /\ 2 <= now
    <2>1. now \in Times /\ now \in Nat /\ Bar(now) \in Nat
      BY TimesOf DEF BInv, TypeOK
    <2> QED
      BY <2>1 DEF Times
  <1>4. loop \in Callers
    BY DEF Callers
  <1>5. PICK k \in CallType : k = call[loop]
    BY <1>4 DEF BInv, TypeOK
  <1>6. k = Idle \/ Fits(k)
    BY <1>4, <1>5 DEF BInv, CallsFit
  <1>7. k.inWin => Bar(k.since) \in Bars
    BY <1>6, TimesOf DEF Idle, Fits
  <1>8. lost' = IF k.inWin THEN lost \cup {Bar(k.since)} ELSE lost
    BY <1>5 DEF Restart
  <1>9. lost' \subseteq Bars /\ lost \subseteq lost'
    BY <1>7, <1>8 DEF BInv, TypeOK
  <1>10. call' \in [Callers -> CallType]
    BY <1>1 DEF Idle, CallType
  <1>11. TypeOK'
    BY <1>1, <1>2, <1>9, <1>10 DEF BInv, TypeOK
  <1>12. CallsFit' /\ LoopWaits'
    BY <1>1, <1>4 DEF CallsFit, LoopWaits
  <1>13. NotedHasCause' /\ NoneAhead' /\ SleepsToWindow' /\ ActedInTime'
    BY <1>1, <1>3 DEF BInv, NotedHasCause, NoneAhead, SleepsToWindow, ActedInTime
  <1>14. OverHasCause'
    <2> SUFFICES ASSUME NEW b \in Bars, b < Bar(now)
                 PROVE  Accounted(b)'
      BY <1>1 DEF OverHasCause
    <2>1. Accounted(b) \/ (k.inWin /\ Bar(k.since) = b)
      BY <1>5 DEF BInv, OverHasCause
    <2> QED
      BY <2>1, <1>1, <1>8 DEF Accounted
  <1> QED
    BY <1>11, <1>12, <1>13, <1>14 DEF BInv

LEMMA BarsStep == BInv /\ [Next]_vars => BInv'
  <1> SUFFICES ASSUME BInv, [Next]_vars PROVE BInv'
    OBVIOUS
  <1>1. CASE UNCHANGED vars
    <2>1. UNCHANGED <<now, restarts, lastBar, cached, call, tasks, held, breach, pc, wake, acted,
                      looked, fired, misplaced, lost, spent, exposed, watched, unwatched>>
      BY <1>1 DEF vars, feedVars, engineVars, loopVars, tickHist, watchHist
    <2>2. TypeOK'
      BY <2>1 DEF BInv, TypeOK
    <2>3. /\ CallsFit' /\ NotedHasCause' /\ NoneAhead' /\ OverHasCause'
          /\ \A b : Accounted(b)' <=> Accounted(b)
      BY <2>1, TicksSame
    <2>4. SleepsToWindow' /\ ActedInTime'
      BY <2>1, <2>3, LoopStays
    <2>5. LoopWaits'
      BY <2>1 DEF BInv, LoopWaits
    <2> QED
      BY <2>2, <2>3, <2>4, <2>5 DEF BInv
  <1>2. CASE Next
    BY <1>2, AdvanceKeeps, MarketKeeps, AnswerKeeps, ViewerAskKeeps, ViewerDoneKeeps, RunTickKeeps,
       TopHeldKeeps, TopFlatKeeps, LoopDoneKeeps, LoopRaiseKeeps, CheckPriceKeeps, NoPriceKeeps,
       ExecutedKeeps, RestartKeeps DEF Next
  <1> QED
    BY <1>1, <1>2

\* BInv is inductive.
THEOREM BarsInvariance == Spec => []BInv
  BY InitKeeps, BarsStep, PTL DEF Spec

\* What BInv says of the bars that are over.
LEMMA AllHaveCause == BInv => LostBarHasCause
  BY DEF BInv, OverHasCause, Accounted, TypeOK, LostBarHasCause, Unticked

\* The types, for every value of the constants.
THEOREM TypeCorrect == Spec => []TypeOK
  BY BarsInvariance, PTL DEF BInv

\* A bar that is over and never got a tick was missed for a known cause, whatever
\* fails, however late the answers come and however many dashboards ask.
THEOREM LostBarsHaveCause == Spec => []LostBarHasCause
  BY AllHaveCause, BarsInvariance, PTL

-----------------------------------------------------------------------------
(* One tick for a bar, in its window, as long as no request outlives its bar *)

\* The calls that end.
LEMMA CallEndsCounted ==
    ASSUME TInv, ~LateAnswers, NEW c \in Callers, UNCHANGED <<now, restarts>>,
           \/ call[c].at = "answered" /\ Apply(c)
           \/ call[c].at = "asked" /\ Miss(c)
    PROVE  TicksCounted' /\ TickInOwnWindow'
  <1>1. CASE call[c].at = "asked" /\ Miss(c)
    BY <1>1 DEF Miss, TInv, TicksCounted, TickInOwnWindow
  <1>2. CASE call[c].at = "answered" /\ Apply(c)
    <2>1. PICK k \in CallType : k = call[c]
      BY DEF TInv, BInv, TypeOK
    <2>2. Fits(k) /\ k.at = "answered"
      BY <1>2, <2>1 DEF TInv, BInv, CallsFit, Idle
    <2>3. now \in Times /\ k.since \in Times /\ k.since <= now /\ k.bar \in Bars /\ k.bar \in Nat
      BY <2>2 DEF TInv, BInv, TypeOK, Fits, Bars
    <2>4. Bar(k.since) = Bar(now) /\ k.bar = Bar(now) /\ Bar(now) \in Nat
      BY <2>2, <2>3, TimesOf DEF Fits
    <2>5. k.inWin => InWindow(now)
      <3>1. k.inWin => InWindow(k.since)
        BY <2>2 DEF Fits
      <3>2. k.since \in Nat /\ now \in Nat /\ Bar(now) \in Nat
            /\ (InWindow(k.since) => k.since = 2 * Bar(now) + 1)
            /\ (now = 2 * Bar(now) \/ now = 2 * Bar(now) + 1)
            /\ (now = 2 * Bar(now) + 1 => InWindow(now))
        BY <2>3, <2>4, TimesOf
      <3> QED
        BY <2>3, <3>1, <3>2
    <2>6. PICK bar \in Bars : bar = k.bar
      BY <2>3
    <2>7. /\ lastBar' = bar
          /\ fired' = IF k.inWin /\ bar # lastBar THEN [fired EXCEPT ![bar] = @ + 1] ELSE fired
          /\ misplaced' = IF k.inWin /\ bar # lastBar /\ ~(InWindow(now) /\ Bar(now) = bar)
                          THEN misplaced \cup {bar} ELSE misplaced
      BY <1>2, <2>1, <2>6 DEF Apply
    <2>8. TickInOwnWindow'
      BY <2>4, <2>5, <2>6, <2>7 DEF TInv, TickInOwnWindow
    <2>9. TicksCounted'
      <3>1. fired \in [Bars -> Nat] /\ restarts \in Nat /\ lastBar \in Nat /\ lastBar <= Bar(now)
        BY RestartAssumption DEF TInv, BInv, TypeOK, NotedHasCause, Bars
      <3>2. SUFFICES ASSUME NEW b \in Bars
                     PROVE  fired'[b] <= restarts + (IF b = bar \/ b < Bar(now) THEN 1 ELSE 0)
        BY <2>7 DEF TicksCounted
      <3>3. fired[b] <= restarts + (IF b = lastBar \/ b < Bar(now) THEN 1 ELSE 0) /\ fired[b] \in Nat
        BY <3>1 DEF TInv, TicksCounted
      <3>4. CASE b # bar
        <4>1. fired'[b] = fired[b]
          BY <2>7, <3>1, <3>4
        <4>2. b = lastBar => b < Bar(now)
          BY <2>4, <2>6, <3>1, <3>4 DEF Bars
        <4> QED
          BY <3>3, <3>4, <4>1, <4>2
      <3>5. CASE b = bar /\ bar = lastBar
        BY <2>7, <3>3, <3>5
      <3>6. CASE b = bar /\ bar # lastBar
        <4>1. fired'[b] = fired[b] \/ fired'[b] = fired[b] + 1
          BY <2>7, <3>1, <3>6
        <4>2. fired[b] <= restarts
          BY <2>4, <2>6, <3>1, <3>3, <3>6
        <4> QED
          BY <3>1, <3>3, <3>6, <4>1, <4>2
      <3> QED
        BY <3>4, <3>5, <3>6
    <2> QED
      BY <2>8, <2>9
  <1> QED
    BY <1>1, <1>2

\* Every step.
LEMMA TicksKeep ==
    ASSUME ~LateAnswers, TInv, [Next]_vars
    PROVE  TicksCounted' /\ TickInOwnWindow'
  <1>1. ASSUME UNCHANGED <<now, restarts, lastBar, fired, misplaced>>
        PROVE  TicksCounted' /\ TickInOwnWindow'
    BY <1>1 DEF TInv, TicksCounted, TickInOwnWindow
  <1>2. CASE Advance
    <2>1. /\ now \in Times /\ now + 1 \in Times /\ now' = now + 1
          /\ UNCHANGED <<restarts, lastBar, fired, misplaced>>
      BY <1>2 DEF TInv, BInv, TypeOK, Advance, feedVars
    <2>2. Bar(now) <= Bar(now + 1) /\ Bar(now) \in Nat /\ Bar(now + 1) \in Nat
      BY <2>1, TimesOf
    <2>3. fired \in [Bars -> Nat] /\ restarts \in Nat
      BY RestartAssumption DEF TInv, BInv, TypeOK
    <2>4. TicksCounted'
      <3>1. SUFFICES ASSUME NEW b \in Bars
                     PROVE  fired[b] <= restarts + (IF b = lastBar \/ b < Bar(now + 1) THEN 1 ELSE 0)
        BY <2>1 DEF TicksCounted
      <3>2. fired[b] <= restarts + (IF b = lastBar \/ b < Bar(now) THEN 1 ELSE 0) /\ fired[b] \in Nat
        BY <2>3 DEF TInv, TicksCounted
      <3>3. b < Bar(now) => b < Bar(now + 1)
        BY <2>2 DEF Bars
      <3> QED
        BY <2>3, <3>2, <3>3
    <2> QED
      BY <2>1, <2>4 DEF TInv, TickInOwnWindow
  <1>3. CASE Restart
    <2>1. fired' = fired /\ restarts' = restarts + 1 /\ misplaced' = misplaced
      BY <1>3 DEF Restart
    <2>2. fired \in [Bars -> Nat] /\ restarts \in Nat
      BY RestartAssumption DEF TInv, BInv, TypeOK
    <2>3. \A b \in Bars : fired[b] <= restarts + 1
      BY <2>2 DEF TInv, TicksCounted
    <2>4. \A b \in Bars : \A n \in {0, 1} : fired[b] <= restarts + 1 + n
      BY <2>2, <2>3
    <2> QED
      BY <2>1, <2>4 DEF TInv, TicksCounted, TickInOwnWindow
  <1>4. CASE \E v \in Viewers : ViewerDone(v)
    BY <1>4, CallEndsCounted DEF ViewerDone, Callers
  <1>5. CASE LoopDone \/ LoopRaise
    BY <1>5, CallEndsCounted DEF LoopDone, LoopRaise, Callers
  <1>6. CASE \E c \in Callers : Answer(c)
    BY <1>1, <1>6 DEF Answer, tickHist
  <1>7. CASE \E v \in Viewers : ViewerAsk(v)
    BY <1>1, <1>7 DEF ViewerAsk, tickHist
  <1>8. CASE \E t \in tasks : RunTick(t)
    BY <1>1, <1>8 DEF RunTick, tickHist
  <1>9. CASE Market
    BY <1>1, <1>9 DEF Market, feedVars, tickHist
  <1>10. CASE TopHeld \/ TopFlat
    BY <1>1, <1>10 DEF TopHeld, TopFlat, tickHist
  <1>11. CASE CheckPrice
    BY <1>1, <1>11 DEF CheckPrice, feedVars, tickHist
  <1>12. CASE NoPrice
    BY <1>1, <1>12 DEF NoPrice, feedVars, tickHist
  <1>13. CASE Executed
    BY <1>1, <1>13 DEF Executed, feedVars, tickHist
  <1>14. CASE UNCHANGED vars
    BY <1>1, <1>14 DEF vars, feedVars, tickHist
  <1> QED
    BY <1>2, <1>3, <1>4, <1>5, <1>6, <1>7, <1>8, <1>9, <1>10, <1>11, <1>12, <1>13, <1>14 DEF Next

LEMMA TicksInit == Init => TicksCounted /\ TickInOwnWindow
  <1> SUFFICES ASSUME Init PROVE TicksCounted
    BY DEF Init, TickInOwnWindow
  <1>1. \A b \in Bars : \A n \in {0, 1} : fired[b] <= restarts + n
    BY DEF Init
  <1> QED
    BY <1>1 DEF TicksCounted

LEMMA OncePerBar == TInv => OneTickPerBar /\ TickInOwnWindow
  <1> SUFFICES ASSUME TInv PROVE OneTickPerBar
    BY DEF TInv
  <1>1. fired \in [Bars -> Nat] /\ restarts \in Nat
    BY RestartAssumption DEF TInv, BInv, TypeOK
  <1>2. SUFFICES ASSUME NEW b \in Bars PROVE fired[b] <= 1 + restarts
    BY DEF OneTickPerBar
  <1>3. fired[b] <= restarts + (IF b = lastBar \/ b < Bar(now) THEN 1 ELSE 0) /\ fired[b] \in Nat
    BY <1>1 DEF TInv, TicksCounted
  <1> QED
    BY <1>1, <1>3

\* As long as no request outlives its bar, a process fires one tick for a bar at most,
\* and in the window of that bar, however many dashboards ask, whatever fails.
THEOREM OnceInWindow == ~LateAnswers => (Spec => [](OneTickPerBar /\ TickInOwnWindow))
  <1> SUFFICES ASSUME ~LateAnswers PROVE Spec => [](OneTickPerBar /\ TickInOwnWindow)
    OBVIOUS
  <1>1. Init => TInv
    BY InitKeeps, TicksInit DEF TInv
  <1>2. TInv /\ [Next]_vars => TInv'
    BY BarsStep, TicksKeep DEF TInv
  <1> QED
    BY <1>1, <1>2, OncePerBar, PTL DEF Spec

-----------------------------------------------------------------------------
(* No position unchecked for two bodies in a row, as long as requests and  *)
(* prices come                                                             *)

\* A step that leaves the watch alone, and the loop awake and asking for nothing new.
LEMMA WatchStays ==
    ASSUME UInv, UNCHANGED <<now, held, looked, exposed, watched, unwatched>>,
           unwatched > 0 => pc' # "sleep" \/ (pc' = pc /\ wake' = wake),
           (unwatched > 0 /\ ~InWindow(now)) =>
                call'[loop] = Idle \/ (call[loop] # Idle /\ call'[loop].since = call[loop].since)
    PROVE  Exposed' /\ LookIsWatch' /\ AboutToLook' /\ UnwatchedAtMostOnce'
  <1>1. Exposed' /\ LookIsWatch' /\ UnwatchedAtMostOnce'
    BY DEF UInv, Exposed, LookIsWatch, UnwatchedAtMostOnce
  <1>2. AboutToLook'
    BY DEF UInv, AboutToLook
  <1> QED
    BY <1>1, <1>2

\* The clock.
LEMMA WatchAdvance ==
    ASSUME UInv, Advance
    PROVE  Exposed' /\ LookIsWatch' /\ AboutToLook' /\ UnwatchedAtMostOnce'
  <1>1. /\ now \in Times /\ now \in Nat /\ now + 1 \in Times /\ now' = now + 1
        /\ unwatched \in Nat /\ wake \in Nat /\ looked \in Nat /\ looked <= now
    BY TimesOf DEF UInv, BInv, TypeOK, ActedInTime, Advance
  <1>2. UNCHANGED <<held, pc, wake, looked, call>>
    BY DEF Advance, feedVars, engineVars, loopVars
  <1>3. LookIsWatch'
    BY <1>1, <1>2 DEF LookIsWatch
  <1>4. PICK k : k = call[loop]
    OBVIOUS
  <1>5. k = Idle \/ (k.at # "idle" /\ k.since = now)
    BY <1>4 DEF UInv, BInv, CallsFit, Callers, Fits, Advance
  <1>6. CASE InWindow(now)
    <2>1. exposed' = held /\ unwatched' = unwatched /\ ~InWindow(now + 1)
      BY <1>1, <1>6, NextPhase DEF Advance
    <2>2. Exposed' /\ UnwatchedAtMostOnce'
      BY <1>2, <2>1 DEF UInv, Exposed, UnwatchedAtMostOnce
    <2>3. unwatched > 0 => pc # "sleep"
      BY <1>1 DEF UInv, AboutToLook, Advance
    <2>4. k = Idle \/ k.since # now + 1
      BY <1>1, <1>5
    <2> QED
      BY <1>1, <1>2, <1>3, <1>4, <2>1, <2>2, <2>3, <2>4 DEF AboutToLook
  <1>7. CASE ~InWindow(now)
    <2>1. exposed' = exposed /\ InWindow(now + 1)
          /\ unwatched' = IF exposed /\ ~watched THEN unwatched + 1 ELSE 0
      BY <1>1, <1>7, NextPhase DEF Advance
    <2>2. Exposed'
      BY <1>2, <2>1 DEF UInv, Exposed
    <2>3. ~watched => ~(unwatched > 0)
      <3> SUFFICES ASSUME ~watched, unwatched > 0 PROVE FALSE
        OBVIOUS
      <3>1. pc # "sleep" /\ (k = Idle \/ k.since # now)
        BY <1>4, <1>7 DEF UInv, AboutToLook
      <3>2. pc \notin {"flat_fn", "held_fn"}
        BY <1>4, <1>5, <3>1 DEF UInv, BInv, LoopWaits
      <3>3. looked # now
        BY DEF UInv, LookIsWatch
      <3> QED
        BY <1>7, <3>1, <3>2, <3>3 DEF UInv, BInv, TypeOK, Advance, Yielded
    <2>4. UnwatchedAtMostOnce'
      BY <1>1, <2>1, <2>3 DEF UnwatchedAtMostOnce
    <2>5. pc = "sleep" => wake = now + 1
      BY <1>1, <1>7 DEF UInv, BInv, SleepsToWindow, Advance
    <2> QED
      BY <1>1, <1>2, <1>3, <2>1, <2>2, <2>4, <2>5 DEF AboutToLook
  <1> QED
    BY <1>6, <1>7

\* Every step.
LEMMA WatchKeeps ==
    ASSUME ~Failures, ~Outages, UInv, [Next]_vars
    PROVE  Exposed' /\ LookIsWatch' /\ AboutToLook' /\ UnwatchedAtMostOnce'
  <1> DEFINE Kept == Exposed' /\ LookIsWatch' /\ AboutToLook' /\ UnwatchedAtMostOnce'
  <1>1. loop \in Callers /\ \A v \in Viewers : v \in Callers /\ v # loop
    BY LoopAssumption DEF Callers
  <1>2. unwatched \in Nat /\ (unwatched > 0 => held /\ exposed) /\ now \in Times /\ 2 <= now /\ now \in Nat
    BY TimesOf DEF UInv, BInv, TypeOK, Exposed, Times
  <1>3. CASE Advance
    BY <1>3, WatchAdvance
  <1>4. CASE Market
    BY <1>4, WatchStays DEF Market, feedVars, loopVars, watchHist
  <1>5. ASSUME NEW c \in Callers, Answer(c) PROVE Kept
    <2>1. UNCHANGED <<now, held, looked, exposed, watched, unwatched, pc, wake>>
      BY <1>5 DEF Answer, engineVars, loopVars, watchHist
    <2>2. PICK k \in CallType : k = call[loop]
      BY <1>1 DEF UInv, BInv, TypeOK
    <2>3. call'[loop] = Idle \/ (k # Idle /\ call'[loop].since = k.since)
      <3>1. CASE c # loop
        BY <1>1, <1>5, <2>2, <3>1 DEF Answer, UInv, BInv, TypeOK
      <3>2. CASE c = loop
        <4>1. k # Idle
          BY <1>5, <2>2, <3>2 DEF Answer, Idle
        <4>2. call'[loop] = [k EXCEPT !.at = "answered", !.bar = Bar(now)]
          BY <1>1, <1>5, <2>2, <3>2 DEF Answer, UInv, BInv, TypeOK
        <4>3. call'[loop].since = k.since
          BY <4>2 DEF CallType
        <4> QED
          BY <4>1, <4>3
      <3> QED
        BY <3>1, <3>2
    <2> QED
      BY <2>1, <2>2, <2>3, WatchStays
  <1>6. ASSUME NEW v \in Viewers, ViewerAsk(v) \/ ViewerDone(v) PROVE Kept
    <2>1. UNCHANGED <<now, held, looked, exposed, watched, unwatched, pc, wake>>
      BY <1>6 DEF ViewerAsk, ViewerDone, engineVars, loopVars, watchHist
    <2>2. call'[loop] = call[loop]
      BY <1>1, <1>6 DEF ViewerAsk, ViewerDone, Ask, Apply, Miss, UInv, BInv, TypeOK
    <2> QED
      BY <2>1, <2>2, WatchStays
  <1>7. ASSUME NEW t \in tasks, RunTick(t) PROVE Kept
    <2>1. UNCHANGED <<now, looked, watched, call, pc, wake>>
      BY <1>7 DEF RunTick, loopVars
    <2>2. PICK exits \in BOOLEAN, enters \in BOOLEAN :
            /\ held' = ((held /\ ~exits) \/ enters)
            /\ exposed' = (exposed /\ held /\ ~exits)
            /\ unwatched' = IF exits THEN 0 ELSE unwatched
      BY <1>7 DEF RunTick
    <2>3. Exposed'
      <3>1. exposed' => held'
        BY <2>2
      <3>2. CASE exits
        BY <2>2, <3>1, <3>2 DEF Exposed
      <3>3. CASE ~exits
        <4>1. unwatched' = unwatched /\ (exposed /\ held => exposed')
          BY <2>2, <3>3
        <4> QED
          BY <1>2, <3>1, <4>1 DEF Exposed
      <3> QED
        BY <3>2, <3>3
    <2>4. UnwatchedAtMostOnce'
      BY <2>2 DEF UInv, UnwatchedAtMostOnce
    <2>5. LookIsWatch' /\ AboutToLook'
      BY <2>1, <2>2 DEF UInv, LookIsWatch, AboutToLook
    <2> QED
      BY <2>3, <2>4, <2>5
  <1>8. CASE TopHeld
    <2>1. UNCHANGED <<now, held, looked, exposed, watched, unwatched>> /\ pc' # "sleep"
      BY <1>8 DEF TopHeld, GoTo, engineVars, watchHist
    <2>2. ~InWindow(now) => call' = call
      BY <1>8 DEF TopHeld
    <2>3. call[loop] = Idle
      BY <1>8, AtTopIdle DEF TopHeld, UInv
    <2> QED
      BY <2>1, <2>2, <2>3, WatchStays
  <1>9. CASE TopFlat
    <2>1. UNCHANGED <<now, held, looked, exposed, watched, unwatched>> /\ ~held
      BY <1>9 DEF TopFlat, engineVars, watchHist
    <2> QED
      BY <1>2, <2>1, WatchStays
  <1>10. CASE LoopDone \/ LoopRaise
    <2>1. /\ UNCHANGED <<now, held, looked, exposed, watched, unwatched>>
          /\ call' = [call EXCEPT ![loop] = Idle]
          /\ held => pc' # "sleep"
      BY <1>10 DEF LoopDone, LoopRaise, Miss, Apply, GoTo, engineVars, watchHist
    <2>2. call'[loop] = Idle
      BY <1>1, <2>1 DEF UInv, BInv, TypeOK
    <2> QED
      BY <1>2, <2>1, <2>2, WatchStays
  <1>11. CASE CheckPrice
    <2>1. /\ UNCHANGED <<now, call>> /\ watched' = TRUE /\ pc' # "sleep" /\ pc = "price"
          /\ \/ UNCHANGED <<held, exposed, unwatched>>
             \/ held' = FALSE /\ exposed' = FALSE /\ unwatched' = 0
      BY <1>11 DEF CheckPrice, GoTo, feedVars
    <2>2. Exposed' /\ UnwatchedAtMostOnce'
      BY <2>1 DEF UInv, Exposed, UnwatchedAtMostOnce
    <2>3. LookIsWatch' /\ AboutToLook'
      BY <2>1 DEF UInv, LookIsWatch, AboutToLook
    <2> QED
      BY <2>2, <2>3
  <1>12. CASE NoPrice
    BY <1>12 DEF NoPrice
  <1>13. CASE Executed
    BY <1>13, WatchStays DEF Executed, GoTo, feedVars, engineVars, watchHist
  <1>14. CASE Restart
    <2>1. /\ UNCHANGED <<now, held, exposed, watched, unwatched>> /\ looked' = 0
          /\ pc' = "top" /\ call' = [c \in Callers |-> Idle]
      BY <1>14 DEF Restart, GoTo, engineVars, watchHist
    <2>2. Exposed' /\ UnwatchedAtMostOnce'
      BY <2>1 DEF UInv, Exposed, UnwatchedAtMostOnce
    <2>3. LookIsWatch' /\ AboutToLook'
      BY <1>1, <1>2, <2>1 DEF LookIsWatch, AboutToLook
    <2> QED
      BY <2>2, <2>3
  <1>15. CASE UNCHANGED vars
    BY <1>15, WatchStays DEF vars, feedVars, engineVars, loopVars, watchHist
  <1> QED
    BY <1>3, <1>4, <1>5, <1>6, <1>7, <1>8, <1>9, <1>10, <1>11, <1>12, <1>13, <1>14, <1>15 DEF Next

LEMMA WatchInit == Init => Exposed /\ LookIsWatch /\ AboutToLook /\ UnwatchedAtMostOnce
  BY DEF Init, Exposed, LookIsWatch, AboutToLook, UnwatchedAtMostOnce

\* As long as requests are answered and prices come, no position is left for two bodies
\* in a row without a look at its stop, whatever restarts and however many dashboards.
THEOREM WatchedInTime == (~Failures /\ ~Outages) => (Spec => []UnwatchedAtMostOnce)
  <1> SUFFICES ASSUME ~Failures, ~Outages PROVE Spec => []UnwatchedAtMostOnce
    OBVIOUS
  <1>1. Init => UInv
    BY InitKeeps, WatchInit DEF UInv
  <1>2. UInv /\ [Next]_vars => UInv'
    BY BarsStep, WatchKeeps DEF UInv
  <1>3. UInv => UnwatchedAtMostOnce
    BY DEF UInv
  <1> QED
    BY <1>1, <1>2, <1>3, PTL DEF Spec

=============================================================================
