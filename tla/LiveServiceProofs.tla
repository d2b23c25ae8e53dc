-------------------------- MODULE LiveServiceProofs --------------------------
(***************************************************************************)
(* Proofs about LiveSync for every number of trades, failing requests and  *)
(* restarts, with and without overlapping jobs: positions never pile up on *)
(* the exchange, because only the tick's job carries entries and its order *)
(* leaves only while the exchange is flat.  And about AccessPass, which    *)
(* shares nothing with it, for every number of passes and browsers and all *)
(* lifetimes and limits: no visit takes back what an administrator         *)
(* granted, and a browser that logged in is let in while its pass is       *)
(* active, because its cookie outlasts whatever visits can make of the row.*)
(* And about the other services of Services, for every number of           *)
(* requests, markets, trades and restarts: the price stream recovers and   *)
(* pauses are kept, a scan of a list that moves misses no more than the    *)
(* moves explain, and answers of the exchange reach their own trade.       *)
(***************************************************************************)
EXTENDS LiveSync, Services, SequenceTheorems, FiniteSetTheorems, WellFoundedInduction, TLAPS

EntryLabels == {"open_look", "open_order", "cancel", "tp", "sl"}
CloseLabels == {"close_look", "close_order", "close_cancel"}

CloseEvent == [kind : {"close"}, trade : Trade]

\* The request a job is at belongs to the event at the head of its list.
Fits(r) ==
    IF r.events = <<>> THEN r.at = "idle"
    ELSE IF Head(r.events).kind = "entry" THEN r.at \in EntryLabels
    ELSE r.at \in CloseLabels

JobsFit == \A j \in Runners : Fits(job[j])

\* The loop's price tick only ever closes.
LoopCloses == job["loop"].events \in Seq(CloseEvent)

\* The entry order leaves after a look that found nothing; nobody else opens.
OrderFromFlat == job["tick"].at = "open_order" => amt = 0

LInv == TypeOK /\ JobsFit /\ LoopCloses /\ OrderFromFlat /\ NeverDoubled

-----------------------------------------------------------------------------
(* Events and jobs                                                         *)

\* Events are events, and a close is one the loop may carry.
LEMMA EventTypes ==
    ASSUME NEW t \in Trade
    PROVE  /\ Entry(t) \in Event /\ Entry(t).kind = "entry"
           /\ Close(t) \in Event /\ Close(t) \in CloseEvent /\ Close(t).kind = "close"
  BY DEF Entry, Close, Event, CloseEvent

\* The next trade to enter is one, as long as there is room.
LEMMA NextTrade ==
    ASSUME TypeOK, entered < MaxTrade
    PROVE  entered + 1 \in Trade /\ entered + 1 \in 0..MaxTrade
  BY LiveBoundAssumption DEF TypeOK, Trade

\* An idle job satisfies what is asked of every job.
LEMMA NoJobFits ==
    /\ NoJob \in JobType /\ Fits(NoJob) /\ NoJob.events \in Seq(CloseEvent)
    /\ NoJob.at = "idle"
  BY EmptySeq DEF NoJob, JobType, Fits, Labels, Attempts

\* A job that starts on a list of events is at the first request of its head.
LEMMA JobForFits ==
    ASSUME NEW events \in Seq(Event), NEW a \in Int, NEW alone \in BOOLEAN
    PROVE  /\ JobFor(events, a, alone) \in JobType
           /\ Fits(JobFor(events, a, alone))
           /\ JobFor(events, a, alone).events = events
           /\ JobFor(events, a, alone).at # "open_order"
  <1>1. CASE events = <<>>
    BY <1>1, NoJobFits DEF JobFor, NoJob
  <1>2. CASE events # <<>>
    <2>1. JobFor(events, a, alone) =
            [events |-> events,
             at     |-> IF Head(events).kind = "entry" THEN "open_look" ELSE "close_look",
             read   |-> 0, try |-> 1, from |-> a, clean |-> alone]
      BY <1>2 DEF JobFor
    <2> QED
      BY <1>2, <2>1 DEF JobType, Fits, Labels, Attempts, EntryLabels, CloseLabels
  <1> QED
    BY <1>1, <1>2

\* A reduce-only order takes the whole position or nothing of a unit position.
LEMMA ReducedUnit ==
    ASSUME NEW p \in -1..1, NEW n \in Int
    PROVE  Reduced(p, n) \in {0, p}
  BY DEF Reduced, Sign

-----------------------------------------------------------------------------
(* What the steps of a job do to the two jobs                              *)

\* There are two runners.
LEMMA OtherRunner ==
    ASSUME NEW j \in Runners
    PROVE  Other(j) \in Runners /\ Other(j) # j /\ Runners = {j, Other(j)}
  BY DEF Other, Runners

\* Whether a runner is busy is a Boolean.
LEMMA BusyOrNot ==
    ASSUME NEW j
    PROVE  (~Busy(j)) \in BOOLEAN
  <1>1. CASE Busy(j)
    <2>1. (~Busy(j)) = FALSE
      BY <1>1
    <2> QED
      BY <2>1
  <1>2. CASE ~Busy(j)
    <2>1. (~Busy(j)) = TRUE
      BY <1>2
    <2> QED
      BY <2>1
  <1> QED
    BY <1>1, <1>2

\* Going on to a request changes nothing else of the two jobs.
LEMMA GoesMoves ==
    ASSUME TypeOK, NEW j \in Runners, NEW at \in Labels, Goes(j, at)
    PROVE  /\ job' \in [Runners -> JobType]
           /\ job'[Other(j)] = job[Other(j)]
           /\ job'[j].events = job[j].events /\ job'[j].at = at
           /\ job'[j].from = job[j].from /\ job'[j].read = job[j].read
           /\ job'[j].clean = (job[j].clean /\ faults' = faults)
  <1>1. job[j] \in JobType
    BY DEF TypeOK
  <1>2. job' = [job EXCEPT ![j] = [job[j] EXCEPT !.at = at,
                                   !.clean = job[j].clean /\ faults' = faults]]
    BY DEF Goes
  <1>3. [job[j] EXCEPT !.at = at, !.clean = job[j].clean /\ faults' = faults] \in JobType
    BY <1>1 DEF JobType
  <1>4. job'[j] = [job[j] EXCEPT !.at = at, !.clean = job[j].clean /\ faults' = faults]
    BY <1>2 DEF TypeOK
  <1>5. job' \in [Runners -> JobType] /\ job'[Other(j)] = job[Other(j)]
    BY <1>2, <1>3, OtherRunner DEF TypeOK
  <1> QED
    BY <1>1, <1>4, <1>5 DEF JobType

\* A finished event is dropped and the job starts on the rest of its list.
LEMMA DoneMoves ==
    ASSUME TypeOK, NEW j \in Runners, job[j].events # <<>>, NEW a \in Int, Done(j, a)
    PROVE  /\ job' \in [Runners -> JobType]
           /\ job'[Other(j)] = job[Other(j)]
           /\ job'[j] = JobFor(Tail(job[j].events), a, ~Busy(Other(j)))
           /\ job'[j].events = Tail(job[j].events)
           /\ Fits(job'[j]) /\ job'[j].at # "open_order"
  <1>1. job[j].events \in Seq(Event)
    BY DEF TypeOK, JobType
  <1>2. Tail(job[j].events) \in Seq(Event)
    BY <1>1, HeadTailProperties
  <1>3. (~Busy(Other(j))) \in BOOLEAN
    BY BusyOrNot
  <1>4. job' = [job EXCEPT ![j] = JobFor(Tail(job[j].events), a, ~Busy(Other(j)))]
    BY DEF Done
  <1>5. job'[j] = JobFor(Tail(job[j].events), a, ~Busy(Other(j)))
    BY <1>4 DEF TypeOK
  <1>6. job'[j] \in JobType /\ Fits(job'[j]) /\ job'[j].at # "open_order"
        /\ job'[j].events = Tail(job[j].events)
    <2> DEFINE new == JobFor(Tail(job[j].events), a, ~Busy(Other(j)))
    <2>1. /\ new \in JobType /\ Fits(new) /\ new.at # "open_order"
          /\ new.events = Tail(job[j].events)
      BY <1>2, <1>3, JobForFits
    <2> QED
      BY <1>5, <2>1
  <1> QED
    BY <1>4, <1>5, <1>6, OtherRunner DEF TypeOK

\* A failed attempt that is not the last one goes back to the look.
LEMMA RetryMoves ==
    ASSUME TypeOK, NEW j \in Runners, job[j].try # Attempts, NEW a \in Int, Retry(j, a)
    PROVE  /\ job' \in [Runners -> JobType]
           /\ job'[Other(j)] = job[Other(j)]
           /\ job'[j].events = job[j].events /\ job'[j].at = "close_look"
           /\ job'[j].clean = (job[j].clean /\ faults' = faults)
  <1> DEFINE next == [job[j] EXCEPT !.at = "close_look", !.try = job[j].try + 1,
                                   !.clean = job[j].clean /\ faults' = faults]
  <1>1. job[j] \in JobType
    BY DEF TypeOK
  <1>2. job' = [job EXCEPT ![j] = next]
    BY DEF Retry
  <1>3. next \in JobType
    <2>1. job[j].try + 1 \in 1..Attempts
      BY <1>1 DEF JobType, Attempts
    <2>2. "close_look" \in Labels /\ (job[j].clean /\ faults' = faults) \in BOOLEAN
      BY <1>1 DEF JobType, Labels
    <2> QED
      BY <1>1, <2>1, <2>2 DEF JobType
  <1>4. job'[j] = next
    BY <1>2 DEF TypeOK
  <1>5. job' \in [Runners -> JobType] /\ job'[Other(j)] = job[Other(j)]
    BY <1>2, <1>3, OtherRunner DEF TypeOK
  <1> QED
    BY <1>1, <1>4, <1>5 DEF JobType

\* A job that begins replaces an idle one; the other one is only disturbed.
LEMMA BeginMoves ==
    ASSUME TypeOK, NEW j \in Runners, NEW events \in Seq(Event), Begin(j, events)
    PROVE  /\ job' \in [Runners -> JobType]
           /\ job'[j] = JobFor(events, amt, ~Busy(Other(j)))
           /\ job'[j].events = events /\ Fits(job'[j]) /\ job'[j].at # "open_order"
           /\ job'[Other(j)].events = job[Other(j)].events
           /\ job'[Other(j)].at = job[Other(j)].at
           /\ job'[Other(j)].clean = (job[Other(j)].clean /\ ~Busy(Other(j)))
           /\ job[j].at = "idle"
           /\ overlapped' \in BOOLEAN
  <1> DEFINE new == JobFor(events, amt, ~Busy(Other(j)))
             old == [job[Other(j)] EXCEPT !.clean = job[Other(j)].clean /\ ~Busy(Other(j))]
  <1>1. job[Other(j)] \in JobType /\ Other(j) \in Runners /\ Other(j) # j
    BY OtherRunner DEF TypeOK
  <1>2. job' = [job EXCEPT ![j] = new, ![Other(j)] = old]
    BY <1>1 DEF Begin, TypeOK
  <1>3. amt \in Int /\ (~Busy(Other(j))) \in BOOLEAN
    BY BusyOrNot DEF TypeOK
  <1>4. new \in JobType /\ new.events = events /\ Fits(new) /\ new.at # "open_order"
    BY <1>3, JobForFits
  <1>5. old \in JobType /\ old.events = job[Other(j)].events
        /\ old.at = job[Other(j)].at
        /\ old.clean = (job[Other(j)].clean /\ ~Busy(Other(j)))
    BY <1>1 DEF JobType
  <1>6. job'[j] = new /\ job'[Other(j)] = old
    BY <1>1, <1>2 DEF TypeOK
  <1>7. job' \in [Runners -> JobType]
    BY <1>1, <1>2, <1>4, <1>5 DEF TypeOK
  <1>8. overlapped' \in BOOLEAN /\ job[j].at = "idle"
    BY DEF Begin, Busy, TypeOK
  <1> QED
    BY <1>4, <1>5, <1>6, <1>7, <1>8

-----------------------------------------------------------------------------
(* The parts of the invariant that every step keeps in the same way        *)

\* The request a job is at tells the kind of its event.
LEMMA AtTellsEvent ==
    ASSUME TypeOK, JobsFit, NEW j \in Runners, job[j].at \in EntryLabels \cup CloseLabels
    PROVE  /\ job[j].events # <<>>
           /\ Current(j) \in Event
           /\ job[j].at \in EntryLabels => Current(j).kind = "entry"
           /\ job[j].at \in CloseLabels => Current(j).kind = "close"
           /\ Current(j).trade \in Trade
  <1>1. job[j].events \in Seq(Event) /\ Fits(job[j])
    BY DEF TypeOK, JobType, JobsFit
  <1>2. job[j].events # <<>>
    BY <1>1 DEF Fits, EntryLabels, CloseLabels
  <1>3. Current(j) \in Event
    BY <1>1, <1>2, HeadTailProperties DEF Current
  <1> QED
    BY <1>1, <1>2, <1>3 DEF Fits, Current, Event, EntryLabels, CloseLabels

\* The loop is never at a request of an entry.
LEMMA LoopHasNoEntry ==
    ASSUME LInv
    PROVE  job["loop"].at \notin EntryLabels
  <1> SUFFICES ASSUME job["loop"].at \in EntryLabels PROVE FALSE
    OBVIOUS
  <1>1. job["loop"].events # <<>> /\ Current("loop").kind = "entry"
    BY AtTellsEvent DEF LInv, Runners
  <1>2. Head(job["loop"].events) \in CloseEvent
    BY <1>1, HeadTailProperties DEF LInv, LoopCloses
  <1> QED
    BY <1>1, <1>2 DEF Current, CloseEvent

\* A job goes on with its list or drops the head of it.
LEMMA ListsKept ==
    ASSUME LInv, NEW j \in Runners,
           job[j].events # <<>>,
           job'[j].events = job[j].events \/ job'[j].events = Tail(job[j].events),
           Fits(job'[j]), job'[Other(j)] = job[Other(j)]
    PROVE  JobsFit' /\ LoopCloses'
  <1>1. JobsFit'
    <2>1. Fits(job'[Other(j)])
      BY OtherRunner DEF LInv, JobsFit
    <2> QED
      BY <2>1, OtherRunner DEF JobsFit
  <1>2. LoopCloses'
    <2>1. CASE j = "loop"
      <3>1. Tail(job["loop"].events) \in Seq(CloseEvent)
        BY <2>1, HeadTailProperties DEF LInv, LoopCloses
      <3> QED
        BY <2>1, <3>1 DEF LInv, LoopCloses
    <2>2. CASE j = "tick"
      BY <2>2 DEF LInv, LoopCloses, Other
    <2> QED
      BY <2>1, <2>2 DEF Runners
  <1> QED
    BY <1>1, <1>2

\* No step but the look at the exchange brings a job to its entry order.
LEMMA FlatKept ==
    ASSUME LInv, amt' \in {0, amt},
           job'["tick"].at = "open_order" => job["tick"].at = "open_order"
    PROVE  OrderFromFlat' /\ NeverDoubled' /\ amt' \in Int
  BY DEF LInv, OrderFromFlat, NeverDoubled

\* A tick or a price starts a job.
LEMMA BeginKeeps ==
    ASSUME LInv, NEW j \in Runners, NEW events \in Seq(Event), Begin(j, events),
           j = "loop" => events \in Seq(CloseEvent), EngineOnly
    PROVE  /\ job' \in [Runners -> JobType] /\ overlapped' \in BOOLEAN
           /\ JobsFit' /\ LoopCloses' /\ OrderFromFlat' /\ NeverDoubled'
  <1>1. /\ job' \in [Runners -> JobType] /\ overlapped' \in BOOLEAN
        /\ job'[j].events = events /\ Fits(job'[j]) /\ job'[j].at # "open_order"
        /\ job'[Other(j)].events = job[Other(j)].events
        /\ job'[Other(j)].at = job[Other(j)].at
    BY BeginMoves DEF LInv
  <1>2. JobsFit'
    <2>1. Fits(job'[Other(j)])
      BY <1>1, OtherRunner DEF LInv, JobsFit, Fits
    <2> QED
      BY <1>1, <2>1, OtherRunner DEF JobsFit
  <1>3. LoopCloses'
    BY <1>1 DEF LInv, LoopCloses, Other, Runners
  <1>4. job'["tick"].at = "open_order" => job["tick"].at = "open_order"
    BY <1>1 DEF Other, Runners
  <1>5. amt' = amt
    BY DEF EngineOnly
  <1> QED
    BY <1>1, <1>2, <1>3, <1>4, <1>5, FlatKept

-----------------------------------------------------------------------------
(* One lemma per group of actions                                          *)

\* The steps of the engine keep the invariant.
LEMMA EngineSteps ==
    ASSUME LInv, TickEnters \/ TickExits \/ TickReverses \/ LoopExits
    PROVE  LInv'
  <1>1. /\ engine \in Trade \cup {0} /\ side \in [Trade -> {1, -1}]
        /\ entered \in 0..MaxTrade /\ "tick" \in Runners /\ "loop" \in Runners
    BY DEF LInv, TypeOK, Runners
  <1>2. ASSUME TickEnters PROVE LInv'
    <2>1. entered + 1 \in Trade /\ entered + 1 \in 0..MaxTrade
      BY <1>2, NextTrade DEF TickEnters, LInv
    <2>2. <<Entry(entered + 1)>> \in Seq(Event)
      BY <2>1, EventTypes
    <2>3. side' \in [Trade -> {1, -1}]
      BY <1>1, <1>2 DEF TickEnters
    <2> QED
      BY <1>1, <1>2, <2>1, <2>2, <2>3, BeginKeeps DEF TickEnters, LInv, TypeOK, EngineOnly
  <1>3. ASSUME TickExits PROVE LInv'
    <2>1. engine \in Trade
      BY <1>1, <1>3 DEF TickExits
    <2>2. <<Close(engine)>> \in Seq(Event)
      BY <2>1, EventTypes
    <2> QED
      BY <1>1, <1>3, <2>2, BeginKeeps DEF TickExits, LInv, TypeOK, EngineOnly
  <1>4. ASSUME TickReverses PROVE LInv'
    <2>1. entered + 1 \in Trade /\ entered + 1 \in 0..MaxTrade /\ engine \in Trade
      BY <1>1, <1>4, NextTrade DEF TickReverses, LInv
    <2>2. Close(engine) \in Event /\ Entry(entered + 1) \in Event
      BY <2>1, EventTypes
    <2>3. <<Close(engine), Entry(entered + 1)>> \in Seq(Event)
      BY <2>2
    <2>4. side' \in [Trade -> {1, -1}]
      BY <1>1, <1>4 DEF TickReverses
    <2> QED
      BY <1>1, <1>4, <2>1, <2>3, <2>4, BeginKeeps DEF TickReverses, LInv, TypeOK, EngineOnly
  <1>5. ASSUME LoopExits PROVE LInv'
    <2>1. engine \in Trade
      BY <1>1, <1>5 DEF LoopExits
    <2>2. <<Close(engine)>> \in Seq(Event) /\ <<Close(engine)>> \in Seq(CloseEvent)
      BY <2>1, EventTypes
    <2> QED
      BY <1>1, <1>5, <2>2, BeginKeeps DEF LoopExits, LInv, TypeOK, EngineOnly
  <1> QED
    BY <1>2, <1>3, <1>4, <1>5

\* What a request of runner j leaves to be shown once its effect is known.
LEMMA RequestKeeps ==
    ASSUME LInv, NEW j \in Runners, NEW at, job[j].at \in EntryLabels \cup CloseLabels,
           \/ Goes(j, at) /\ at \in Labels
              /\ (at \in EntryLabels <=> job[j].at \in EntryLabels) /\ at # "idle"
           \/ Done(j, at) /\ at \in Int
           \/ job[j].try # Attempts /\ Retry(j, at) /\ at \in Int
              /\ job[j].at \in CloseLabels
    PROVE  /\ job' \in [Runners -> JobType] /\ JobsFit' /\ LoopCloses'
           /\ job'[Other(j)] = job[Other(j)]
           /\ job'[j].at = "open_order" => Goes(j, at) /\ at = "open_order"
  <1>1. TypeOK /\ JobsFit
    BY DEF LInv
  <1>2. job[j].events # <<>> /\ Fits(job[j])
    BY <1>1, AtTellsEvent DEF JobsFit
  <1>3. CASE /\ Goes(j, at) /\ at \in Labels /\ at # "idle"
             /\ at \in EntryLabels <=> job[j].at \in EntryLabels
    <2>1. /\ job' \in [Runners -> JobType] /\ job'[Other(j)] = job[Other(j)]
          /\ job'[j].events = job[j].events /\ job'[j].at = at
      BY <1>1, <1>3, GoesMoves
    <2>2. Fits(job'[j])
      BY <1>2, <1>3, <2>1 DEF Fits, Labels, EntryLabels, CloseLabels
    <2> QED
      BY <1>2, <1>3, <2>1, <2>2, ListsKept
  <1>4. CASE Done(j, at) /\ at \in Int
    <2>1. /\ job' \in [Runners -> JobType] /\ job'[Other(j)] = job[Other(j)]
          /\ job'[j].events = Tail(job[j].events)
          /\ Fits(job'[j]) /\ job'[j].at # "open_order"
      BY <1>1, <1>2, <1>4, DoneMoves
    <2> QED
      BY <1>2, <2>1, ListsKept
  <1>5. CASE job[j].try # Attempts /\ Retry(j, at) /\ at \in Int /\ job[j].at \in CloseLabels
    <2>1. /\ job' \in [Runners -> JobType] /\ job'[Other(j)] = job[Other(j)]
          /\ job'[j].events = job[j].events /\ job'[j].at = "close_look"
      BY <1>1, <1>5, RetryMoves
    <2>2. Fits(job'[j])
      BY <1>2, <1>5, <2>1 DEF Fits, EntryLabels, CloseLabels
    <2> QED
      BY <1>2, <2>1, <2>2, ListsKept
  <1> QED
    BY <1>3, <1>4, <1>5

\* Failing requests stay within their bound.
LEMMA FaultCount ==
    ASSUME TypeOK, UNCHANGED faults \/ Fails
    PROVE  faults' \in 0..MaxFaults
  BY LiveBoundAssumption DEF TypeOK, Fails

\* The steps that leave the position alone or take it to 0.
LEMMA QuietRequest ==
    ASSUME LInv, NEW j \in Runners, NEW at, job[j].at \in EntryLabels \cup CloseLabels,
           \/ Goes(j, at) /\ at \in Labels
              /\ (at \in EntryLabels <=> job[j].at \in EntryLabels)
              /\ at \notin {"idle", "open_order"}
           \/ Done(j, at) /\ at \in Int
           \/ job[j].try # Attempts /\ Retry(j, at) /\ at \in Int
              /\ job[j].at \in CloseLabels,
           UNCHANGED faults \/ Fails, orders' \subseteq Order, amt' \in {0, amt}, Untouched
    PROVE  LInv'
  <1>1. /\ job' \in [Runners -> JobType] /\ JobsFit' /\ LoopCloses'
        /\ job'[Other(j)] = job[Other(j)]
        /\ job'[j].at = "open_order" => Goes(j, at) /\ at = "open_order"
    BY RequestKeeps
  <1>2. job'["tick"].at = "open_order" => job["tick"].at = "open_order"
    <2>1. CASE j = "tick"
      <3>1. ASSUME job'["tick"].at = "open_order" PROVE FALSE
        <4>1. Goes(j, at) /\ at = "open_order" /\ job'[j].at = "open_order"
          BY <1>1, <2>1, <3>1
        <4>2. Done(j, at) => job'[j].at # "open_order"
          BY <4>1, AtTellsEvent, DoneMoves DEF LInv, Labels
        <4>3. job[j].try # Attempts /\ Retry(j, at) /\ at \in Int => job'[j].at # "open_order"
          BY RetryMoves DEF LInv
        <4> QED
          BY <4>1, <4>2, <4>3
      <3> QED
        BY <3>1
    <2>2. CASE j = "loop"
      BY <1>1, <2>2 DEF Other
    <2> QED
      BY <2>1, <2>2 DEF Runners
  <1>3. faults' \in 0..MaxFaults
    BY FaultCount DEF LInv
  <1>4. OrderFromFlat' /\ NeverDoubled' /\ amt' \in Int
    BY <1>2, FlatKept
  <1> QED
    BY <1>1, <1>3, <1>4 DEF LInv, TypeOK, Untouched

\* QuietRequest for a job that finishes its event.
LEMMA QuietDone ==
    ASSUME LInv, NEW j \in Runners, job[j].at \in EntryLabels \cup CloseLabels,
           NEW a \in Int, Done(j, a),
           UNCHANGED faults \/ Fails, orders' \subseteq Order, amt' \in {0, amt}, Untouched
    PROVE  LInv'
  BY QuietRequest

\* QuietRequest for a close that is tried again.
LEMMA QuietRetry ==
    ASSUME LInv, NEW j \in Runners, job[j].at \in CloseLabels,
           job[j].try # Attempts, NEW a \in Int, Retry(j, a),
           UNCHANGED faults \/ Fails, orders' \subseteq Order, amt' \in {0, amt}, Untouched
    PROVE  LInv'
  BY QuietRequest

\* The look before an entry keeps the invariant: it goes on to the order only when flat.
LEMMA OpenLookKeeps ==
    ASSUME LInv, NEW j \in Runners, OpenLook(j)
    PROVE  LInv'
  <1>1. job[j].at \in EntryLabels /\ amt \in Int /\ orders \subseteq Order /\ TypeOK
    BY DEF OpenLook, EntryLabels, LInv, TypeOK
  <1>2. j = "tick" /\ "tick" \in Runners
    BY <1>1, LoopHasNoEntry DEF Runners
  <1>3. ASSUME Goes(j, "open_order"), amt = 0, UNCHANGED <<faults, amt, orders>>, Untouched
        PROVE  LInv'
    <2>1. "open_order" \in Labels /\ "open_order" \in EntryLabels
      BY DEF Labels, EntryLabels
    <2>2. job' \in [Runners -> JobType] /\ JobsFit' /\ LoopCloses'
      BY <1>1, <1>3, <2>1, RequestKeeps
    <2> QED
      BY <1>3, <2>2 DEF LInv, TypeOK, OrderFromFlat, NeverDoubled, Untouched
  <1>4. ASSUME Goes(j, "cancel"), UNCHANGED faults \/ Fails, UNCHANGED <<amt, orders>>, Untouched
        PROVE  LInv'
    <2>1. "cancel" \in Labels /\ "cancel" \in EntryLabels
      BY DEF Labels, EntryLabels
    <2> QED
      BY <1>1, <1>4, <2>1, QuietRequest
  <1>5. ASSUME Done(j, amt), Fails, UNCHANGED <<amt, orders>>, Untouched
        PROVE  LInv'
    BY <1>1, <1>5, QuietRequest
  <1> QED
    BY <1>3, <1>4, <1>5 DEF OpenLook

\* The entry order keeps the invariant: it starts from a flat exchange.
LEMMA OpenOrderKeeps ==
    ASSUME LInv, NEW j \in Runners, OpenOrder(j)
    PROVE  LInv'
  <1>1. job[j].at \in EntryLabels /\ TypeOK /\ amt \in Int /\ job[j].at = "open_order"
    BY DEF OpenOrder, EntryLabels, LInv, TypeOK
  <1>2. j = "tick" /\ "tick" \in Runners
    BY <1>1, LoopHasNoEntry DEF Runners
  <1>3. amt = 0
    BY <1>1, <1>2 DEF LInv, OrderFromFlat
  <1>4. side[Current(j).trade] \in {1, -1}
    BY <1>1, AtTellsEvent DEF LInv, TypeOK
  <1>5. amt' \in -1..1 /\ amt' \in Int
    BY <1>3, <1>4 DEF OpenOrder
  <1>6. /\ job' \in [Runners -> JobType] /\ JobsFit' /\ LoopCloses'
        /\ job'["tick"].at # "open_order"
    <2>1. CASE Goes(j, "cancel")
      <3>1. "cancel" \in Labels /\ "cancel" \in EntryLabels
        BY DEF Labels, EntryLabels
      <3>2. job' \in [Runners -> JobType] /\ JobsFit' /\ LoopCloses'
        BY <1>1, <2>1, <3>1, RequestKeeps
      <3>3. job'[j].at = "cancel"
        BY <1>1, <2>1, <3>1, GoesMoves
      <3> QED
        BY <1>2, <3>2, <3>3
    <2>2. CASE Done(j, amt')
      <3>1. PICK a \in Int : a = amt'
        BY <1>5
      <3>2. Done(j, a)
        BY <2>2, <3>1
      <3>3. job' \in [Runners -> JobType] /\ JobsFit' /\ LoopCloses'
        BY <1>1, <3>2, RequestKeeps
      <3>4. job'[j].at # "open_order"
        BY <1>1, <3>2, DoneMoves, AtTellsEvent DEF LInv
      <3> QED
        BY <1>2, <3>3, <3>4
    <2> QED
      BY <2>1, <2>2 DEF OpenOrder
  <1>7. faults' \in 0..MaxFaults
    BY <1>1, FaultCount DEF OpenOrder
  <1> QED
    BY <1>5, <1>6, <1>7 DEF OpenOrder, LInv, TypeOK, OrderFromFlat, NeverDoubled, Untouched

\* place_tp_sl keeps the invariant.
LEMMA PlaceKeeps ==
    ASSUME LInv, NEW j \in Runners, PlaceCancel(j) \/ PlaceTp(j) \/ PlaceSl(j)
    PROVE  LInv'
  <1>1. job[j].at \in EntryLabels /\ TypeOK /\ amt \in Int /\ amt' = amt
    BY DEF PlaceCancel, PlaceTp, PlaceSl, EntryLabels, LInv, TypeOK
  <1>2. Current(j).trade \in Trade /\ orders \subseteq Order
    BY <1>1, AtTellsEvent DEF LInv, TypeOK
  <1>3. Placed(j, "tp") \subseteq Order /\ Placed(j, "sl") \subseteq Order /\ {} \subseteq Order
    BY <1>2 DEF Placed, Order
  <1>4. orders' \subseteq Order
    BY <1>2, <1>3 DEF PlaceCancel, PlaceTp, PlaceSl
  <1>5. UNCHANGED faults \/ Fails
    BY DEF PlaceCancel, PlaceTp, PlaceSl
  <1>6. Untouched
    BY DEF PlaceCancel, PlaceTp, PlaceSl
  <1>7. {"tp", "sl"} \subseteq Labels \cap EntryLabels
    BY DEF Labels, EntryLabels
  <1>8. CASE PlaceCancel(j)
    <2>1. Goes(j, "tp")
      BY <1>8 DEF PlaceCancel
    <2> QED
      BY <1>1, <1>4, <1>5, <1>6, <1>7, <2>1, QuietRequest
  <1>9. CASE PlaceTp(j)
    <2>1. Goes(j, "sl")
      BY <1>9 DEF PlaceTp
    <2> QED
      BY <1>1, <1>4, <1>5, <1>6, <1>7, <2>1, QuietRequest
  <1>10. CASE PlaceSl(j)
    <2>1. Done(j, amt)
      BY <1>10 DEF PlaceSl
    <2> QED
      BY <1>1, <1>4, <1>5, <1>6, <2>1, QuietRequest
  <1> QED
    BY <1>8, <1>9, <1>10

\* The look before a close keeps the invariant.
LEMMA CloseLookKeeps ==
    ASSUME LInv, NEW j \in Runners, CloseLook(j)
    PROVE  LInv'
  <1>1. /\ job[j].at \in CloseLabels /\ TypeOK /\ amt \in Int /\ JobsFit
        /\ amt' = amt /\ orders' \subseteq Order /\ Untouched
        /\ UNCHANGED faults \/ Fails
    BY DEF CloseLook, CloseLabels, LInv, TypeOK
  <1>2. CASE Done(j, amt)
    BY <1>1, <1>2, QuietRequest
  <1>3. CASE job' = [job EXCEPT ![j].at = "close_order", ![j].read = amt]
    <2>1. job[j] \in JobType /\ Fits(job[j]) /\ job[j].events # <<>>
      BY <1>1, AtTellsEvent DEF TypeOK, JobsFit
    <2>2. [job[j] EXCEPT !.at = "close_order", !.read = amt] \in JobType
      BY <1>1, <2>1 DEF JobType, Labels
    <2>3. job' = [job EXCEPT ![j] = [job[j] EXCEPT !.at = "close_order", !.read = amt]]
      BY <1>3
    <2>4. /\ job'[j] = [job[j] EXCEPT !.at = "close_order", !.read = amt]
          /\ job' \in [Runners -> JobType] /\ job'[Other(j)] = job[Other(j)]
      BY <1>1, <2>2, <2>3, OtherRunner DEF TypeOK
    <2>5. job'[j].events = job[j].events /\ job'[j].at = "close_order"
      BY <2>1, <2>4 DEF JobType
    <2>6. Fits(job'[j])
      BY <1>1, <2>1, <2>5 DEF Fits, CloseLabels, EntryLabels
    <2>7. JobsFit' /\ LoopCloses'
      BY <2>1, <2>4, <2>5, <2>6, ListsKept
    <2>8. job'["tick"].at = "open_order" => job["tick"].at = "open_order"
      BY <2>4, <2>5 DEF Other, Runners
    <2>9. OrderFromFlat' /\ NeverDoubled' /\ amt' \in Int
      BY <1>1, <2>8, FlatKept
    <2>10. faults' \in 0..MaxFaults
      BY <1>1, FaultCount
    <2> QED
      BY <1>1, <2>4, <2>7, <2>9, <2>10 DEF LInv, TypeOK, Untouched
  <1> QED
    BY <1>2, <1>3 DEF CloseLook

\* The closing order keeps the invariant: it takes the position to 0 or leaves it.
LEMMA CloseOrderKeeps ==
    ASSUME LInv, NEW j \in Runners, CloseOrder(j)
    PROVE  LInv'
  <1>1. /\ job[j].at \in CloseLabels /\ TypeOK /\ amt \in -1..1 /\ amt \in Int
        /\ orders' \subseteq Order /\ Untouched /\ (UNCHANGED faults \/ Fails)
    BY DEF CloseOrder, CloseLabels, LInv, TypeOK, NeverDoubled
  <1>2. CloseSize(j) \in Int
    BY <1>1 DEF CloseSize, TypeOK, JobType
  <1>3. Reduced(amt, CloseSize(j)) \in {0, amt}
    BY <1>1, <1>2, ReducedUnit
  <1>4. amt' \in {0, amt}
    BY <1>3 DEF CloseOrder
  <1>5. PICK a \in {0, amt} : a = amt'
    BY <1>4
  <1>6. \/ Goes(j, "close_cancel")
        \/ Done(j, a)
        \/ job[j].try # Attempts /\ Retry(j, a)
    <2>1. CASE Retry(j, a)
      BY <2>1 DEF Retry
    <2>2. Goes(j, "close_cancel") \/ Retry(j, a) \/ Done(j, a)
      BY <1>5 DEF CloseOrder
    <2> QED
      BY <2>1, <2>2
  <1>7. "close_cancel" \in Labels \ EntryLabels /\ job[j].at \notin EntryLabels
    BY <1>1 DEF Labels, EntryLabels, CloseLabels
  <1>8. a \in Int
    BY <1>1
  <1>9. CASE Goes(j, "close_cancel")
    BY <1>1, <1>4, <1>7, <1>9, QuietRequest
  <1>10. CASE Done(j, a)
    BY <1>1, <1>4, <1>8, <1>10, QuietDone
  <1>11. CASE job[j].try # Attempts /\ Retry(j, a)
    BY <1>1, <1>4, <1>8, <1>11, QuietRetry
  <1> QED
    BY <1>6, <1>9, <1>10, <1>11

\* The cancellation after a close keeps the invariant.
LEMMA CloseCancelKeeps ==
    ASSUME LInv, NEW j \in Runners, CloseCancel(j)
    PROVE  LInv'
  <1>1. /\ job[j].at \in CloseLabels /\ amt \in Int /\ amt' = amt
        /\ orders' \subseteq Order /\ Untouched /\ (UNCHANGED faults \/ Fails)
    BY DEF CloseCancel, CloseLabels, LInv, TypeOK
  <1>2. Done(j, amt)
    BY DEF CloseCancel
  <1> QED
    BY <1>1, <1>2, QuietDone

\* A stop order that is filled keeps the invariant.
LEMMA TriggerKeeps ==
    ASSUME LInv, NEW o \in orders, Trigger(o)
    PROVE  LInv'
  <1>1. \A j \in Runners : /\ job'[j] \in JobType
                           /\ job'[j].events = job[j].events
                           /\ job'[j].at = job[j].at
    <2>1. SUFFICES ASSUME NEW j \in Runners
                   PROVE  /\ job'[j] \in JobType
                          /\ job'[j].events = job[j].events
                          /\ job'[j].at = job[j].at
      OBVIOUS
    <2>2. job[j] \in JobType
      BY DEF LInv, TypeOK
    <2>3. job'[j] = [job[j] EXCEPT !.clean = job[j].clean /\ ~Busy(j)]
      BY <2>2 DEF Trigger
    <2> QED
      BY <2>2, <2>3 DEF JobType
  <1>2. job' \in [Runners -> JobType]
    BY <1>1 DEF Trigger
  <1>3. JobsFit' /\ LoopCloses'
    BY <1>1 DEF LInv, JobsFit, LoopCloses, Fits, Runners
  <1>4. OrderFromFlat' /\ NeverDoubled' /\ amt' \in Int
    BY <1>1, FlatKept DEF Trigger, Runners
  <1> QED
    BY <1>2, <1>3, <1>4 DEF Trigger, Untouched, LInv, TypeOK

\* A restart keeps the invariant.
LEMMA RestartKeeps ==
    ASSUME LInv, Restart
    PROVE  LInv'
  <1>1. /\ job' \in [Runners -> JobType] /\ \A j \in Runners : job'[j] = NoJob
    BY NoJobFits DEF Restart
  <1>2. JobsFit' /\ LoopCloses' /\ job'["tick"].at # "open_order"
    BY <1>1, NoJobFits DEF JobsFit, LoopCloses, Runners
  <1>3. restarts' \in 0..MaxRestarts
    BY LiveBoundAssumption DEF LInv, TypeOK, Restart
  <1> QED
    BY <1>1, <1>2, <1>3 DEF Restart, LInv, TypeOK, OrderFromFlat, NeverDoubled

-----------------------------------------------------------------------------
\* The inductive invariant holds in every reachable state.
THEOREM Invariance == Spec => []LInv
  <1>1. Init => LInv
    <2>1. SUFFICES ASSUME Init PROVE LInv
      OBVIOUS
    <2>2. /\ job \in [Runners -> JobType] /\ \A j \in Runners : job[j] = NoJob
      BY <2>1, NoJobFits DEF Init
    <2>3. JobsFit /\ LoopCloses /\ job["tick"].at # "open_order"
      BY <2>2, NoJobFits DEF JobsFit, LoopCloses, Runners
    <2>4. /\ engine \in Trade \cup {0} /\ side \in [Trade -> {1, -1}] /\ amt = 0
          /\ entered \in 0..MaxTrade /\ faults \in 0..MaxFaults
          /\ restarts \in 0..MaxRestarts /\ orders \subseteq Order
          /\ overlapped \in BOOLEAN
      <3>1. MaxTrade \in Nat /\ MaxFaults \in Nat /\ MaxRestarts \in Nat
        BY LiveBoundAssumption
      <3>2. 0 \in 0..MaxTrade /\ 0 \in 0..MaxFaults /\ 0 \in 0..MaxRestarts
        BY <3>1
      <3> QED
        BY <2>1, <3>2 DEF Init
    <2>5. TypeOK
      BY <2>2, <2>4 DEF TypeOK
    <2>6. OrderFromFlat /\ NeverDoubled
      BY <2>3, <2>4 DEF OrderFromFlat, NeverDoubled
    <2> QED
      BY <2>3, <2>5, <2>6 DEF LInv
  <1>2. LInv /\ [Next]_vars => LInv'
    <2>1. SUFFICES ASSUME LInv, [Next]_vars PROVE LInv'
      OBVIOUS
    <2>2. CASE TickEnters \/ TickExits \/ TickReverses \/ LoopExits
      BY <2>1, <2>2, EngineSteps
    <2>3. ASSUME NEW j \in Runners, OpenLook(j) \/ OpenOrder(j) PROVE LInv'
      BY <2>1, <2>3, OpenLookKeeps, OpenOrderKeeps
    <2>4. ASSUME NEW j \in Runners, PlaceCancel(j) \/ PlaceTp(j) \/ PlaceSl(j) PROVE LInv'
      BY <2>1, <2>4, PlaceKeeps
    <2>5. ASSUME NEW j \in Runners, CloseLook(j) \/ CloseOrder(j) \/ CloseCancel(j)
          PROVE  LInv'
      BY <2>1, <2>5, CloseLookKeeps, CloseOrderKeeps, CloseCancelKeeps
    <2>6. ASSUME NEW o \in orders, Trigger(o) PROVE LInv'
      BY <2>1, <2>6, TriggerKeeps
    <2>7. CASE Restart
      BY <2>1, <2>7, RestartKeeps
    <2>8. CASE UNCHANGED vars
      BY <2>1, <2>8 DEF vars, LInv, TypeOK, JobsFit, LoopCloses, OrderFromFlat, NeverDoubled
    <2> QED
      BY <2>1, <2>2, <2>3, <2>4, <2>5, <2>6, <2>7, <2>8 DEF Next
  <1> QED
    BY <1>1, <1>2, PTL DEF Spec

\* The model keeps its types.
THEOREM TypeCorrect == Spec => []TypeOK
  <1>1. LInv => TypeOK
    BY DEF LInv
  <1> QED
    BY <1>1, Invariance, PTL

\* However requests fail, jobs overlap and the process restarts, the exchange
\* never holds more than one unit either way (open_position looks first).
THEOREM NeverDoubledHolds == Spec => []NeverDoubled
  <1>1. LInv => NeverDoubled
    BY DEF LInv
  <1> QED
    BY <1>1, Invariance, PTL

-----------------------------------------------------------------------------
(* Jobs that nothing disturbs                                              *)

\* Where the exchange is while such a job is at its request.
OnTrack(j) ==
    LET at == job[j].at
    IN  /\ at = "close_order" => job[j].read = amt /\ amt # 0
        /\ at = "close_cancel" => amt = 0
        /\ job[j].from = 0 =>
            /\ at \in {"open_look", "open_order"} => amt = 0
            /\ at \in {"cancel", "tp", "sl"} => amt = side[Current(j).trade]
            /\ at = "tp" => orders = {}
            /\ at = "sl" => orders = {[trade |-> Current(j).trade, kind |-> "tp"]}

\* A job that was not disturbed so far is alone, and on its way.
CleanOnTrack ==
    \A j \in Runners : job[j].clean /\ Busy(j) => ~Busy(Other(j)) /\ OnTrack(j)

CInv == LInv /\ CleanOnTrack

\* A new event starts at its look, from the position of that moment.
LEMMA JobForStart ==
    ASSUME NEW events, NEW a, NEW alone
    PROVE  LET r == JobFor(events, a, alone)
           IN  /\ r.at \in {"idle", "open_look", "close_look"}
               /\ r.at # "idle" => r.from = a /\ r.clean = alone
  BY DEF JobFor, NoJob

\* A request of one job: of the two, only that job can still be clean.
LEMMA OneRequest ==
    ASSUME CInv, NEW j \in Runners, Busy(j), job'[Other(j)] = job[Other(j)],
           job'[j].clean /\ Busy(j)' => ~Busy(Other(j)) /\ OnTrack(j)'
    PROVE  CleanOnTrack'
  <1> SUFFICES ASSUME NEW k \in Runners, job'[k].clean, Busy(k)'
               PROVE  ~Busy(Other(k))' /\ OnTrack(k)'
    BY DEF CleanOnTrack
  <1>1. CASE k = j
    BY <1>1 DEF Busy
  <1>2. CASE k = Other(j)
    <2>1. job[k].clean /\ Busy(k) /\ Other(k) = j
      BY <1>2 DEF Busy, Other, Runners
    <2> QED
      BY <2>1 DEF CInv, CleanOnTrack
  <1> QED
    BY <1>1, <1>2, OtherRunner

\* After a finished event the next one starts on its way.
LEMMA DoneOnTrack ==
    ASSUME CInv, NEW j \in Runners, job[j].at \in EntryLabels \cup CloseLabels,
           NEW a \in Int, amt' = a, Done(j, a)
    PROVE  CleanOnTrack'
  <1>1. TypeOK /\ JobsFit /\ Busy(j)
    BY DEF CInv, LInv, Busy, EntryLabels, CloseLabels
  <1>2. /\ job'[Other(j)] = job[Other(j)]
        /\ job'[j] = JobFor(Tail(job[j].events), a, ~Busy(Other(j)))
    BY <1>1, AtTellsEvent, DoneMoves
  <1>3. /\ job'[j].at \in {"idle", "open_look", "close_look"}
        /\ job'[j].at # "idle" => /\ job'[j].from = a
                                  /\ job'[j].clean = ~Busy(Other(j))
    BY <1>2, JobForStart
  <1>4. job'[j].clean /\ Busy(j)' => ~Busy(Other(j)) /\ OnTrack(j)'
    BY <1>3 DEF Busy, OnTrack
  <1> QED
    BY <1>1, <1>2, <1>4, OneRequest

\* A job that goes on is on its way if its request did what it should.
LEMMA GoesOnTrack ==
    ASSUME CInv, NEW j \in Runners, job[j].at \in EntryLabels \cup CloseLabels,
           NEW at \in Labels, Goes(j, at),
           faults' = faults /\ job[j].clean /\ OnTrack(j) => OnTrack(j)'
    PROVE  CleanOnTrack'
  <1>1. TypeOK /\ Busy(j)
    BY DEF CInv, LInv, Busy, EntryLabels, CloseLabels
  <1>2. /\ job'[Other(j)] = job[Other(j)]
        /\ job'[j].clean = (job[j].clean /\ faults' = faults)
    BY <1>1, GoesMoves
  <1>3. job'[j].clean => ~Busy(Other(j)) /\ OnTrack(j)'
    BY <1>1, <1>2 DEF CInv, CleanOnTrack
  <1> QED
    BY <1>1, <1>2, <1>3, OneRequest

\* A close that is tried again is on its way.
LEMMA RetryOnTrack ==
    ASSUME CInv, NEW j \in Runners, job[j].at \in CloseLabels,
           NEW a \in Int, amt' = a, Retry(j, a)
    PROVE  CleanOnTrack'
  <1>1. TypeOK /\ Busy(j)
    BY DEF CInv, LInv, Busy, CloseLabels
  <1>2. CASE job[j].try = Attempts
    <2>1. Done(j, a)
      BY <1>2 DEF Retry
    <2> QED
      BY <2>1, DoneOnTrack
  <1>3. CASE job[j].try # Attempts
    <2>1. /\ job'[Other(j)] = job[Other(j)] /\ job'[j].at = "close_look"
          /\ job'[j].clean = (job[j].clean /\ faults' = faults)
      BY <1>1, <1>3, RetryMoves
    <2>2. job'[j].clean => ~Busy(Other(j)) /\ OnTrack(j)'
      BY <1>1, <2>1 DEF CInv, CleanOnTrack, OnTrack
    <2> QED
      BY <1>1, <2>1, <2>2, OneRequest
  <1> QED
    BY <1>2, <1>3

\* A job that begins is on its way if it is alone, and the other one is disturbed.
LEMMA BeginOnTrack ==
    ASSUME CInv, NEW j \in Runners, NEW events \in Seq(Event), Begin(j, events), amt' = amt
    PROVE  CleanOnTrack'
  <1>1. /\ job'[j] = JobFor(events, amt, ~Busy(Other(j)))
        /\ job'[Other(j)].at = job[Other(j)].at
        /\ job'[Other(j)].clean = (job[Other(j)].clean /\ ~Busy(Other(j)))
    BY BeginMoves DEF CInv, LInv
  <1>2. /\ job'[j].at \in {"idle", "open_look", "close_look"}
        /\ job'[j].at # "idle" => /\ job'[j].from = amt
                                  /\ job'[j].clean = ~Busy(Other(j))
    BY <1>1, JobForStart
  <1> SUFFICES ASSUME NEW k \in Runners, job'[k].clean, Busy(k)'
               PROVE  ~Busy(Other(k))' /\ OnTrack(k)'
    BY DEF CleanOnTrack
  <1>3. CASE k = j
    BY <1>1, <1>2, <1>3 DEF Busy, OnTrack
  <1>4. CASE k = Other(j)
    BY <1>1, <1>4 DEF Busy
  <1> QED
    BY <1>3, <1>4, OtherRunner

\* The steps of the engine leave undisturbed jobs on their way.
LEMMA EngineOnTrack ==
    ASSUME CInv, TickEnters \/ TickExits \/ TickReverses \/ LoopExits
    PROVE  CleanOnTrack'
  <1>1. /\ "tick" \in Runners /\ "loop" \in Runners /\ amt' = amt
        /\ engine # 0 => Close(engine) \in Event
        /\ entered < MaxTrade => Entry(entered + 1) \in Event
    <2>1. engine \in Trade \cup {0} /\ TypeOK
      BY DEF CInv, LInv, TypeOK
    <2> QED
      BY <2>1, EventTypes, NextTrade
      DEF Runners, TickEnters, TickExits, TickReverses, LoopExits, EngineOnly
  <1>2. CASE TickEnters
    <2>1. <<Entry(entered + 1)>> \in Seq(Event) /\ Begin("tick", <<Entry(entered + 1)>>)
      BY <1>1, <1>2 DEF TickEnters
    <2> QED
      BY <1>1, <2>1, BeginOnTrack
  <1>3. CASE TickExits
    <2>1. <<Close(engine)>> \in Seq(Event) /\ Begin("tick", <<Close(engine)>>)
      BY <1>1, <1>3 DEF TickExits
    <2> QED
      BY <1>1, <2>1, BeginOnTrack
  <1>4. CASE TickReverses
    <2>1. /\ <<Close(engine), Entry(entered + 1)>> \in Seq(Event)
          /\ Begin("tick", <<Close(engine), Entry(entered + 1)>>)
      BY <1>1, <1>4 DEF TickReverses
    <2> QED
      BY <1>1, <2>1, BeginOnTrack
  <1>5. CASE LoopExits
    <2>1. <<Close(engine)>> \in Seq(Event) /\ Begin("loop", <<Close(engine)>>)
      BY <1>1, <1>5 DEF LoopExits
    <2> QED
      BY <1>1, <2>1, BeginOnTrack
  <1> QED
    BY <1>2, <1>3, <1>4, <1>5

\* What a request finds of its job before and after it goes on.
LEMMA GoesKeeps ==
    ASSUME CInv, NEW j \in Runners, NEW at \in Labels, Goes(j, at)
    PROVE  /\ job'[j].at = at /\ job'[j].from = job[j].from
           /\ job'[j].events = job[j].events /\ Current(j)' = Current(j)
  BY GoesMoves DEF CInv, LInv, Current

\* So does the look before an entry,
LEMMA OpenLookOnTrack ==
    ASSUME CInv, NEW j \in Runners, OpenLook(j)
    PROVE  CleanOnTrack'
  <1>1. /\ job[j].at \in EntryLabels /\ job[j].at = "open_look"
        /\ amt \in Int /\ amt' = amt
    BY DEF OpenLook, EntryLabels, CInv, LInv, TypeOK
  <1>2. "open_order" \in Labels /\ "cancel" \in Labels
    BY DEF Labels
  <1>3. ASSUME Goes(j, "open_order") PROVE CleanOnTrack'
    <2>1. OnTrack(j) => OnTrack(j)'
      BY <1>1, <1>2, <1>3, GoesKeeps DEF OnTrack
    <2> QED
      BY <1>1, <1>2, <1>3, <2>1, GoesOnTrack
  <1>4. ASSUME Goes(j, "cancel"), amt # 0 \/ Fails PROVE CleanOnTrack'
    <2>1. faults' = faults /\ OnTrack(j) => OnTrack(j)'
      <3>1. Fails => faults' # faults
        BY DEF Fails, CInv, LInv, TypeOK
      <3> QED
        BY <1>1, <1>2, <1>4, <3>1, GoesKeeps DEF OnTrack
    <2> QED
      BY <1>1, <1>2, <1>4, <2>1, GoesOnTrack
  <1>5. ASSUME Done(j, amt) PROVE CleanOnTrack'
    BY <1>1, <1>5, DoneOnTrack
  <1> QED
    BY <1>3, <1>4, <1>5 DEF OpenLook

\* the entry order, which takes a flat exchange to the trade,
LEMMA OpenOrderOnTrack ==
    ASSUME CInv, NEW j \in Runners, OpenOrder(j)
    PROVE  CleanOnTrack'
  <1>1. /\ job[j].at \in EntryLabels /\ job[j].at = "open_order" /\ TypeOK
        /\ JobsFit /\ amt \in Int /\ "cancel" \in Labels
    BY DEF OpenOrder, EntryLabels, Labels, CInv, LInv, TypeOK
  <1>2. side[Current(j).trade] \in Int
    BY <1>1, AtTellsEvent DEF TypeOK
  <1>3. Fails => faults' # faults
    BY <1>1 DEF Fails, TypeOK
  <1>4. side' = side
    BY DEF OpenOrder, Untouched
  <1>5. CASE Goes(j, "cancel") /\ (Fails \/ amt' = amt + side[Current(j).trade])
    <2>1. faults' = faults /\ OnTrack(j) => OnTrack(j)'
      BY <1>1, <1>2, <1>3, <1>4, <1>5, GoesKeeps DEF OnTrack
    <2> QED
      BY <1>1, <1>5, <2>1, GoesOnTrack
  <1>6. CASE Done(j, amt') /\ amt' \in {amt, amt + side[Current(j).trade]}
    <2>1. PICK a \in Int : a = amt'
      BY <1>1, <1>2, <1>6
    <2>2. Done(j, a)
      BY <1>6, <2>1
    <2> QED
      BY <1>1, <2>1, <2>2, DoneOnTrack
  <1> QED
    BY <1>5, <1>6 DEF OpenOrder

\* place_tp_sl, which leaves the orders of this trade alone,
LEMMA PlaceOnTrack ==
    ASSUME CInv, NEW j \in Runners, PlaceCancel(j) \/ PlaceTp(j) \/ PlaceSl(j)
    PROVE  CleanOnTrack'
  <1>1. /\ job[j].at \in EntryLabels /\ amt \in Int /\ amt' = amt /\ side' = side
        /\ "tp" \in Labels /\ "sl" \in Labels
    BY DEF PlaceCancel, PlaceTp, PlaceSl, Untouched, EntryLabels, Labels, CInv, LInv, TypeOK
  <1>2. Fails => faults' # faults
    BY DEF Fails, CInv, LInv, TypeOK
  <1>3. CASE PlaceCancel(j)
    <2>1. Goes(j, "tp") /\ job[j].at = "cancel" /\ (Fails \/ orders' = {})
      BY <1>3 DEF PlaceCancel
    <2>2. faults' = faults /\ OnTrack(j) => OnTrack(j)'
      BY <1>1, <1>2, <2>1, GoesKeeps DEF OnTrack
    <2> QED
      BY <1>1, <2>1, <2>2, GoesOnTrack
  <1>4. CASE PlaceTp(j)
    <2>1. Goes(j, "sl") /\ job[j].at = "tp" /\ (Fails \/ orders' = Placed(j, "tp"))
      BY <1>4 DEF PlaceTp
    <2>2. faults' = faults /\ OnTrack(j) => OnTrack(j)'
      BY <1>1, <1>2, <2>1, GoesKeeps DEF OnTrack, Placed
    <2> QED
      BY <1>1, <2>1, <2>2, GoesOnTrack
  <1>5. CASE PlaceSl(j)
    BY <1>1, <1>5, DoneOnTrack DEF PlaceSl
  <1> QED
    BY <1>3, <1>4, <1>5

\* A unit position that is reduced by itself is gone.
LEMMA ReducedSelf ==
    ASSUME NEW p \in -1..1
    PROVE  Reduced(p, p) = 0
  BY DEF Reduced, Sign

\* the look before a close, which notes the position,
LEMMA CloseLookOnTrack ==
    ASSUME CInv, NEW j \in Runners, CloseLook(j)
    PROVE  CleanOnTrack'
  <1>1. /\ job[j].at \in CloseLabels /\ TypeOK /\ Busy(j) /\ amt \in Int /\ amt' = amt
    BY DEF CloseLook, CloseLabels, Busy, CInv, LInv, TypeOK
  <1>2. CASE Done(j, amt)
    BY <1>1, <1>2, DoneOnTrack
  <1>3. CASE amt # 0 /\ job' = [job EXCEPT ![j].at = "close_order", ![j].read = amt]
    <2>1. job[j] \in JobType
      BY <1>1 DEF TypeOK
    <2>2. /\ job'[Other(j)] = job[Other(j)]
          /\ job'[j] = [job[j] EXCEPT !.at = "close_order", !.read = amt]
      BY <1>1, <1>3, OtherRunner DEF TypeOK
    <2>3. /\ job'[j].at = "close_order" /\ job'[j].read = amt
          /\ job'[j].clean = job[j].clean
      BY <2>1, <2>2 DEF JobType
    <2>4. job'[j].clean => ~Busy(Other(j)) /\ OnTrack(j)'
      BY <1>1, <1>3, <2>3 DEF CInv, CleanOnTrack, OnTrack
    <2> QED
      BY <1>1, <2>2, <2>4, OneRequest
  <1> QED
    BY <1>2, <1>3 DEF CloseLook

\* the closing order, which closes what was noted,
LEMMA CloseOrderOnTrack ==
    ASSUME CInv, NEW j \in Runners, CloseOrder(j)
    PROVE  CleanOnTrack'
  <1> DEFINE left == Reduced(amt, CloseSize(j))
  <1>1. /\ job[j].at \in CloseLabels /\ job[j].at = "close_order" /\ TypeOK
        /\ amt \in -1..1 /\ amt \in Int /\ "close_cancel" \in Labels
    BY DEF CloseOrder, CloseLabels, Labels, CInv, LInv, TypeOK, NeverDoubled
  <1>2. CloseSize(j) \in Int
    BY <1>1 DEF CloseSize, TypeOK, JobType
  <1>3. left \in {0, amt}
    BY <1>1, <1>2, ReducedUnit
  <1>4. PICK a \in Int : a = amt'
    BY <1>1, <1>3 DEF CloseOrder
  <1>5. CASE Goes(j, "close_cancel") /\ amt' = left /\ left # amt
    <2>1. amt' = 0
      BY <1>3, <1>5
    <2>2. OnTrack(j)'
      BY <1>1, <1>5, <2>1, GoesKeeps DEF OnTrack
    <2> QED
      BY <1>1, <1>5, <2>2, GoesOnTrack
  <1>6. CASE Retry(j, a)
    BY <1>1, <1>4, <1>6, RetryOnTrack
  <1>7. CASE Done(j, a)
    BY <1>1, <1>4, <1>7, DoneOnTrack
  <1> QED
    BY <1>4, <1>5, <1>6, <1>7 DEF CloseOrder

\* and the cancellation after it.
LEMMA CloseCancelOnTrack ==
    ASSUME CInv, NEW j \in Runners, CloseCancel(j)
    PROVE  CleanOnTrack'
  <1>1. job[j].at \in CloseLabels /\ amt \in Int /\ amt' = amt /\ Done(j, amt)
    BY DEF CloseCancel, CloseLabels, CInv, LInv, TypeOK
  <1> QED
    BY <1>1, DoneOnTrack

\* Restarts and filled stop orders leave no busy job undisturbed.
LEMMA OthersOnTrack ==
    ASSUME CInv, Restart \/ UNCHANGED vars \/ (\E o \in orders : Trigger(o))
    PROVE  CleanOnTrack'
  <1>1. CASE Restart
    <2>1. \A j \in Runners : job'[j].at = "idle"
      BY <1>1, NoJobFits DEF Restart
    <2> QED
      BY <2>1 DEF CleanOnTrack, Busy
  <1>2. CASE UNCHANGED vars
    BY <1>2 DEF vars, CInv, CleanOnTrack, OnTrack, Busy, Current
  <1>3. ASSUME NEW o \in orders, Trigger(o) PROVE CleanOnTrack'
    <2>1. SUFFICES ASSUME NEW j \in Runners
                   PROVE  ~(job'[j].clean /\ Busy(j)')
      BY DEF CleanOnTrack
    <2>2. job[j] \in JobType
      BY DEF CInv, LInv, TypeOK
    <2>3. job'[j] = [job[j] EXCEPT !.clean = job[j].clean /\ ~Busy(j)]
      BY <1>3, <2>2 DEF Trigger
    <2>4. job'[j].at = job[j].at /\ job'[j].clean = (job[j].clean /\ ~Busy(j))
      BY <2>2, <2>3 DEF JobType
    <2> QED
      BY <2>4 DEF Busy
  <1> QED
    BY <1>1, <1>2, <1>3

\* Undisturbed jobs are alone and on their way in every reachable state.
LEMMA CleanInvariance == Spec => []CInv
  <1>1. Init => CleanOnTrack
    <2>1. SUFFICES ASSUME Init PROVE CleanOnTrack
      OBVIOUS
    <2>2. \A j \in Runners : job[j].at = "idle"
      BY <2>1, NoJobFits DEF Init
    <2> QED
      BY <2>2 DEF CleanOnTrack, Busy
  <1>2. LInv /\ CleanOnTrack /\ [Next]_vars => CleanOnTrack'
    <2>1. SUFFICES ASSUME CInv, [Next]_vars PROVE CleanOnTrack'
      BY DEF CInv
    <2>2. CASE TickEnters \/ TickExits \/ TickReverses \/ LoopExits
      BY <2>1, <2>2, EngineOnTrack
    <2>3. ASSUME NEW j \in Runners, OpenLook(j) \/ OpenOrder(j) PROVE CleanOnTrack'
      BY <2>1, <2>3, OpenLookOnTrack, OpenOrderOnTrack
    <2>4. ASSUME NEW j \in Runners, PlaceCancel(j) \/ PlaceTp(j) \/ PlaceSl(j)
          PROVE  CleanOnTrack'
      BY <2>1, <2>4, PlaceOnTrack
    <2>5. ASSUME NEW j \in Runners, CloseLook(j) \/ CloseOrder(j) \/ CloseCancel(j)
          PROVE  CleanOnTrack'
      BY <2>1, <2>5, CloseLookOnTrack, CloseOrderOnTrack, CloseCancelOnTrack
    <2>6. CASE Restart \/ UNCHANGED vars \/ (\E o \in orders : Trigger(o))
      BY <2>1, <2>6, OthersOnTrack
    <2> QED
      BY <2>1, <2>2, <2>3, <2>4, <2>5, <2>6 DEF Next
  <1>3. CInv <=> LInv /\ CleanOnTrack
    BY DEF CInv
  <1> QED
    BY <1>1, <1>2, <1>3, Invariance, PTL DEF Spec

-----------------------------------------------------------------------------
(* How an event of an undisturbed job ends                                 *)

Request(j) ==
    \/ OpenLook(j) \/ OpenOrder(j)
    \/ PlaceCancel(j) \/ PlaceTp(j) \/ PlaceSl(j)
    \/ CloseLook(j) \/ CloseOrder(j) \/ CloseCancel(j)

\* A request changes the job of its own runner only.
LEMMA RequestOfOne ==
    ASSUME TypeOK, NEW j \in Runners, Request(j)
    PROVE  job'[Other(j)] = job[Other(j)]
  <1>1. Other(j) \in Runners /\ Other(j) # j
    BY OtherRunner
  <1>2. ASSUME NEW at, Goes(j, at) PROVE job'[Other(j)] = job[Other(j)]
    BY <1>1, <1>2 DEF Goes, TypeOK
  <1>3. ASSUME NEW a, Done(j, a) PROVE job'[Other(j)] = job[Other(j)]
    BY <1>1, <1>3 DEF Done, TypeOK
  <1>4. ASSUME NEW a, Retry(j, a) PROVE job'[Other(j)] = job[Other(j)]
    BY <1>1, <1>3, <1>4 DEF Retry, TypeOK
  <1>5. CASE job' = [job EXCEPT ![j].at = "close_order", ![j].read = amt]
    BY <1>1, <1>5 DEF TypeOK
  <1> QED
    BY <1>2, <1>3, <1>4, <1>5
    DEF Request, OpenLook, OpenOrder, PlaceCancel, PlaceTp, PlaceSl,
        CloseLook, CloseOrder, CloseCancel

\* Only a request of runner j ends an event of runner j.
LEMMA OwnRequest ==
    ASSUME CInv, [Next]_vars, NEW j \in Runners, NEW k, EndsClean(j, k)
    PROVE  Request(j)
  <1>1. /\ TypeOK /\ Busy(j) /\ job'[j].events # job[j].events /\ restarts' = restarts
    BY DEF CInv, LInv, EndsClean
  <1>2. ASSUME NEW i \in Runners, NEW events \in Seq(Event), Begin(i, events) PROVE FALSE
    <2>1. job[i].at = "idle" /\ job'[Other(i)].events = job[Other(i)].events
      BY <1>1, <1>2, BeginMoves
    <2> QED
      BY <1>1, <2>1, OtherRunner DEF Busy, Runners
  <1>3. /\ "tick" \in Runners /\ "loop" \in Runners
        /\ engine # 0 => Close(engine) \in Event
        /\ entered < MaxTrade => Entry(entered + 1) \in Event
    BY <1>1, EventTypes, NextTrade DEF Runners, TypeOK
  <1>4. ~(TickEnters \/ TickExits \/ TickReverses \/ LoopExits)
    <2>1. ASSUME TickEnters PROVE FALSE
      <3>1. <<Entry(entered + 1)>> \in Seq(Event) /\ Begin("tick", <<Entry(entered + 1)>>)
        BY <1>3, <2>1 DEF TickEnters
      <3> QED
        BY <1>2, <1>3, <3>1
    <2>2. ASSUME TickExits PROVE FALSE
      <3>1. <<Close(engine)>> \in Seq(Event) /\ Begin("tick", <<Close(engine)>>)
        BY <1>3, <2>2 DEF TickExits
      <3> QED
        BY <1>2, <1>3, <3>1
    <2>3. ASSUME TickReverses PROVE FALSE
      <3>1. /\ <<Close(engine), Entry(entered + 1)>> \in Seq(Event)
            /\ Begin("tick", <<Close(engine), Entry(entered + 1)>>)
        BY <1>3, <2>3 DEF TickReverses
      <3> QED
        BY <1>2, <1>3, <3>1
    <2>4. ASSUME LoopExits PROVE FALSE
      <3>1. <<Close(engine)>> \in Seq(Event) /\ Begin("loop", <<Close(engine)>>)
        BY <1>3, <2>4 DEF LoopExits
      <3> QED
        BY <1>2, <1>3, <3>1
    <2> QED
      BY <2>1, <2>2, <2>3, <2>4
  <1>5. ASSUME NEW o \in orders, Trigger(o) PROVE FALSE
    <2>1. job[j] \in JobType
      BY <1>1 DEF TypeOK
    <2>2. job'[j] = [job[j] EXCEPT !.clean = job[j].clean /\ ~Busy(j)]
      BY <1>5, <2>1 DEF Trigger
    <2> QED
      BY <1>1, <2>1, <2>2 DEF JobType
  <1>6. ~Restart /\ ~(UNCHANGED vars)
    BY <1>1 DEF Restart, TypeOK, vars
  <1>7. PICK i \in Runners : Request(i)
    BY <1>4, <1>5, <1>6 DEF Next, Request
  <1>8. i = j
    BY <1>1, <1>7, RequestOfOne, OtherRunner DEF Runners, Other
  <1> QED
    BY <1>7, <1>8

\* A step that does not count a fault is not a failing one.
LEMMA NoFault == TypeOK /\ faults' = faults => ~Fails
  BY DEF TypeOK, Fails

\* The step that ends an undisturbed close leaves the exchange flat.
LEMMA CloseEnds ==
    ASSUME CInv, [Next]_vars, NEW j \in Runners, EndsClean(j, "close")
    PROVE  amt' = 0
  <1>1. /\ TypeOK /\ JobsFit /\ Busy(j) /\ OnTrack(j) /\ ~Fails
        /\ job'[j].events # job[j].events /\ Current(j).kind = "close"
        /\ amt \in -1..1 /\ amt \in Int
    BY NoFault DEF CInv, LInv, CleanOnTrack, EndsClean, NeverDoubled, TypeOK
  <1>2. Request(j)
    BY OwnRequest
  <1>3. job[j].at \notin EntryLabels
    BY <1>1, AtTellsEvent
  <1>4. CASE CloseLook(j)
    <2>1. job' = [job EXCEPT ![j].at = "close_order", ![j].read = amt]
            => job'[j].events = job[j].events
      <3>1. job[j] \in JobType
        BY <1>1 DEF TypeOK
      <3> QED
        BY <1>1, <3>1 DEF TypeOK, JobType
    <2> QED
      BY <1>1, <1>4, <2>1 DEF CloseLook
  <1>5. CASE CloseOrder(j)
    <2>1. CloseSize(j) = amt /\ amt # 0
      BY <1>1, <1>5 DEF CloseOrder, OnTrack, CloseSize
    <2>2. Reduced(amt, CloseSize(j)) = 0
      BY <1>1, <2>1, ReducedSelf
    <2> QED
      BY <1>1, <1>5, <2>1, <2>2 DEF CloseOrder
  <1>6. CASE CloseCancel(j)
    BY <1>1, <1>6 DEF CloseCancel, OnTrack
  <1> QED
    BY <1>2, <1>3, <1>4, <1>5, <1>6
    DEF Request, OpenLook, OpenOrder, PlaceCancel, PlaceTp, PlaceSl, EntryLabels

\* The orders of a trade are its TP and its SL.
LEMMA TwoOrders ==
    ASSUME NEW t
    PROVE  OrdersOf(t) = {[trade |-> t, kind |-> "tp"]} \cup {[trade |-> t, kind |-> "sl"]}
  <1> DEFINE two == {[trade |-> t, kind |-> "tp"]} \cup {[trade |-> t, kind |-> "sl"]}
  <1>1. two \subseteq OrdersOf(t)
    BY DEF OrdersOf
  <1>2. ASSUME NEW o \in OrdersOf(t) PROVE o \in two
    <2>1. PICK k \in {"tp", "sl"} : o = [trade |-> t, kind |-> k]
      BY <1>2 DEF OrdersOf
    <2> QED
      BY <2>1
  <1> QED
    BY <1>1, <1>2

\* The step that ends an undisturbed entry leaves its position and its two orders.
LEMMA EntryEnds ==
    ASSUME CInv, [Next]_vars, NEW j \in Runners, EndsClean(j, "entry"), job[j].from = 0
    PROVE  amt' = side[Current(j).trade] /\ orders' = OrdersOf(Current(j).trade)
  <1>1. /\ TypeOK /\ JobsFit /\ Busy(j) /\ OnTrack(j) /\ ~Fails
        /\ job'[j].events # job[j].events /\ Current(j).kind = "entry"
    BY NoFault DEF CInv, LInv, CleanOnTrack, EndsClean
  <1>2. Request(j)
    BY OwnRequest
  <1>3. job[j].at \notin CloseLabels
    BY <1>1, AtTellsEvent
  <1>4. \A at \in Labels : ~Goes(j, at)
    BY <1>1, GoesMoves
  <1>5. {"open_order", "cancel", "tp", "sl"} \subseteq Labels
    BY DEF Labels
  <1>6. PlaceSl(j)
    BY <1>1, <1>2, <1>3, <1>4, <1>5
    DEF Request, OpenLook, OpenOrder, PlaceCancel, PlaceTp,
        CloseLook, CloseOrder, CloseCancel, CloseLabels
  <1>7. /\ amt = side[Current(j).trade] /\ amt' = amt
        /\ orders = {[trade |-> Current(j).trade, kind |-> "tp"]}
        /\ orders' = Placed(j, "sl")
    BY <1>1, <1>6 DEF PlaceSl, OnTrack
  <1>8. OrdersOf(Current(j).trade) = Placed(j, "sl")
    BY <1>7, TwoOrders DEF Placed
  <1> QED
    BY <1>7, <1>8

\* Whatever failed, overlapped or restarted before, a close that is not disturbed
\* itself leaves the exchange flat (close_position closes what it reads).
THEOREM CloseFlattens == Spec => CleanCloseFlattens
  <1>1. CInv /\ [Next]_vars => [\A j \in Runners : EndsClean(j, "close") => amt' = 0]_vars
    BY CloseEnds
  <1> QED
    BY <1>1, CleanInvariance, PTL DEF Spec, CleanCloseFlattens

\* An undisturbed entry from a flat exchange ends in its own position under its own
\* TP and SL and no others (place_tp_sl cancels what earlier trades left).
THEOREM EntryProtects == Spec => CleanEntryProtects
  <1>1. CInv /\ [Next]_vars =>
            [\A j \in Runners : EndsClean(j, "entry") /\ job[j].from = 0 =>
                /\ amt' = side[Current(j).trade]
                /\ orders' = OrdersOf(Current(j).trade)]_vars
    BY EntryEnds
  <1> QED
    BY <1>1, CleanInvariance, PTL DEF Spec, CleanEntryProtects

-----------------------------------------------------------------------------
(* The exchange follows the engine while nothing fails                     *)

Undisturbed == faults = 0 /\ restarts = 0 /\ ~overlapped

\* The exchange is where the engine wants it to be.
Follows ==
    IF engine = 0 THEN amt = 0
    ELSE \/ amt = side[engine] /\ orders = OrdersOf(engine)
         \/ amt = 0 /\ orders # {} /\ orders \subseteq OrdersOf(engine)

\* The events that are left end in the engine's trade, or flat with it.
LeadTo(events) ==
    \/ engine # 0 /\ events = <<Entry(engine)>>
    \/ engine = 0 /\ \E t \in Trade : events = <<Close(t)>>
    \/ engine # 0 /\ \E t \in Trade : events = <<Close(t), Entry(engine)>>

TpOf(t) == [trade |-> t, kind |-> "tp"]

\* Where the exchange is while runner j is at its request. A stop order that is
\* left of an earlier trade may have closed the new position meanwhile.
Halfway(j) ==
    LET at == job[j].at
    IN  /\ at \in {"open_look", "open_order", "close_cancel"} => amt = 0
        /\ at \in {"cancel", "tp", "sl"} => amt \in {0, side[engine]}
        /\ at = "tp" => orders = {}
        /\ at = "sl" => \/ orders = {TpOf(engine)}
                        \/ amt = 0 /\ orders = {}
        /\ at = "close_order" => amt \in {0, job[j].read}

Synced ==
    Undisturbed =>
        /\ Quiet => Follows
        /\ \A j \in Runners : Busy(j) =>
               ~Busy(Other(j)) /\ LeadTo(job[j].events) /\ Halfway(j)

\* What of the engine and of the counters a request leaves alone.
LEMMA RequestFrame ==
    ASSUME LInv, Untouched, UNCHANGED faults \/ Fails, Undisturbed'
    PROVE  /\ UNCHANGED faults /\ ~Fails /\ Undisturbed
           /\ engine' = engine /\ side' = side
  BY DEF LInv, TypeOK, Untouched, Fails, Undisturbed

\* A request is served by the runner that is alone, so the other one stays idle.
LEMMA SyncedByOne ==
    ASSUME LInv, Synced, NEW j \in Runners, Busy(j), job'[Other(j)] = job[Other(j)],
           Undisturbed' => Undisturbed,
           Undisturbed' /\ ~Busy(j)' => Follows',
           Undisturbed' /\ Busy(j)' => LeadTo(job[j].events)' /\ Halfway(j)'
    PROVE  Synced'
  <1> SUFFICES ASSUME Undisturbed'
               PROVE  /\ Quiet' => Follows'
                      /\ \A k \in Runners : Busy(k)' =>
                             /\ ~Busy(Other(k))'
                             /\ LeadTo(job[k].events)' /\ Halfway(k)'
    BY DEF Synced
  <1>1. ~Busy(Other(j)) /\ ~Busy(Other(j))'
    BY DEF Synced, Busy
  <1>2. Quiet' => Follows'
    BY DEF Quiet
  <1>3. ASSUME NEW k \in Runners, Busy(k)'
        PROVE  ~Busy(Other(k))' /\ LeadTo(job[k].events)' /\ Halfway(k)'
    <2>1. k = j
      BY <1>1, <1>3, OtherRunner
    <2> QED
      BY <1>1, <1>3, <2>1
  <1> QED
    BY <1>2, <1>3

\* A job that goes on keeps its list; its request has to keep the rest.
LEMMA GoesSynced ==
    ASSUME LInv, Synced, NEW j \in Runners, Busy(j), NEW at \in Labels, Goes(j, at),
           at # "idle", UNCHANGED faults \/ Fails, Untouched,
           ~Fails /\ Halfway(j) /\ LeadTo(job[j].events) /\ job'[j].at = at => Halfway(j)'
    PROVE  Synced'
  <1>1. /\ job'[Other(j)] = job[Other(j)]
        /\ job'[j].events = job[j].events /\ job'[j].at = at
    BY GoesMoves DEF LInv
  <1>2. Busy(j)'
    BY <1>1 DEF Busy
  <1>3. ASSUME Undisturbed'
        PROVE  Undisturbed /\ LeadTo(job[j].events)' /\ Halfway(j)'
    <2>1. Undisturbed /\ ~Fails /\ engine' = engine
      BY <1>3, RequestFrame
    <2>2. LeadTo(job[j].events) /\ Halfway(j)
      BY <2>1 DEF Synced
    <2> QED
      BY <1>1, <2>1, <2>2 DEF LeadTo
  <1> QED
    BY <1>1, <1>2, <1>3, SyncedByOne

\* The entry of a list comes last, and a close is followed by the entry or by nothing.
LEMMA ListShapes ==
    ASSUME LInv, NEW events, LeadTo(events)
    PROVE  \/ /\ Head(events).kind = "entry" /\ Tail(events) = <<>>
              /\ engine \in Trade /\ Head(events) = Entry(engine)
           \/ /\ Head(events).kind = "close" /\ Tail(events) = <<>> /\ engine = 0
           \/ /\ Head(events).kind = "close" /\ engine \in Trade
              /\ Tail(events) = <<Entry(engine)>>
  <1>1. engine \in Trade \cup {0}
    BY DEF LInv, TypeOK
  <1>2. CASE engine # 0 /\ events = <<Entry(engine)>>
    BY <1>1, <1>2, EventTypes
  <1>3. ASSUME engine = 0, NEW t \in Trade, events = <<Close(t)>>
        PROVE  Head(events).kind = "close" /\ Tail(events) = <<>>
    BY <1>3, EventTypes
  <1>4. ASSUME engine # 0, NEW t \in Trade, events = <<Close(t), Entry(engine)>>
        PROVE  Head(events).kind = "close" /\ Tail(events) = <<Entry(engine)>>
    <2>1. Close(t) \in Event /\ Entry(engine) \in Event
      BY <1>1, <1>4, EventTypes
    <2> QED
      BY <1>4, <2>1, EventTypes
  <1> QED
    BY <1>1, <1>2, <1>3, <1>4 DEF LeadTo

\* An event that ends: an entry ends where the engine is, a close ends flat.
LEMMA DoneSynced ==
    ASSUME LInv, Synced, NEW j \in Runners, job[j].at \in EntryLabels \cup CloseLabels,
           NEW a \in Int, amt' = a, Done(j, a), UNCHANGED faults \/ Fails, Untouched,
           /\ ~Fails /\ Undisturbed /\ Halfway(j) /\ LeadTo(job[j].events)
              => IF job[j].at \in CloseLabels THEN a = 0 ELSE Follows'
    PROVE  Synced'
  <1>1. TypeOK /\ JobsFit /\ Busy(j)
    BY DEF LInv, Busy, EntryLabels, CloseLabels
  <1>2. /\ job'[Other(j)] = job[Other(j)]
        /\ job'[j] = JobFor(Tail(job[j].events), a, ~Busy(Other(j)))
        /\ job'[j].events = Tail(job[j].events)
    BY <1>1, AtTellsEvent, DoneMoves
  <1>3. /\ Head(job[j].events).kind = "close" => job[j].at \in CloseLabels
        /\ Head(job[j].events).kind = "entry" => job[j].at \in EntryLabels
    <2>1. job[j].events # <<>> /\ Fits(job[j])
      BY <1>1, AtTellsEvent DEF JobsFit
    <2> QED
      BY <2>1 DEF Fits
  <1>4. ASSUME Undisturbed'
        PROVE  /\ Undisturbed
               /\ ~Busy(j)' => Follows'
               /\ Busy(j)' => LeadTo(job[j].events)' /\ Halfway(j)'
    <2>1. Undisturbed /\ ~Fails /\ engine' = engine
      BY <1>4, RequestFrame
    <2>2. LeadTo(job[j].events) /\ Halfway(j)
      BY <1>1, <2>1 DEF Synced
    <2>3. CASE job[j].at \in EntryLabels
      <3>1. Tail(job[j].events) = <<>> /\ Follows'
        BY <1>3, <2>1, <2>2, <2>3, ListShapes DEF EntryLabels, CloseLabels
      <3> QED
        BY <1>2, <2>1, <3>1, NoJobFits DEF JobFor, Busy
    <2>4. CASE job[j].at \in CloseLabels
      <3>1. a = 0
        BY <2>1, <2>2, <2>4
      <3>2. CASE Tail(job[j].events) = <<>> /\ engine = 0
        BY <1>2, <2>1, <3>1, <3>2, NoJobFits DEF JobFor, Busy, Follows
      <3>3. CASE Tail(job[j].events) = <<Entry(engine)>> /\ engine \in Trade
        <4>1. Entry(engine) \in Event /\ Entry(engine).kind = "entry"
          BY <3>3, EventTypes
        <4>2. Tail(job[j].events) # <<>> /\ Head(Tail(job[j].events)) = Entry(engine)
          <5>1. \A e \in Event : <<e>> # <<>> /\ Head(<<e>>) = e
            OBVIOUS
          <5> QED
            BY <3>3, <4>1, <5>1
        <4>3. job'[j].at = "open_look"
          BY <1>2, <4>1, <4>2 DEF JobFor
        <4>4. engine # 0
          BY <3>3, LiveBoundAssumption DEF Trade
        <4>5. LeadTo(job[j].events)'
          BY <1>2, <2>1, <3>3, <4>4 DEF LeadTo
        <4>6. Halfway(j)'
          BY <3>1, <4>3 DEF Halfway
        <4> QED
          BY <2>1, <4>3, <4>5, <4>6 DEF Busy
      <3> QED
        BY <1>3, <2>2, <2>4, <3>2, <3>3, ListShapes DEF EntryLabels, CloseLabels
    <2> QED
      BY <2>3, <2>4
  <1> QED
    BY <1>1, <1>2, <1>4, SyncedByOne

\* A close that is tried again finds the exchange flat, or has given up flat.
LEMMA RetrySynced ==
    ASSUME LInv, Synced, NEW j \in Runners, job[j].at \in CloseLabels,
           NEW a \in Int, amt' = a, Retry(j, a), UNCHANGED faults \/ Fails, Untouched,
           ~Fails /\ Halfway(j) => a = 0
    PROVE  Synced'
  <1>1. CASE job[j].try = Attempts
    <2>1. Done(j, a)
      BY <1>1 DEF Retry
    <2> QED
      BY <2>1, DoneSynced
  <1>2. CASE job[j].try # Attempts
    <2>1. /\ job'[Other(j)] = job[Other(j)]
          /\ job'[j].events = job[j].events /\ job'[j].at = "close_look"
      BY <1>2, RetryMoves DEF LInv
    <2>2. Busy(j) /\ Busy(j)'
      BY <2>1 DEF Busy, CloseLabels
    <2>3. ASSUME Undisturbed'
          PROVE  Undisturbed /\ LeadTo(job[j].events)' /\ Halfway(j)'
      <3>1. Undisturbed /\ engine' = engine
        BY <2>3, RequestFrame
      <3>2. LeadTo(job[j].events)
        BY <2>2, <3>1 DEF Synced
      <3> QED
        BY <2>1, <3>1, <3>2 DEF LeadTo, Halfway
    <2> QED
      BY <2>1, <2>2, <2>3, SyncedByOne
  <1> QED
    BY <1>1, <1>2

\* A job starts where the exchange follows the engine; an entry starts flat.
LEMMA BeginSynced ==
    ASSUME LInv, Synced, NEW j \in Runners, NEW events \in Seq(Event), events # <<>>,
           Begin(j, events), EngineOnly, LeadTo(events)',
           Head(events).kind = "entry" => engine = 0
    PROVE  Synced'
  <1> SUFFICES ASSUME Undisturbed'
               PROVE  /\ Busy(j)' /\ ~Busy(Other(j))'
                      /\ LeadTo(job[j].events)' /\ Halfway(j)'
    BY OtherRunner DEF Synced, Quiet
  <1>1. /\ job'[j] = JobFor(events, amt, ~Busy(Other(j))) /\ job'[j].events = events
        /\ job'[Other(j)].at = job[Other(j)].at
    BY BeginMoves DEF LInv
  <1>2. Undisturbed /\ Quiet /\ ~Busy(j) /\ ~Busy(Other(j))
    BY OtherRunner DEF Undisturbed, EngineOnly, Begin, Quiet
  <1>3. Follows
    BY <1>2 DEF Synced
  <1>4. /\ job'[j].at \in {"open_look", "close_look"}
        /\ job'[j].at = "open_look" => Head(events).kind = "entry"
    BY <1>1 DEF JobFor
  <1>5. Halfway(j)'
    BY <1>3, <1>4 DEF Halfway, Follows, EngineOnly
  <1>6. LeadTo(job[j].events)'
    BY <1>1 DEF LeadTo
  <1> QED
    BY <1>1, <1>2, <1>4, <1>5, <1>6 DEF Busy

\* The steps of the engine keep it: the job has all that the engine changed.
LEMMA EngineSynced ==
    ASSUME LInv, Synced, TickEnters \/ TickExits \/ TickReverses \/ LoopExits
    PROVE  Synced'
  <1>1. /\ "tick" \in Runners /\ "loop" \in Runners
        /\ engine # 0 => engine \in Trade /\ Close(engine) \in Event
        /\ entered < MaxTrade => entered + 1 \in Trade /\ Entry(entered + 1) \in Event
        /\ 0 \notin Trade
    <2>1. engine \in Trade \cup {0} /\ TypeOK
      BY DEF LInv, TypeOK
    <2> QED
      BY <2>1, EventTypes, NextTrade DEF Runners, Trade
  <1>2. \A e \in Event : <<e>> # <<>> /\ Head(<<e>>) = e /\ <<e>> \in Seq(Event)
    OBVIOUS
  <1>3. \A e, f \in Event : /\ <<e, f>> # <<>> /\ Head(<<e, f>>) = e
                            /\ <<e, f>> \in Seq(Event)
    OBVIOUS
  <1>4. CASE TickEnters
    <2>1. /\ engine' = entered + 1 /\ entered < MaxTrade /\ engine = 0 /\ EngineOnly
          /\ Begin("tick", <<Entry(entered + 1)>>)
      BY <1>4 DEF TickEnters
    <2>2. PICK events \in Seq(Event) : events = <<Entry(entered + 1)>>
      BY <1>1, <1>2, <2>1
    <2>3. LeadTo(events)' /\ events # <<>>
      BY <1>1, <1>2, <2>1, <2>2 DEF LeadTo, Entry
    <2> QED
      BY <1>1, <2>1, <2>2, <2>3, BeginSynced
  <1>5. ASSUME NEW j \in Runners, engine # 0, engine' = 0, EngineOnly,
               Begin(j, <<Close(engine)>>)
        PROVE  Synced'
    <2>1. PICK events \in Seq(Event) : events = <<Close(engine)>>
      BY <1>1, <1>2, <1>5
    <2>2. LeadTo(events)' /\ events # <<>> /\ Head(events).kind # "entry"
      BY <1>1, <1>2, <1>5, <2>1, EventTypes DEF LeadTo
    <2> QED
      BY <1>5, <2>1, <2>2, BeginSynced
  <1>6. CASE TickReverses
    <2>1. /\ engine' = entered + 1 /\ entered < MaxTrade /\ engine # 0 /\ EngineOnly
          /\ Begin("tick", <<Close(engine), Entry(entered + 1)>>)
      BY <1>6 DEF TickReverses
    <2>2. PICK events \in Seq(Event) : events = <<Close(engine), Entry(entered + 1)>>
      BY <1>1, <1>3, <2>1
    <2>3. LeadTo(events)' /\ events # <<>> /\ Head(events).kind # "entry"
      BY <1>1, <1>3, <2>1, <2>2, EventTypes DEF LeadTo, Entry
    <2> QED
      BY <1>1, <2>1, <2>2, <2>3, BeginSynced
  <1> QED
    BY <1>1, <1>4, <1>5, <1>6 DEF TickExits, LoopExits

\* The look and the entry order keep it: they start from a flat exchange.
LEMMA OpenSynced ==
    ASSUME LInv, Synced, NEW j \in Runners, OpenLook(j) \/ OpenOrder(j)
    PROVE  Synced'
  <1>1. /\ job[j].at \in {"open_look", "open_order"} /\ job[j].at \in EntryLabels
        /\ Busy(j) /\ TypeOK /\ JobsFit /\ amt \in Int /\ Untouched
        /\ UNCHANGED faults \/ Fails
    BY DEF OpenLook, OpenOrder, EntryLabels, Busy, LInv, TypeOK
  <1>2. /\ {"open_order", "cancel"} \subseteq Labels
        /\ job[j].at \notin CloseLabels
    BY <1>1 DEF Labels, EntryLabels, CloseLabels
  <1>3. CASE OpenLook(j)
    <2>1. amt' = amt /\ job[j].at = "open_look" /\ orders' = orders
      BY <1>3 DEF OpenLook
    <2>2. CASE Goes(j, "open_order") /\ UNCHANGED faults
      BY <1>1, <1>2, <2>1, <2>2, GoesSynced DEF Halfway
    <2>3. CASE Goes(j, "cancel") /\ (amt # 0 \/ Fails)
      BY <1>1, <1>2, <2>1, <2>3, GoesSynced DEF Halfway
    <2>4. CASE Done(j, amt) /\ Fails
      BY <1>1, <2>1, <2>4, DoneSynced
    <2> QED
      BY <1>3, <2>2, <2>3, <2>4 DEF OpenLook
  <1>4. CASE OpenOrder(j)
    <2>1. Current(j).trade \in Trade /\ side[Current(j).trade] \in Int
      BY <1>1, AtTellsEvent DEF TypeOK
    <2>2. LeadTo(job[j].events) => Current(j).trade = engine
      <3>1. Head(job[j].events).kind = "entry"
        BY <1>1, AtTellsEvent DEF Current
      <3> QED
        BY <3>1, ListShapes DEF Current, Entry
    <2>3. CASE Goes(j, "cancel") /\ (amt' = amt + side[Current(j).trade] \/ Fails)
      <3>1. ~Fails /\ Halfway(j) /\ LeadTo(job[j].events) => amt' = side[engine]
        BY <1>1, <1>4, <2>1, <2>2, <2>3 DEF Halfway, OpenOrder
      <3>2. side' = side /\ engine' = engine
        BY <1>1 DEF Untouched
      <3> QED
        BY <1>1, <1>2, <2>3, <3>1, <3>2, GoesSynced DEF Halfway
    <2>4. CASE Done(j, amt') /\ Fails /\ amt' \in {amt, amt + side[Current(j).trade]}
      <3>1. PICK a \in Int : a = amt'
        BY <1>1, <2>1, <2>4
      <3>2. Done(j, a)
        BY <2>4, <3>1
      <3> QED
        BY <1>1, <2>4, <3>1, <3>2, DoneSynced
    <2> QED
      BY <1>4, <2>3, <2>4 DEF OpenOrder
  <1> QED
    BY <1>3, <1>4

\* place_tp_sl keeps it: what is left of earlier trades goes, the two orders come.
LEMMA PlaceSynced ==
    ASSUME LInv, Synced, NEW j \in Runners, PlaceCancel(j) \/ PlaceTp(j) \/ PlaceSl(j)
    PROVE  Synced'
  <1>1. /\ job[j].at \in EntryLabels /\ job[j].at \notin CloseLabels
        /\ job[j].at \in {"cancel", "tp", "sl"}
        /\ Busy(j) /\ TypeOK /\ JobsFit /\ amt \in Int /\ Untouched /\ amt' = amt
        /\ UNCHANGED faults \/ Fails
    BY DEF PlaceCancel, PlaceTp, PlaceSl, EntryLabels, CloseLabels, Busy, LInv, TypeOK
  <1>2. {"tp", "sl"} \subseteq Labels /\ side' = side /\ engine' = engine
    BY <1>1 DEF Labels, Untouched
  <1>3. LeadTo(job[j].events) => Current(j).trade = engine /\ engine \in Trade
    <2>1. Head(job[j].events).kind = "entry"
      BY <1>1, AtTellsEvent DEF Current
    <2> QED
      BY <2>1, ListShapes DEF Current, Entry
  <1>4. CASE PlaceCancel(j)
    <2>1. Goes(j, "tp") /\ job[j].at = "cancel" /\ (Fails \/ orders' = {})
      BY <1>4 DEF PlaceCancel
    <2> QED
      BY <1>1, <1>2, <2>1, GoesSynced DEF Halfway
  <1>5. CASE PlaceTp(j)
    <2>1. Goes(j, "sl") /\ job[j].at = "tp" /\ (Fails \/ orders' = Placed(j, "tp"))
      BY <1>5 DEF PlaceTp
    <2>2. ~Fails /\ Halfway(j) /\ LeadTo(job[j].events) => orders' = {TpOf(engine)}
      BY <1>3, <2>1 DEF Halfway, Placed, TpOf
    <2>3. Halfway(j) => amt \in {0, side[engine]}
      BY <2>1 DEF Halfway
    <2> QED
      BY <1>1, <1>2, <2>1, <2>2, <2>3, GoesSynced DEF Halfway, TpOf
  <1>6. CASE PlaceSl(j)
    <2>1. Done(j, amt) /\ job[j].at = "sl" /\ (Fails \/ orders' = Placed(j, "sl"))
      BY <1>6 DEF PlaceSl
    <2>2. ASSUME ~Fails, Halfway(j), LeadTo(job[j].events) PROVE Follows'
      <3>1. Current(j).trade = engine /\ engine \in Trade /\ engine # 0
        BY <1>3, <2>2 DEF Trade
      <3>2. OrdersOf(engine) = {TpOf(engine)} \cup {[trade |-> engine, kind |-> "sl"]}
        BY TwoOrders DEF TpOf
      <3>3. orders' = orders \cup {[trade |-> engine, kind |-> "sl"]}
        BY <2>1, <2>2, <3>1 DEF Placed
      <3>4. amt' \in {0, side[engine]} /\ (orders = {TpOf(engine)} \/ (amt' = 0 /\ orders = {}))
        BY <1>1, <2>1, <2>2 DEF Halfway
      <3>5. OrdersOf(engine)' = OrdersOf(engine)
        BY <1>2 DEF OrdersOf
      <3> QED
        BY <1>2, <3>1, <3>2, <3>3, <3>4, <3>5 DEF Follows
    <2> QED
      BY <1>1, <2>1, <2>2, DoneSynced
  <1> QED
    BY <1>4, <1>5, <1>6

\* The look before a close and its order keep it: they end flat.
LEMMA CloseSynced ==
    ASSUME LInv, Synced, NEW j \in Runners,
           CloseLook(j) \/ CloseOrder(j) \/ CloseCancel(j)
    PROVE  Synced'
  <1>1. /\ job[j].at \in CloseLabels /\ Busy(j) /\ TypeOK /\ JobsFit
        /\ amt \in Int /\ amt \in -1..1 /\ Untouched /\ (UNCHANGED faults \/ Fails)
    BY DEF CloseLook, CloseOrder, CloseCancel, CloseLabels, Busy, LInv, TypeOK, NeverDoubled
  <1>2. CASE CloseLook(j)
    <2>1. amt' = amt /\ job[j].at = "close_look"
      BY <1>2 DEF CloseLook
    <2>2. CASE Done(j, amt) /\ (amt = 0 \/ Fails)
      BY <1>1, <2>1, <2>2, DoneSynced
    <2>3. CASE job' = [job EXCEPT ![j].at = "close_order", ![j].read = amt]
               /\ UNCHANGED faults
      <3>1. job[j] \in JobType
        BY <1>1 DEF TypeOK
      <3>2. /\ job'[Other(j)] = job[Other(j)]
            /\ job'[j] = [job[j] EXCEPT !.at = "close_order", !.read = amt]
        BY <1>1, <2>3, OtherRunner DEF TypeOK
      <3>3. /\ job'[j].at = "close_order" /\ job'[j].read = amt
            /\ job'[j].events = job[j].events
        BY <3>1, <3>2 DEF JobType
      <3>4. Undisturbed' => Undisturbed /\ LeadTo(job[j].events)' /\ Halfway(j)'
        <4>1. Undisturbed' => Undisturbed /\ engine' = engine
          BY <1>1, RequestFrame
        <4>2. Undisturbed => LeadTo(job[j].events)
          BY <1>1 DEF Synced
        <4> QED
          BY <2>1, <3>3, <4>1, <4>2 DEF LeadTo, Halfway
      <3>5. Busy(j)'
        BY <3>3 DEF Busy
      <3> QED
        BY <1>1, <3>2, <3>4, <3>5, SyncedByOne
    <2> QED
      BY <1>2, <2>2, <2>3 DEF CloseLook
  <1>3. CASE CloseOrder(j)
    <2> DEFINE left == Reduced(amt, CloseSize(j))
    <2>1. Halfway(j) => amt \in {0, CloseSize(j)}
      BY <1>3 DEF CloseOrder, Halfway, CloseSize
    <2>2. CloseSize(j) \in Int
      BY <1>1 DEF CloseSize, TypeOK, JobType
    <2>3. left \in {0, amt} /\ (amt \in {0, CloseSize(j)} => left = 0)
      BY <1>1, <2>2, ReducedUnit, ReducedSelf
    <2>4. PICK a \in Int : a = amt'
      BY <1>1, <1>3, <2>3 DEF CloseOrder
    <2>5. CASE Goes(j, "close_cancel") /\ amt' = left
      <3>1. "close_cancel" \in Labels
        BY DEF Labels
      <3>2. Halfway(j) => amt' = 0
        BY <2>1, <2>3, <2>5
      <3> QED
        BY <1>1, <2>5, <3>1, <3>2, GoesSynced DEF Halfway
    <2>6. CASE Retry(j, a) /\ (a = left \/ Fails)
      <3>1. ~Fails /\ Halfway(j) => a = 0
        BY <2>1, <2>3, <2>6
      <3> QED
        BY <1>1, <2>4, <2>6, <3>1, RetrySynced
    <2>7. CASE Done(j, a) /\ Fails
      BY <1>1, <2>4, <2>7, DoneSynced
    <2> QED
      BY <1>3, <2>4, <2>5, <2>6, <2>7 DEF CloseOrder
  <1>4. CASE CloseCancel(j)
    <2>1. Done(j, amt) /\ amt' = amt /\ (Halfway(j) => amt = 0)
      BY <1>4 DEF CloseCancel, Halfway
    <2> QED
      BY <1>1, <2>1, DoneSynced
  <1> QED
    BY <1>2, <1>3, <1>4

\* A stop order that fills takes the position to 0, and the other order stays.
LEMMA TriggerSynced ==
    ASSUME LInv, Synced, NEW o \in orders, Trigger(o)
    PROVE  Synced'
  <1>1. /\ amt' = 0 /\ orders' = orders \ {o} /\ Sign(amt) = side[o.trade]
        /\ UNCHANGED faults /\ Untouched /\ o \in Order
    BY DEF Trigger, LInv, TypeOK
  <1>2. /\ engine' = engine /\ side' = side /\ (Undisturbed' <=> Undisturbed)
        /\ OrdersOf(engine)' = OrdersOf(engine)
    BY <1>1 DEF Untouched, Undisturbed, OrdersOf
  <1>3. amt # 0
    <2>1. side[o.trade] \in {1, -1}
      BY <1>1 DEF Order, LInv, TypeOK
    <2> QED
      BY <1>1, <2>1 DEF Sign
  <1>4. \A j \in Runners : /\ job'[j].events = job[j].events /\ job'[j].at = job[j].at
                           /\ job'[j].read = job[j].read
    <2>1. SUFFICES ASSUME NEW j \in Runners
                   PROVE  /\ job'[j].events = job[j].events /\ job'[j].at = job[j].at
                          /\ job'[j].read = job[j].read
      OBVIOUS
    <2>2. job[j] \in JobType
      BY DEF LInv, TypeOK
    <2>3. job'[j] = [job[j] EXCEPT !.clean = job[j].clean /\ ~Busy(j)]
      BY <2>2 DEF Trigger
    <2> QED
      BY <2>2, <2>3 DEF JobType
  <1>5. ASSUME Undisturbed, Quiet PROVE Follows'
    <2>1. Follows
      BY <1>5 DEF Synced
    <2>2. engine # 0 /\ orders = OrdersOf(engine)
      BY <1>3, <2>1 DEF Follows
    <2>3. OrdersOf(engine) \ {o} # {}
      <3>1. TpOf(engine) # [trade |-> engine, kind |-> "sl"]
        BY DEF TpOf
      <3> QED
        BY <3>1, TwoOrders DEF TpOf
    <2> QED
      BY <1>1, <1>2, <2>2, <2>3 DEF Follows
  <1>6. ASSUME Undisturbed, NEW j \in Runners, Busy(j)
        PROVE  ~Busy(Other(j)) /\ LeadTo(job[j].events)' /\ Halfway(j)'
    <2>1. ~Busy(Other(j)) /\ LeadTo(job[j].events) /\ Halfway(j)
      BY <1>6 DEF Synced
    <2>2. LeadTo(job[j].events)'
      BY <1>2, <1>4, <2>1 DEF LeadTo
    <2>3. Halfway(j)'
      BY <1>1, <1>2, <1>3, <1>4, <2>1 DEF Halfway
    <2> QED
      BY <2>1, <2>2, <2>3
  <1>7. \A j \in Runners : (Busy(j)' <=> Busy(j)) /\ (Busy(Other(j))' <=> Busy(Other(j)))
    BY <1>4, OtherRunner DEF Busy
  <1>8. Quiet' <=> Quiet
    BY <1>7 DEF Quiet
  <1>9. Undisturbed => (Quiet' => Follows')
    BY <1>5, <1>8
  <1>10. \A j \in Runners : Undisturbed /\ Busy(j)' =>
            ~Busy(Other(j))' /\ LeadTo(job[j].events)' /\ Halfway(j)'
    BY <1>6, <1>7
  <1> QED
    BY <1>2, <1>9, <1>10 DEF Synced

\* While nothing fails, the exchange follows the engine in every reachable state.
LEMMA SyncedInvariance == Spec => []Synced
  <1>1. Init => Synced
    <2>1. SUFFICES ASSUME Init PROVE Synced
      OBVIOUS
    <2>2. \A j \in Runners : ~Busy(j)
      BY <2>1, NoJobFits DEF Init, Busy
    <2> QED
      BY <2>1, <2>2 DEF Init, Synced, Follows
  <1>2. LInv /\ Synced /\ [Next]_vars => Synced'
    <2>1. SUFFICES ASSUME LInv, Synced, [Next]_vars PROVE Synced'
      OBVIOUS
    <2>2. CASE TickEnters \/ TickExits \/ TickReverses \/ LoopExits
      BY <2>1, <2>2, EngineSynced
    <2>3. ASSUME NEW j \in Runners, OpenLook(j) \/ OpenOrder(j) PROVE Synced'
      BY <2>1, <2>3, OpenSynced
    <2>4. ASSUME NEW j \in Runners, PlaceCancel(j) \/ PlaceTp(j) \/ PlaceSl(j)
          PROVE  Synced'
      BY <2>1, <2>4, PlaceSynced
    <2>5. ASSUME NEW j \in Runners, CloseLook(j) \/ CloseOrder(j) \/ CloseCancel(j)
          PROVE  Synced'
      BY <2>1, <2>5, CloseSynced
    <2>6. ASSUME NEW o \in orders, Trigger(o) PROVE Synced'
      BY <2>1, <2>6, TriggerSynced
    <2>7. CASE Restart
      <3>1. restarts' # 0
        BY <2>1, <2>7 DEF Restart, LInv, TypeOK
      <3> QED
        BY <3>1 DEF Synced, Undisturbed
    <2>8. CASE UNCHANGED vars
      <3>1. \A j \in Runners : /\ Busy(j)' <=> Busy(j)
                               /\ Busy(Other(j))' <=> Busy(Other(j))
                               /\ LeadTo(job[j].events)' <=> LeadTo(job[j].events)
                               /\ Halfway(j)' <=> Halfway(j)
        BY <2>8 DEF vars, Busy, LeadTo, Halfway
      <3>2. (Quiet' <=> Quiet) /\ (Follows' <=> Follows) /\ (Undisturbed' <=> Undisturbed)
        BY <2>8 DEF vars, Quiet, Busy, Follows, OrdersOf, Undisturbed
      <3> QED
        BY <2>1, <3>1, <3>2 DEF Synced
    <2> QED
      BY <2>1, <2>2, <2>3, <2>4, <2>5, <2>6, <2>7, <2>8 DEF Next
  <1> QED
    BY <1>1, <1>2, Invariance, PTL DEF Spec

\* Once the requests are done, and if none of them failed, nothing restarted and the
\* jobs ran one after the other, the exchange is where the engine is, for any number
\* of trades (_execute_verify_notify carries every event of every tick over).
THEOREM SyncedWhenQuiet == Spec => []QuietMeansSynced
  <1>1. Synced => QuietMeansSynced
    BY DEF Synced, Undisturbed, Follows, QuietMeansSynced
  <1> QED
    BY <1>1, SyncedInvariance, PTL

-----------------------------------------------------------------------------
(* Guest passes                                                            *)

\* What holds of a row, given until when it was granted and when it was last visited.
Sound(pass, grant, visit) ==
    /\ grant <= pass.expires
    /\ pass.expires <= pass.limit \/ BornBeyond(pass)
    /\ pass.sliding # 0 => pass.expires + Slack > Min({visit + pass.sliding, pass.limit})

RowsSound == \A i \in Issued : Sound(passes[i], granted[i], visited[i])

VisitsPast == \A i \in PassId : visited[i] <= now

CookiesBacked == \A g \in Guest : cookie[g].pass # 0 => cookie[g].pass \in Issued

\* A cookie outlasts the row and, if the row slides, the limit up to which it may.
Outlasts(end, pass) ==
    pass.expires <= end /\ (pass.sliding # 0 => pass.limit <= end)

CookiesLast ==
    \A g \in Guest : cookie[g].pass \in Issued =>
        \/ g \in extended
        \/ /\ passes[cookie[g].pass].sliding # 0
           /\ passes[cookie[g].pass].limit = Never
        \/ Outlasts(cookie[g].exp, passes[cookie[g].pass])

AInv == AccessTypeOK /\ RowsSound /\ VisitsPast /\ CookiesBacked /\ CookiesLast

-----------------------------------------------------------------------------
(* Numbers                                                                 *)

\* The greater of two numbers.
LEMMA MaxOfTwo ==
    ASSUME NEW a \in Nat, NEW b \in Nat
    PROVE  Max({a, b}) \in {a, b} /\ Max({a, b}) >= a /\ Max({a, b}) >= b
  <1>1. \E x \in {a, b} : \A y \in {a, b} : x >= y
    OBVIOUS
  <1> QED
    BY <1>1 DEF Max

\* The smaller of two numbers.
LEMMA MinOfTwo ==
    ASSUME NEW a \in Nat, NEW b \in Nat
    PROVE  Min({a, b}) \in {a, b} /\ Min({a, b}) <= a /\ Min({a, b}) <= b
  <1>1. \E x \in {a, b} : \A y \in {a, b} : x <= y
    OBVIOUS
  <1> QED
    BY <1>1 DEF Min

\* No expiry, limit or cookie of the model gets as far as Never.
LEMMA NeverIsFar ==
    /\ Never \in Nat
    /\ \A ttl \in Ttl : \A days \in Days \union {Long} : Horizon + days + 2 * ttl <= Never
  <1> DEFINE Limits == Days \union {Long}
  <1>1. Horizon \in Nat /\ Ttl \subseteq Nat /\ Limits \subseteq Nat
    BY AccessAssumption
  <1>2. Max(Ttl) \in Nat /\ \A ttl \in Ttl : ttl <= Max(Ttl)
    <2>1. PICK top \in Ttl : \A ttl \in Ttl : top >= ttl
      BY <1>1, AccessAssumption
    <2>2. \E longest \in Ttl : \A ttl \in Ttl : longest >= ttl
      BY <2>1
    <2>3. Max(Ttl) \in Ttl /\ \A ttl \in Ttl : Max(Ttl) >= ttl
      BY <2>2 DEF Max
    <2> QED
      BY <1>1, <2>3
  <1>3. Max(Limits) \in Nat /\ \A days \in Limits : days <= Max(Limits)
    <2>1. PICK top \in Limits : \A days \in Limits : top >= days
      BY <1>1, AccessAssumption
    <2>2. \E longest \in Limits : \A days \in Limits : longest >= days
      BY <2>1
    <2>3. Max(Limits) \in Limits /\ \A days \in Limits : Max(Limits) >= days
      BY <2>2 DEF Max
    <2> QED
      BY <1>1, <2>3
  <1>4. Never = Horizon + Max(Limits) + 2 * Max(Ttl)
    BY DEF Never
  <1> HIDE DEF Limits
  <1>5. Never \in Nat
    BY <1>1, <1>2, <1>3, <1>4
  <1>6. \A ttl \in Ttl : \A days \in Limits : Horizon + days + 2 * ttl <= Never
    BY <1>1, <1>2, <1>3, <1>4
  <1> QED
    BY <1>5, <1>6 DEF Limits

\* A row is told from a pass that was not issued.
LEMMA RowOf ==
    ASSUME AccessTypeOK, NEW i \in Issued
    PROVE  i \in PassId /\ passes[i] \in Row
  BY DEF AccessTypeOK, Issued

\* The fields of a row.
LEMMA RowFields ==
    ASSUME NEW pass \in Row
    PROVE  /\ pass # NoPass /\ pass.expires \in Nat /\ pass.expires <= Never
           /\ pass.sliding \in {0} \union Ttl /\ pass.sliding \in Nat
           /\ pass.limit \in Nat /\ pass.limit <= Never
  <1>1. Never \in Nat /\ Ttl \subseteq Nat
    BY NeverIsFar, AccessAssumption
  <1>2. pass.issued = TRUE /\ NoPass.issued = FALSE
    BY DEF Row, NoPass
  <1>3. pass # NoPass
    BY <1>2
  <1>4. /\ pass.expires \in 0..Never /\ pass.limit \in 0..Never
        /\ pass.sliding \in {0} \union Ttl
    BY DEF Row
  <1>5. /\ pass.expires \in Nat /\ pass.expires <= Never
        /\ pass.limit \in Nat /\ pass.limit <= Never
    BY <1>1, <1>4
  <1>6. pass.sliding \in Nat
    <2>1. {0} \union Ttl \subseteq Nat
      BY <1>1
    <2> QED
      BY <1>4, <2>1
  <1> QED
    BY <1>3, <1>4, <1>5, <1>6

\* A visit leaves a row as it is, or moves its expiry on, up to the limit at most.
LEMMA SlideMoves ==
    ASSUME NEW pass \in Row, now \in 0..Horizon
    PROVE  /\ Slide(pass) \in Row
           /\ Slide(pass).sliding = pass.sliding /\ Slide(pass).limit = pass.limit
           /\ pass.expires <= Slide(pass).expires
           /\ Slide(pass) = pass \/ (pass.sliding # 0 /\ Slide(pass).expires <= pass.limit)
           /\ pass.sliding # 0 =>
                  Slide(pass).expires + Slack > Min({now + pass.sliding, pass.limit})
  <1> DEFINE target == Min({now + pass.sliding, pass.limit})
  <1>1. /\ pass.expires \in Nat /\ pass.sliding \in Nat /\ pass.limit \in Nat
        /\ pass.limit <= Never /\ Never \in Nat /\ now \in Nat /\ Slack \in Nat \ {0}
    BY RowFields, NeverIsFar, AccessAssumption
  <1>2. target \in Nat /\ target <= now + pass.sliding /\ target <= pass.limit
    <2>1. now + pass.sliding \in Nat
      BY <1>1
    <2> QED
      BY <1>1, <2>1, MinOfTwo
  <1>3. Slide(pass) = IF pass.sliding = 0 \/ target < pass.expires + Slack THEN pass
                      ELSE [pass EXCEPT !.expires = target]
    BY DEF Slide
  <1> HIDE DEF target
  <1>4. CASE pass.sliding = 0 \/ target < pass.expires + Slack
    BY <1>1, <1>2, <1>3, <1>4 DEF target
  <1>5. CASE ~(pass.sliding = 0 \/ target < pass.expires + Slack)
    <2>1. Slide(pass) = [pass EXCEPT !.expires = target]
      BY <1>3, <1>5
    <2>2. target \in 0..Never /\ target >= pass.expires + Slack
      BY <1>1, <1>2, <1>5
    <2>3. /\ Slide(pass) \in Row /\ Slide(pass).expires = target
          /\ Slide(pass).sliding = pass.sliding /\ Slide(pass).limit = pass.limit
      BY <2>1, <2>2 DEF Row
    <2>4. pass.expires <= target /\ target + Slack > target
      BY <1>1, <1>2, <2>2
    <2> QED
      BY <1>2, <1>5, <2>3, <2>4 DEF target
  <1> QED
    BY <1>4, <1>5

\* A sound row is sound after a visit.
LEMMA SlideSound ==
    ASSUME NEW pass \in Row, now \in 0..Horizon, NEW grant \in Nat, NEW visit,
           Sound(pass, grant, visit)
    PROVE  Sound(Slide(pass), grant, now)
  <1>1. /\ pass.expires \in Nat /\ pass.limit \in Nat /\ Slide(pass).expires \in Nat
        /\ Slide(pass) \in Row
    BY SlideMoves, RowFields
  <1>2. grant <= Slide(pass).expires
    <2>1. grant <= pass.expires /\ pass.expires <= Slide(pass).expires
      BY SlideMoves DEF Sound
    <2> QED
      BY <1>1, <2>1
  <1>3. Slide(pass).expires <= Slide(pass).limit \/ BornBeyond(Slide(pass))
    BY <1>1, SlideMoves DEF Sound
  <1>4. Slide(pass).sliding # 0 =>
            Slide(pass).expires + Slack > Min({now + Slide(pass).sliding, Slide(pass).limit})
    BY SlideMoves
  <1> QED
    BY <1>2, <1>3, <1>4 DEF Sound

\* A fresh cookie outlasts its row, unless the row slides without a limit.
LEMMA CookieOutlasts ==
    ASSUME NEW pass \in Row, now \in 0..Horizon
    PROVE  /\ CookieEnd(pass) \in 0..Never
           /\ (pass.sliding # 0 /\ pass.limit = Never) \/ Outlasts(CookieEnd(pass), pass)
  <1> DEFINE cap == IF pass.limit = Never THEN now + Long ELSE pass.limit
  <1>1. /\ pass.expires \in Nat /\ pass.expires <= Never
        /\ pass.limit \in Nat /\ pass.limit <= Never /\ Never \in Nat
    BY RowFields, NeverIsFar
  <1>2. now + Long \in Nat /\ now + Long <= Never
    <2>1. PICK ttl \in Ttl : Horizon + Long + 2 * ttl <= Never
      BY NeverIsFar, AccessAssumption
    <2> QED
      BY <1>1, <2>1, AccessAssumption
  <1>3. cap \in Nat /\ cap <= Never
    BY <1>1, <1>2
  <1>4. CookieEnd(pass) = IF pass.sliding = 0 THEN pass.expires ELSE Max({pass.expires, cap})
    BY DEF CookieEnd
  <1>5. /\ Max({pass.expires, cap}) \in {pass.expires, cap}
        /\ Max({pass.expires, cap}) >= pass.expires /\ Max({pass.expires, cap}) >= cap
    BY <1>1, <1>3, MaxOfTwo
  <1>6. CASE pass.sliding = 0
    <2>1. CookieEnd(pass) = pass.expires
      BY <1>4, <1>6
    <2> QED
      BY <1>1, <1>6, <2>1 DEF Outlasts
  <1>7. CASE pass.sliding # 0
    <2>1. CookieEnd(pass) = Max({pass.expires, cap})
      BY <1>4, <1>7
    <2>2. CookieEnd(pass) \in 0..Never
      BY <1>1, <1>3, <1>5, <2>1
    <2>3. pass.limit # Never => cap = pass.limit
      OBVIOUS
    <2> HIDE DEF cap
    <2>4. pass.limit # Never => Outlasts(CookieEnd(pass), pass)
      BY <1>1, <1>3, <1>5, <2>1, <2>3 DEF Outlasts
    <2> QED
      BY <1>7, <2>2, <2>4
  <1> QED
    BY <1>6, <1>7

-----------------------------------------------------------------------------
(* What a request makes of the rows                                        *)

\* One row changes, the others and the set of issued passes stay.
LEMMA OneRow ==
    ASSUME AccessTypeOK, NEW i \in Issued, NEW row \in Row,
           passes' = [passes EXCEPT ![i] = row]
    PROVE  /\ passes' \in [PassId -> Row \union {NoPass}] /\ Issued' = Issued
           /\ passes'[i] = row /\ \A k \in PassId \ {i} : passes'[k] = passes[k]
  <1>1. /\ passes \in [PassId -> Row \union {NoPass}] /\ i \in PassId
        /\ passes[i] # NoPass
    BY DEF AccessTypeOK, Issued
  <1>2. row # NoPass
    BY RowFields
  <1>3. /\ passes' \in [PassId -> Row \union {NoPass}]
        /\ passes'[i] = row /\ \A k \in PassId \ {i} : passes'[k] = passes[k]
    BY <1>1
  <1>4. Issued' = Issued
    BY <1>1, <1>2, <1>3 DEF Issued
  <1> QED
    BY <1>3, <1>4

\* A visit, of a browser that logs in or of one that is logged in.
LEMMA VisitRow ==
    ASSUME AInv, NEW i \in Issued, passes' = [passes EXCEPT ![i] = Slide(passes[i])],
           visited' = [visited EXCEPT ![i] = now], UNCHANGED <<now, granted>>
    PROVE  /\ passes' \in [PassId -> Row \union {NoPass}] /\ Issued' = Issued
           /\ visited' \in [PassId -> 0..Horizon] /\ VisitsPast' /\ RowsSound'
           /\ passes'[i] = Slide(passes[i]) /\ passes'[i] \in Row
           /\ \A k \in Issued :
                 /\ passes'[k].sliding = passes[k].sliding
                 /\ passes'[k].limit = passes[k].limit
                 /\ \A end \in Nat : Outlasts(end, passes[k]) => Outlasts(end, passes'[k])
  <1>1. /\ AccessTypeOK /\ i \in PassId /\ passes[i] \in Row /\ now \in 0..Horizon
        /\ now \in Nat
    BY RowOf, AccessAssumption DEF AInv, AccessTypeOK
  <1>2. /\ Slide(passes[i]) \in Row
        /\ Slide(passes[i]).sliding = passes[i].sliding
        /\ Slide(passes[i]).limit = passes[i].limit
        /\ \/ Slide(passes[i]) = passes[i]
           \/ passes[i].sliding # 0 /\ Slide(passes[i]).expires <= passes[i].limit
    BY <1>1, SlideMoves
  <1>3. /\ passes' \in [PassId -> Row \union {NoPass}] /\ Issued' = Issued
        /\ passes'[i] = Slide(passes[i]) /\ \A k \in PassId \ {i} : passes'[k] = passes[k]
    BY <1>1, <1>2, OneRow
  <1>4. /\ visited' \in [PassId -> 0..Horizon] /\ visited'[i] = now
        /\ \A k \in PassId \ {i} : visited'[k] = visited[k]
    BY <1>1 DEF AccessTypeOK
  <1>5. VisitsPast'
    BY <1>1, <1>4 DEF AInv, VisitsPast
  <1>6. RowsSound'
    <2>1. granted[i] \in Nat
      BY <1>1, NeverIsFar DEF AccessTypeOK
    <2>2. Sound(passes[i], granted[i], visited[i])
      BY DEF AInv, RowsSound
    <2>3. Sound(passes'[i], granted[i], now)
      BY <1>1, <1>3, <2>1, <2>2, SlideSound
    <2>4. ASSUME NEW k \in Issued PROVE Sound(passes'[k], granted[k], visited'[k])
      <3>1. k \in PassId
        BY DEF Issued
      <3>2. Sound(passes[k], granted[k], visited[k])
        BY DEF AInv, RowsSound
      <3> QED
        BY <1>3, <1>4, <2>3, <3>1, <3>2
    <2>5. \A k \in Issued : Sound(passes'[k], granted'[k], visited'[k])
      BY <2>4
    <2>6. RowsSound' <=> \A k \in Issued' : Sound(passes'[k], granted'[k], visited'[k])
      BY DEF RowsSound, Sound, BornBeyond
    <2> QED
      BY <1>3, <2>5, <2>6
  <1>7. ASSUME NEW k \in Issued
        PROVE  /\ passes'[k].sliding = passes[k].sliding
               /\ passes'[k].limit = passes[k].limit
               /\ \A end \in Nat : Outlasts(end, passes[k]) => Outlasts(end, passes'[k])
    <2>1. CASE k = i
      <3>1. /\ Slide(passes[i]).expires \in Nat /\ passes[i].limit \in Nat
        BY <1>1, <1>2, RowFields
      <3>2. ASSUME NEW end \in Nat, Outlasts(end, passes[i])
            PROVE  Outlasts(end, Slide(passes[i]))
        <4>1. CASE Slide(passes[i]) = passes[i]
          BY <3>2, <4>1
        <4>2. CASE passes[i].sliding # 0 /\ Slide(passes[i]).expires <= passes[i].limit
          BY <1>2, <3>1, <3>2, <4>2 DEF Outlasts
        <4> QED
          BY <1>2, <4>1, <4>2
      <3> QED
        BY <1>2, <1>3, <2>1, <3>2
    <2>2. CASE k # i
      BY <1>3, <2>2 DEF Issued
    <2> QED
      BY <2>1, <2>2
  <1> QED
    BY <1>2, <1>3, <1>4, <1>5, <1>6, <1>7

-----------------------------------------------------------------------------
(* One lemma per action                                                    *)

\* A new pass is granted what it starts with, and nobody holds its cookie yet.
LEMMA CreateKeeps ==
    ASSUME AInv, NEW ttl \in Ttl, NEW sliding \in BOOLEAN, NEW days \in {0} \union Days,
           Create(ttl, sliding, days)
    PROVE  AInv'
  <1> DEFINE limit == IF sliding /\ days # 0 THEN now + days ELSE Never
             row == [issued |-> TRUE, expires |-> now + ttl, revoked |-> FALSE,
                     sliding |-> IF sliding THEN ttl ELSE 0, limit |-> limit]
  <1>1. /\ now \in Nat /\ now <= Horizon /\ ttl \in Nat /\ ttl >= 1 /\ Never \in Nat
        /\ Horizon \in Nat /\ Slack \in Nat /\ Slack >= 1 /\ Long \in Nat
    <2>1. Horizon \in Nat /\ now \in 0..Horizon
      BY AccessAssumption DEF AInv, AccessTypeOK
    <2> QED
      BY <2>1, NeverIsFar, AccessAssumption
  <1>2. now + ttl \in Nat /\ now + ttl <= Never
    <2>1. Horizon + Long + 2 * ttl <= Never
      BY NeverIsFar
    <2> QED
      BY <1>1, <2>1
  <1>3. days # 0 => days \in Nat /\ now + days <= Never
    <2>1. ASSUME days # 0 PROVE days \in Nat /\ now + days <= Never
      <3>1. days \in Days /\ days \in Nat
        BY <2>1, AccessAssumption
      <3>2. Horizon + days + 2 * ttl <= Never
        BY <3>1, NeverIsFar
      <3> QED
        BY <1>1, <3>1, <3>2
    <2> QED
      BY <2>1
  <1>4. limit \in Nat /\ limit <= Never
    BY <1>1, <1>3
  <1>5. row \in Row /\ row # NoPass
    <2>1. row \in Row
      BY <1>1, <1>2, <1>4 DEF Row
    <2> QED
      BY <2>1, RowFields
  <1>6. PICK i \in PassId :
            /\ Issued = 1..(i - 1)
            /\ passes' = [passes EXCEPT ![i] = row]
            /\ granted' = [granted EXCEPT ![i] = now + ttl]
    BY DEF Create
  <1>7. UNCHANGED <<now, cookie, visited, extended>>
    BY DEF Create
  <1>8. i \notin Issued /\ i \in Nat
    BY <1>6, AccessAssumption DEF PassId
  <1>9. /\ passes' \in [PassId -> Row \union {NoPass}] /\ passes'[i] = row
        /\ \A k \in PassId \ {i} : passes'[k] = passes[k]
        /\ granted' \in [PassId -> 0..Never] /\ granted'[i] = now + ttl
        /\ \A k \in PassId \ {i} : granted'[k] = granted[k]
    BY <1>1, <1>2, <1>5, <1>6 DEF AInv, AccessTypeOK
  <1>10. Issued' = Issued \union {i}
    BY <1>5, <1>9 DEF Issued
  <1>11. Sound(row, now + ttl, visited[i])
    <2>1. visited[i] \in Nat /\ visited[i] <= now
      BY <1>1 DEF AInv, AccessTypeOK, VisitsPast
    <2>2. row.expires = now + ttl /\ row.limit = limit
          /\ row.sliding = IF sliding THEN ttl ELSE 0
      OBVIOUS
    <2> HIDE DEF row
    <2>3. row.expires <= row.limit \/ BornBeyond(row)
      <3>1. CASE sliding /\ days # 0
        <4>1. row.limit = now + days /\ row.sliding = ttl /\ days \in Days
          BY <2>2, <3>1
        <4>2. CASE ttl <= days
          BY <1>1, <1>3, <2>2, <3>1, <4>1, <4>2
        <4>3. CASE days < ttl
          <5>1. row.expires + days = row.limit + row.sliding
            BY <1>1, <1>3, <2>2, <3>1, <4>1
          <5> QED
            BY <4>1, <4>3, <5>1 DEF BornBeyond
        <4> QED
          BY <1>1, <1>3, <3>1, <4>2, <4>3
      <3>2. CASE ~(sliding /\ days # 0)
        BY <1>2, <2>2, <3>2
      <3> QED
        BY <3>1, <3>2
    <2>4. row.sliding # 0 =>
             row.expires + Slack > Min({visited[i] + row.sliding, row.limit})
      <3>1. ASSUME row.sliding # 0
            PROVE  row.expires + Slack > Min({visited[i] + row.sliding, row.limit})
        <4>1. row.sliding = ttl
          BY <2>2, <3>1
        <4>2. /\ Min({visited[i] + ttl, limit}) \in {visited[i] + ttl, limit}
              /\ Min({visited[i] + ttl, limit}) <= visited[i] + ttl
          BY <1>1, <1>4, <2>1, MinOfTwo
        <4> QED
          BY <1>1, <1>4, <2>1, <2>2, <4>1, <4>2
      <3> QED
        BY <3>1
    <2>5. now + ttl <= row.expires
      BY <1>2, <2>2
    <2> QED
      BY <2>3, <2>4, <2>5 DEF Sound
  <1>12. RowsSound'
    <2>1. ASSUME NEW k \in Issued' PROVE Sound(passes'[k], granted'[k], visited'[k])
      <3>1. CASE k = i
        BY <1>7, <1>9, <1>11, <3>1
      <3>2. CASE k # i
        <4>1. k \in Issued /\ k \in PassId
          BY <1>10, <3>2 DEF Issued
        <4>2. Sound(passes[k], granted[k], visited[k])
          BY <4>1 DEF AInv, RowsSound
        <4> QED
          BY <1>7, <1>9, <3>2, <4>1, <4>2
      <3> QED
        BY <3>1, <3>2
    <2>2. RowsSound' <=> \A k \in Issued' : Sound(passes'[k], granted'[k], visited'[k])
      BY DEF RowsSound, Sound, BornBeyond
    <2> QED
      BY <2>1, <2>2
  <1>13. \A g \in Guest : cookie[g].pass # i
    <2>1. \A g \in Guest : cookie[g].pass # 0 => cookie[g].pass \in Issued
      BY DEF AInv, CookiesBacked
    <2>2. i # 0
      BY DEF PassId
    <2> QED
      BY <1>8, <2>1, <2>2
  <1>14. CookiesLast' /\ CookiesBacked' /\ VisitsPast'
    <2>1. CookiesBacked' /\ VisitsPast'
      BY <1>7, <1>10 DEF AInv, CookiesBacked, VisitsPast
    <2>2. ASSUME NEW g \in Guest, cookie[g].pass \in Issued'
          PROVE  \/ g \in extended
                 \/ /\ passes'[cookie[g].pass].sliding # 0
                    /\ passes'[cookie[g].pass].limit = Never
                 \/ Outlasts(cookie[g].exp, passes'[cookie[g].pass])
      <3>1. cookie[g].pass \in Issued /\ cookie[g].pass \in PassId
        BY <1>10, <1>13, <2>2 DEF Issued
      <3>2. passes'[cookie[g].pass] = passes[cookie[g].pass]
        BY <1>9, <1>13, <3>1
      <3> QED
        BY <3>1, <3>2 DEF AInv, CookiesLast
    <2> QED
      BY <1>7, <2>1, <2>2 DEF CookiesLast, Outlasts, Never
  <1> QED
    BY <1>7, <1>9, <1>12, <1>14 DEF AInv, AccessTypeOK

\* A login leaves a cookie that lasts, and its visit moves the row.
LEMMA LoginKeeps ==
    ASSUME AInv, NEW g \in Guest, NEW i \in PassId, Login(g, i)
    PROVE  AInv'
  <1> DEFINE row == Slide(passes[i])
  <1>1. /\ i \in Issued /\ AccessTypeOK /\ now \in 0..Horizon
        /\ passes' = [passes EXCEPT ![i] = row]
        /\ cookie' = [cookie EXCEPT ![g] = [pass |-> i, exp |-> CookieEnd(row)]]
        /\ visited' = [visited EXCEPT ![i] = now]
        /\ extended' = extended \ {g} /\ UNCHANGED <<now, granted>>
    BY DEF Login, Active, AInv, AccessTypeOK
  <1>2. /\ passes' \in [PassId -> Row \union {NoPass}] /\ Issued' = Issued
        /\ visited' \in [PassId -> 0..Horizon] /\ VisitsPast' /\ RowsSound'
        /\ passes'[i] = row /\ row \in Row
        /\ \A k \in Issued :
              /\ passes'[k].sliding = passes[k].sliding
              /\ passes'[k].limit = passes[k].limit
              /\ \A end \in Nat : Outlasts(end, passes[k]) => Outlasts(end, passes'[k])
    BY <1>1, VisitRow
  <1>3. /\ CookieEnd(row) \in 0..Never
        /\ (row.sliding # 0 /\ row.limit = Never) \/ Outlasts(CookieEnd(row), row)
    BY <1>1, <1>2, CookieOutlasts
  <1> HIDE DEF row
  <1>4. [pass |-> i, exp |-> CookieEnd(row)] \in [pass : 0..MaxPass, exp : 0..Never]
    BY <1>3, AccessAssumption DEF PassId
  <1>5. /\ cookie' \in [Guest -> [pass : 0..MaxPass, exp : 0..Never]]
        /\ cookie'[g].pass = i /\ cookie'[g].exp = CookieEnd(row)
        /\ \A h \in Guest \ {g} : cookie'[h] = cookie[h]
    BY <1>1, <1>4 DEF AccessTypeOK
  <1>6. CookiesBacked'
    BY <1>1, <1>2, <1>5 DEF AInv, CookiesBacked
  <1>7. ASSUME NEW h \in Guest, cookie'[h].pass \in Issued
        PROVE  \/ h \in extended'
               \/ /\ passes'[cookie'[h].pass].sliding # 0
                  /\ passes'[cookie'[h].pass].limit = Never
               \/ Outlasts(cookie'[h].exp, passes'[cookie'[h].pass])
    <2>1. CASE h = g
      BY <1>2, <1>3, <1>5, <2>1
    <2>2. CASE h # g
      <3>1. cookie'[h] = cookie[h] /\ cookie[h].exp \in Nat
            /\ (h \in extended' <=> h \in extended)
        BY <1>1, <1>5, <2>2, NeverIsFar DEF AccessTypeOK
      <3> QED
        BY <1>2, <1>7, <3>1 DEF AInv, CookiesLast
    <2> QED
      BY <2>1, <2>2
  <1>8. CookiesLast'
    BY <1>2, <1>7 DEF CookiesLast, Outlasts, Never
  <1> QED
    BY <1>1, <1>2, <1>5, <1>6, <1>8 DEF AInv, AccessTypeOK

\* A visit moves the row, within what the cookies allow for.
LEMMA VisitKeeps ==
    ASSUME AInv, NEW g \in Guest, Visit(g)
    PROVE  AInv'
  <1> DEFINE i == cookie[g].pass
  <1>1. /\ i \in Issued /\ AccessTypeOK /\ now \in 0..Horizon
        /\ passes' = [passes EXCEPT ![i] = Slide(passes[i])]
        /\ visited' = [visited EXCEPT ![i] = now]
        /\ UNCHANGED <<now, cookie, granted, extended>>
    BY DEF Visit, Active, AInv, AccessTypeOK, Issued
  <1> HIDE DEF i
  <1>2. /\ passes' \in [PassId -> Row \union {NoPass}] /\ Issued' = Issued
        /\ visited' \in [PassId -> 0..Horizon] /\ VisitsPast' /\ RowsSound'
        /\ \A k \in Issued :
              /\ passes'[k].sliding = passes[k].sliding
              /\ passes'[k].limit = passes[k].limit
              /\ \A end \in Nat : Outlasts(end, passes[k]) => Outlasts(end, passes'[k])
    <2>1. PICK k \in Issued : k = i
      BY <1>1
    <2> QED
      BY <1>1, <2>1, VisitRow
  <1>3. \A h \in Guest : cookie[h].exp \in Nat
    BY <1>1, NeverIsFar DEF AccessTypeOK
  <1>4. CookiesLast' /\ CookiesBacked'
    BY <1>1, <1>2, <1>3 DEF AInv, CookiesLast, CookiesBacked, Outlasts, Never
  <1> QED
    BY <1>1, <1>2, <1>4 DEF AInv, AccessTypeOK

\* A logout only takes a cookie away.
LEMMA LogoutKeeps ==
    ASSUME AInv, NEW g \in Guest, Logout(g)
    PROVE  AInv'
  <1>1. /\ AccessTypeOK /\ cookie' = [cookie EXCEPT ![g] = NoCookie]
        /\ UNCHANGED <<now, passes, visited, granted, extended>>
    BY DEF Logout, AInv
  <1>2. NoCookie \in [pass : 0..MaxPass, exp : 0..Never] /\ NoCookie.pass = 0
    BY NeverIsFar, AccessAssumption DEF NoCookie
  <1>3. /\ cookie' \in [Guest -> [pass : 0..MaxPass, exp : 0..Never]]
        /\ cookie'[g].pass = 0
        /\ \A h \in Guest \ {g} : cookie'[h] = cookie[h]
    BY <1>1, <1>2 DEF AccessTypeOK
  <1>4. Issued' = Issued /\ 0 \notin Issued
    BY <1>1 DEF Issued, PassId
  <1>5. CookiesBacked'
    BY <1>3, <1>4 DEF AInv, CookiesBacked
  <1>6. CookiesLast'
    <2>1. ASSUME NEW h \in Guest, cookie'[h].pass \in Issued
          PROVE  \/ h \in extended
                 \/ /\ passes[cookie'[h].pass].sliding # 0
                    /\ passes[cookie'[h].pass].limit = Never
                 \/ Outlasts(cookie'[h].exp, passes[cookie'[h].pass])
      <3>1. h # g /\ cookie'[h] = cookie[h]
        BY <1>3, <1>4, <2>1
      <3> QED
        BY <2>1, <3>1 DEF AInv, CookiesLast
    <2> QED
      BY <1>1, <1>4, <2>1 DEF CookiesLast, Outlasts, Never
  <1>7. RowsSound' /\ VisitsPast'
    BY <1>1, <1>4 DEF AInv, RowsSound, Sound, BornBeyond, VisitsPast
  <1> QED
    BY <1>1, <1>3, <1>5, <1>6, <1>7 DEF AInv, AccessTypeOK

\* An extension moves expiry and limit; whoever holds a cookie of the pass is noted.
LEMMA ExtendKeeps ==
    ASSUME AInv, NEW i \in PassId, NEW hours \in Ttl, Extend(i, hours)
    PROVE  AInv'
  <1> DEFINE end == Max({passes[i].expires, now}) + hours
             limit == Max({passes[i].limit, end})
             row == [passes[i] EXCEPT !.expires = end, !.limit = limit]
             was == passes[i]
  <1>1. /\ i \in Issued /\ AccessTypeOK /\ end < Never
        /\ passes' = [passes EXCEPT ![i].expires = end, ![i].limit = Max({@, end})]
        /\ granted' = [granted EXCEPT ![i] = end]
        /\ extended' = extended \union {g \in Guest : cookie[g].pass = i}
        /\ UNCHANGED <<now, cookie, visited>>
    BY DEF Extend, AInv
  <1>2. /\ was \in Row /\ was.expires \in Nat /\ was.limit \in Nat /\ was.sliding \in Nat
        /\ was.limit <= Never /\ Never \in Nat /\ now \in Nat /\ hours \in Nat
        /\ visited[i] \in Nat
    <2>1. now \in Nat /\ visited[i] \in Nat
      BY <1>1, AccessAssumption DEF AccessTypeOK
    <2>2. hours \in Nat
      BY AccessAssumption
    <2> QED
      BY <1>1, <2>1, <2>2, RowOf, RowFields, NeverIsFar
  <1>3. end \in Nat /\ end >= was.expires
    <2>1. Max({was.expires, now}) \in {was.expires, now} /\ Max({was.expires, now}) >= was.expires
      BY <1>2, MaxOfTwo
    <2> QED
      BY <1>2, <2>1
  <1> HIDE DEF end
  <1>4. limit \in {was.limit, end} /\ limit >= was.limit /\ limit >= end /\ limit \in Nat
    BY <1>2, <1>3, MaxOfTwo
  <1>5. row \in Row /\ row.expires = end /\ row.limit = limit /\ row.sliding = was.sliding
    <2>1. end \in 0..Never /\ limit \in 0..Never
      BY <1>1, <1>2, <1>3, <1>4
    <2> HIDE DEF limit
    <2> QED
      BY <1>2, <2>1 DEF Row
  <1>6. passes' = [passes EXCEPT ![i] = row]
    BY <1>1 DEF AccessTypeOK
  <1> HIDE DEF limit, row, was
  <1>7. /\ passes' \in [PassId -> Row \union {NoPass}] /\ Issued' = Issued
        /\ passes'[i] = row /\ \A k \in PassId \ {i} : passes'[k] = passes[k]
    BY <1>1, <1>5, <1>6, OneRow
  <1>8. /\ granted' \in [PassId -> 0..Never] /\ granted'[i] = end
        /\ \A k \in PassId \ {i} : granted'[k] = granted[k]
    BY <1>1, <1>2, <1>3 DEF AccessTypeOK
  <1>9. Sound(row, end, visited[i])
    <2>1. end <= row.expires /\ row.expires <= row.limit
      BY <1>3, <1>4, <1>5
    <2>2. ASSUME row.sliding # 0
          PROVE  row.expires + Slack > Min({visited[i] + row.sliding, row.limit})
      <3> DEFINE old == Min({visited[i] + was.sliding, was.limit})
                 new == Min({visited[i] + was.sliding, limit})
      <3>1. /\ old \in {visited[i] + was.sliding, was.limit} /\ old \in Nat
            /\ new \in Nat /\ new <= visited[i] + was.sliding /\ new <= limit
        <4>1. visited[i] + was.sliding \in Nat
          BY <1>2
        <4> QED
          BY <1>2, <1>4, <4>1, MinOfTwo
      <3>2. was.expires + Slack > old
        BY <1>1, <1>5, <2>2 DEF AInv, RowsSound, Sound, was
      <3>3. Slack \in Nat /\ Slack >= 1
        BY AccessAssumption
      <3> HIDE DEF old, new
      <3>4. CASE limit = end
        BY <1>3, <1>5, <3>1, <3>3, <3>4 DEF new
      <3>5. CASE limit = was.limit
        <4>1. new <= old
          BY <3>1, <3>5 DEF new, old
        <4> QED
          BY <1>2, <1>3, <1>5, <3>1, <3>2, <3>3, <4>1 DEF new
      <3> QED
        BY <1>4, <3>4, <3>5
    <2> QED
      BY <2>1, <2>2 DEF Sound
  <1>10. RowsSound'
    <2>1. ASSUME NEW k \in Issued PROVE Sound(passes'[k], granted'[k], visited'[k])
      <3>1. CASE k = i
        BY <1>1, <1>7, <1>8, <1>9, <3>1
      <3>2. CASE k # i
        <4>1. k \in PassId /\ Sound(passes[k], granted[k], visited[k])
          BY DEF Issued, AInv, RowsSound
        <4> QED
          BY <1>1, <1>7, <1>8, <3>2, <4>1
      <3> QED
        BY <3>1, <3>2
    <2>2. RowsSound' <=> \A k \in Issued' : Sound(passes'[k], granted'[k], visited'[k])
      BY DEF RowsSound, Sound, BornBeyond
    <2> QED
      BY <1>7, <2>1, <2>2
  <1>11. CookiesLast'
    <2>1. ASSUME NEW g \in Guest, cookie[g].pass \in Issued
          PROVE  \/ g \in extended'
                 \/ /\ passes'[cookie[g].pass].sliding # 0
                    /\ passes'[cookie[g].pass].limit = Never
                 \/ Outlasts(cookie[g].exp, passes'[cookie[g].pass])
      <3>1. CASE cookie[g].pass = i
        BY <1>1, <3>1
      <3>2. CASE cookie[g].pass # i
        <4>1. passes'[cookie[g].pass] = passes[cookie[g].pass]
          BY <1>7, <2>1, <3>2 DEF Issued
        <4> QED
          BY <1>1, <2>1, <4>1 DEF AInv, CookiesLast
      <3> QED
        BY <3>1, <3>2
    <2> QED
      BY <1>1, <1>7, <2>1 DEF CookiesLast, Outlasts, Never
  <1>12. VisitsPast' /\ CookiesBacked' /\ extended' \subseteq Guest
    BY <1>1, <1>7 DEF AInv, VisitsPast, CookiesBacked, AccessTypeOK
  <1> QED
    BY <1>1, <1>7, <1>8, <1>10, <1>11, <1>12 DEF AInv, AccessTypeOK

\* A revocation marks the row.
LEMMA RevokeKeeps ==
    ASSUME AInv, NEW i \in PassId, Revoke(i)
    PROVE  AInv'
  <1> DEFINE row == [passes[i] EXCEPT !.revoked = TRUE]
  <1>1. /\ i \in Issued /\ AccessTypeOK /\ passes' = [passes EXCEPT ![i].revoked = TRUE]
        /\ UNCHANGED <<now, cookie, visited, granted, extended>>
    BY DEF Revoke, AInv
  <1>2. passes[i] \in Row
    BY <1>1, RowOf
  <1>3. /\ row \in Row /\ row.expires = passes[i].expires
        /\ row.limit = passes[i].limit /\ row.sliding = passes[i].sliding
    BY <1>2 DEF Row
  <1>4. passes' = [passes EXCEPT ![i] = row]
    BY <1>1
  <1> HIDE DEF row
  <1>5. /\ passes' \in [PassId -> Row \union {NoPass}] /\ Issued' = Issued
        /\ passes'[i] = row /\ \A k \in PassId \ {i} : passes'[k] = passes[k]
    BY <1>1, <1>3, <1>4, OneRow
  <1>6. \A k \in Issued : /\ passes'[k].expires = passes[k].expires
                          /\ passes'[k].limit = passes[k].limit
                          /\ passes'[k].sliding = passes[k].sliding
    BY <1>3, <1>5 DEF Issued
  <1>7. RowsSound'
    BY <1>1, <1>5, <1>6 DEF AInv, RowsSound, Sound, BornBeyond
  <1>8. CookiesLast' /\ CookiesBacked' /\ VisitsPast'
    <2>1. CookiesBacked' /\ VisitsPast'
      BY <1>1, <1>5 DEF AInv, CookiesBacked, VisitsPast
    <2>2. ASSUME NEW g \in Guest, cookie[g].pass \in Issued
          PROVE  \/ g \in extended
                 \/ /\ passes'[cookie[g].pass].sliding # 0
                    /\ passes'[cookie[g].pass].limit = Never
                 \/ Outlasts(cookie[g].exp, passes'[cookie[g].pass])
      BY <1>6, <2>2 DEF AInv, CookiesLast, Outlasts
    <2> QED
      BY <1>1, <1>5, <2>1, <2>2 DEF CookiesLast, Outlasts, Never
  <1> QED
    BY <1>1, <1>5, <1>7, <1>8 DEF AInv, AccessTypeOK

\* Time passes.
LEMMA TickKeeps ==
    ASSUME AInv, AccessTick
    PROVE  AInv'
  <1>1. /\ now \in Nat /\ now' = now + 1 /\ now' \in 0..Horizon
        /\ UNCHANGED <<passes, cookie, visited, granted, extended>>
    BY AccessAssumption DEF AccessTick, AInv, AccessTypeOK
  <1>2. VisitsPast'
    <2>1. \A i \in PassId : visited[i] \in Nat
      BY AccessAssumption DEF AInv, AccessTypeOK
    <2> QED
      BY <1>1, <2>1 DEF AInv, VisitsPast
  <1> QED
    BY <1>1, <1>2 DEF AInv, AccessTypeOK, RowsSound, Sound, BornBeyond, CookiesBacked,
                      CookiesLast, Outlasts, Issued, Never

-----------------------------------------------------------------------------
\* The inductive invariant holds in every reachable state.
THEOREM AccessInvariance == AccessSpec => []AInv
  <1>1. AccessInit => AInv
    <2>1. SUFFICES ASSUME AccessInit PROVE AInv
      OBVIOUS
    <2>2. Issued = {} /\ \A g \in Guest : cookie[g].pass = 0
      BY <2>1 DEF AccessInit, Issued, NoCookie
    <2>3. AccessTypeOK
      <3>1. 0 \in 0..Horizon /\ 0 \in 0..Never /\ 0 \in 0..MaxPass
        BY NeverIsFar, AccessAssumption
      <3> QED
        BY <2>1, <3>1 DEF AccessInit, AccessTypeOK, NoCookie
    <2>4. VisitsPast
      BY <2>1 DEF AccessInit, VisitsPast
    <2> QED
      BY <2>2, <2>3, <2>4 DEF AInv, RowsSound, CookiesBacked, CookiesLast
  <1>2. AInv /\ [AccessNext]_accessVars => AInv'
    <2>1. SUFFICES ASSUME AInv, [AccessNext]_accessVars PROVE AInv'
      OBVIOUS
    <2>2. ASSUME NEW ttl \in Ttl, NEW sliding \in BOOLEAN, NEW days \in {0} \union Days,
                 Create(ttl, sliding, days)
          PROVE  AInv'
      BY <2>1, <2>2, CreateKeeps
    <2>3. ASSUME NEW g \in Guest, NEW i \in PassId, Login(g, i) PROVE AInv'
      BY <2>1, <2>3, LoginKeeps
    <2>4. ASSUME NEW g \in Guest, Visit(g) PROVE AInv'
      BY <2>1, <2>4, VisitKeeps
    <2>5. ASSUME NEW g \in Guest, Logout(g) PROVE AInv'
      BY <2>1, <2>5, LogoutKeeps
    <2>6. ASSUME NEW i \in PassId, Revoke(i) PROVE AInv'
      BY <2>1, <2>6, RevokeKeeps
    <2>7. ASSUME NEW i \in PassId, NEW hours \in Ttl, Extend(i, hours) PROVE AInv'
      BY <2>1, <2>7, ExtendKeeps
    <2>8. CASE AccessTick
      BY <2>1, <2>8, TickKeeps
    <2>9. CASE UNCHANGED accessVars
      BY <2>1, <2>9 DEF accessVars, AInv, AccessTypeOK, RowsSound, Sound, BornBeyond,
                        VisitsPast, CookiesBacked, CookiesLast, Outlasts, Issued, Never
    <2> QED
      BY <2>1, <2>2, <2>3, <2>4, <2>5, <2>6, <2>7, <2>8, <2>9 DEF AccessNext
  <1> QED
    BY <1>1, <1>2, PTL DEF AccessSpec

\* Guest passes keep their types, up to the end of the longest lifetime.
THEOREM AccessTypeCorrect == AccessSpec => []AccessTypeOK
  <1>1. AInv => AccessTypeOK
    BY DEF AInv
  <1> QED
    BY <1>1, AccessInvariance, PTL

\* No visit takes back what was granted, a pass outlives its limit only if it was issued
\* so, a sliding one lasts its time from the last visit, and whoever logged in is let in
\* while the pass is active (_slide, extend_pass and _attach_guest_session together).
THEOREM PassesHoldAlways == AccessSpec => []PassesHold
  <1>1. AInv => PassesHold
    <2>1. SUFFICES ASSUME AInv, NEW i \in Issued
                   PROVE  /\ Sound(passes[i], granted[i], visited[i])
                          /\ \A g \in Guest :
                                (cookie[g].pass = i /\ Active(i) /\ ~LoggedIn(g)) =>
                                    \/ g \in extended
                                    \/ passes[i].sliding # 0 /\ passes[i].limit = Never
      BY DEF PassesHold, Sound
    <2>2. Sound(passes[i], granted[i], visited[i])
      BY <2>1 DEF AInv, RowsSound
    <2>3. ASSUME NEW g \in Guest, cookie[g].pass = i, Active(i), ~LoggedIn(g)
          PROVE  ~Outlasts(cookie[g].exp, passes[i])
      <3>1. passes[i].expires \in Nat /\ cookie[g].exp \in Nat /\ now \in Nat
        <4>1. passes[i] \in Row
          BY <2>1, RowOf DEF AInv
        <4> QED
          BY <2>1, <4>1, RowFields, NeverIsFar, AccessAssumption DEF AInv, AccessTypeOK
      <3>2. i # 0
        BY DEF Issued, PassId
      <3>3. passes[i].expires > now /\ ~(cookie[g].exp > now)
        BY <2>3, <3>2 DEF Active, LoggedIn
      <3> QED
        BY <3>1, <3>3 DEF Outlasts
    <2> QED
      BY <2>1, <2>2, <2>3 DEF AInv, CookiesLast
  <1> QED
    BY <1>1, AccessInvariance, PTL

-----------------------------------------------------------------------------
(* The feed of prices and bars                                             *)

\* What the worker waits for yet and how long the network has been well together do not
\* exceed one pause; an open stream counts as well only while it brings prices.
CalmIsWaited ==
    /\ mode = "wait" => calm + wait <= F!Patience
    /\ mode = "connect" => calm <= F!Patience
    /\ mode = "up" /\ calm > F!Patience => age <= 1
\* The pause that is kept is the one that was asked for, or longer.
BanCoversAsked == excuse \/ ban >= asked

FeedInv ==
    /\ F!FeedTypeOK
    /\ heard \in [for : 0..(F!Silent + 1), price : BOOLEAN]
    /\ ban \in Nat /\ asked \in Nat /\ excuse \in BOOLEAN /\ relaunches \in Nat
    /\ CalmIsWaited /\ BanCoversAsked

LEMMA FeedNumbers == Pauses \subseteq Nat /\ MaxRefusals \in Nat /\ MaxRelaunches \in Nat
  BY ServicesAssumption, SMTT(30)

\* The instances compare as the library does.
LEMMA SameExtremes == (\A S : F!Max(S) = Max(S)) /\ (\A S : F!Min(S) = Min(S))
  BY DEF F!Max, Max, F!Min, Min

LEMMA DnsPause ==
    ASSUME NEW n \in Nat \ {0}, delay \in 1..F!MaxDelay
    PROVE  F!DnsWait(n) \in 0..F!MaxWait
  <1> DEFINE a == F!Max({delay, F!DnsFloor})
             g == F!Growth[F!Min({n, 8})]
  <1>1. a \in 1..6
    BY MaxOfTwo, SameExtremes DEF F!MaxDelay, F!DnsFloor
  <1>2. F!Min({n, 8}) \in 1..8
    BY MinOfTwo, SameExtremes
  <1>3. g \in {120, 144, 173, 207, 249, 299, 358, 430}
    BY <1>2 DEF F!Growth
  <1>4. a * g \in Nat
    BY <1>1, <1>3
  <1>5. F!Up(a * g, 100) \in Nat
    BY <1>4 DEF F!Up
  <1> HIDE DEF a, g
  <1>6. F!DnsWait(n) = Min({F!Up(a * g, 100), 12})
    BY SameExtremes DEF F!DnsWait, F!MaxWait, a, g
  <1> QED
    BY <1>5, <1>6, MinOfTwo DEF F!MaxWait

\* A pause of the worker, whatever the failure.
LEMMA Pauses1 ==
    ASSUME FeedInv, NEW jitter \in {0, 1}, F!DnsError(jitter) \/ F!Failure(jitter)
    PROVE  mode' = "wait" /\ wait' \in 0..F!Patience /\ delay' \in 1..F!MaxDelay /\ streak' \in 0..8
  <1>1. delay \in 1..6 /\ streak \in 0..8
    BY DEF FeedInv, F!FeedTypeOK, F!MaxDelay
  <1>2. CASE F!DnsError(jitter)
    <2>1. mode' = "wait" /\ wait' = F!DnsWait(streak + 1) + jitter
      BY <1>2 DEF F!DnsError, F!Sleep
    <2>2. F!DnsWait(streak + 1) \in 0..12
      BY <1>1, DnsPause DEF F!MaxDelay, F!MaxWait
    <2>3. streak' = Min({streak + 1, 8}) /\ delay' = Min({2 * delay, 6})
      BY <1>2, SameExtremes DEF F!DnsError, F!MaxDelay
    <2>4. streak' \in 0..8
      BY <1>1, <2>3, MinOfTwo
    <2>5. delay' \in 1..6
      BY <1>1, <2>3, MinOfTwo
    <2> QED
      BY <2>1, <2>2, <2>4, <2>5 DEF F!Patience, F!MaxWait, F!MaxDelay
  <1>3. CASE F!Failure(jitter)
    <2>1. mode' = "wait" /\ wait' = Max({1, delay}) + jitter /\ streak' = 0
      BY <1>3, SameExtremes DEF F!Failure, F!Sleep, F!MinWait
    <2>2. Max({1, delay}) \in 1..6
      BY <1>1, MaxOfTwo
    <2>3. F!Up(3 * delay, 2) \in Nat
      BY <1>1 DEF F!Up
    <2>4. delay' = Min({Max({F!Up(3 * delay, 2), 1}), 6})
      BY <1>3, SameExtremes DEF F!Failure, F!MinWait, F!MaxDelay
    <2>5. Max({F!Up(3 * delay, 2), 1}) \in Nat /\ Max({F!Up(3 * delay, 2), 1}) >= 1
      BY <2>3, MaxOfTwo
    <2>6. delay' \in 1..6
      <3> DEFINE grown == Max({F!Up(3 * delay, 2), 1})
      <3>1. grown \in Nat /\ grown >= 1 /\ delay' = Min({grown, 6})
        BY <2>4, <2>5
      <3> HIDE DEF grown
      <3> QED
        BY <3>1, MinOfTwo
    <2> QED
      BY <2>1, <2>2, <2>6 DEF F!Patience, F!MaxWait, F!MaxDelay
  <1> QED
    BY <1>2, <1>3

\* The worker: a connection that fails is waited for, one that is open ages.
LEMMA StreamStep == ASSUME FeedInv, F!StreamNext PROVE FeedInv'
  <1> USE DEF FeedInv, CalmIsWaited, BanCoversAsked, F!FeedTypeOK, F!Patience, F!MaxWait, F!MaxDelay,
              F!Silent, F!Stale, F!Forever
  <1>1. CASE F!Connect
    <2>1. CASE mode' = "up" /\ heard' = [for |-> 0, price |-> FALSE] /\ UNCHANGED <<wait, delay, streak, calm>>
      BY <1>1, <2>1 DEF F!Connect, F!klines
    <2>2. CASE (\E jitter \in {0, 1} : F!DnsError(jitter) \/ F!Failure(jitter)) /\ calm' = 0 /\ UNCHANGED heard
      BY <1>1, <2>2, Pauses1 DEF F!Connect, F!klines
    <2> QED
      BY <1>1, <2>1, <2>2 DEF F!Connect
  <1>2. CASE F!Receive
    <2>1. heard' \in [for : 0..9, price : BOOLEAN]
      <3>1. heard.for \in 0..9 /\ heard \in [for : 0..9, price : BOOLEAN]
        OBVIOUS
      <3>2. heard' = [heard EXCEPT !.price = TRUE]
        BY <1>2 DEF F!Receive
      <3>3. heard' = [for |-> heard.for, price |-> TRUE]
        BY <3>1, <3>2
      <3> QED
        BY <3>1, <3>3
    <2>2. delay' \in 1..6 /\ streak' \in 0..8 /\ age' = 0
      BY <1>2 DEF F!Receive
    <2> QED
      BY <1>2, <2>1, <2>2 DEF F!Receive, F!klines
  <1>3. CASE F!Closed
    <2>1. CASE \E jitter \in {0, 1} : F!Failure(jitter)
      BY <1>3, <2>1, Pauses1 DEF F!Closed, F!klines
    <2>2. CASE mode' = "connect" /\ UNCHANGED <<wait, delay, streak>>
      BY <1>3, <2>2 DEF F!Closed, F!klines
    <2> QED
      BY <1>3, <2>1, <2>2 DEF F!Closed
  <1>4. CASE F!Broken
    BY <1>4, Pauses1 DEF F!Broken, F!klines
  <1>5. CASE F!Wake
    BY <1>5 DEF F!Wake, F!klines
  <1>6. CASE F!StreamTick
    <2>1. /\ age' \in {age + 1, 13} /\ age' <= age + 1 /\ age' <= 13
          /\ (mode = "up" /\ age > 0 => calm' = 0)
          /\ (~(mode = "up" /\ age > 0) => calm' \in {calm + 1, 14} /\ calm' <= calm + 1 /\ calm' <= 14)
          /\ (mode = "up" => heard' = [heard EXCEPT !.for = Min({heard.for + 1, 9})])
          /\ (mode # "up" => heard' = heard)
          /\ UNCHANGED <<mode, delay, streak, ban, call, asked, excuse, refusals, relaunches>>
      <3>1. age' = Min({age + 1, 13})
        BY <1>6, SameExtremes DEF F!StreamTick
      <3>2. calm' = IF mode = "up" /\ age > 0 THEN 0 ELSE Min({calm + 1, 14})
        BY <1>6, SameExtremes DEF F!StreamTick
      <3>3. Min({age + 1, 13}) \in {age + 1, 13} /\ Min({age + 1, 13}) <= age + 1 /\ Min({age + 1, 13}) <= 13
        BY MinOfTwo
      <3>4. Min({calm + 1, 14}) \in {calm + 1, 14} /\ Min({calm + 1, 14}) <= calm + 1 /\ Min({calm + 1, 14}) <= 14
        BY MinOfTwo
      <3>5. heard' = IF mode = "up" THEN [heard EXCEPT !.for = Min({heard.for + 1, 9})] ELSE heard
        BY <1>6, SameExtremes DEF F!StreamTick
      <3> QED
        BY <1>6, <3>1, <3>2, <3>3, <3>4, <3>5 DEF F!StreamTick, F!klines
    <2>2. Min({heard.for + 1, 9}) \in 0..9
      BY MinOfTwo
    <2>3. heard' \in [for : 0..9, price : BOOLEAN]
      BY <2>1, <2>2
    <2>4. wait' = (IF mode = "wait" THEN wait - 1 ELSE wait) /\ (mode = "wait" => wait > 0) /\ mode # "connect"
      BY <1>6 DEF F!StreamTick
    <2>5. age' \in 0..13 /\ calm' \in 0..14 /\ wait' \in 0..13
      BY <2>1, <2>4
    <2>6. CalmIsWaited'
      BY <2>1, <2>4
    <2> QED
      BY <2>1, <2>3, <2>5, <2>6
  <1>7. CASE F!StreamRestart
    BY <1>7 DEF F!StreamRestart, F!klines
  <1> QED
    BY <1>1, <1>2, <1>3, <1>4, <1>5, <1>6, <1>7 DEF F!StreamNext

\* The requests: a refusal that comes late may shorten the pause, and is then the excuse.
LEMMA BarsStep == ASSUME FeedInv, F!BarsNext PROVE FeedInv'
  <1> USE DEF FeedInv, CalmIsWaited, BanCoversAsked, F!FeedTypeOK
  <1>1. CASE \E c \in Calls : F!StartCall(c) \/ F!Answered(c)
    BY <1>1 DEF F!StartCall, F!Answered, F!stream
  <1>2. ASSUME NEW c \in Calls, NEW status \in {418, 429}, NEW h \in Pauses, F!Refused(c, status, h)
        PROVE  FeedInv'
    <2>1. h \in Nat
      BY FeedNumbers
    <2>2. F!Cooldown(status, h) \in Nat /\ F!Cooldown(status, h) >= h
      BY <2>1 DEF F!Cooldown
    <2>3. asked' = Max({asked, h}) /\ ban' = F!Cooldown(status, h) /\ excuse' = (excuse \/ ban' < ban)
      BY <1>2, SameExtremes DEF F!Refused
    <2>4. Max({asked, h}) \in {asked, h}
      BY <2>1, MaxOfTwo
    <2>5. ban' \in Nat /\ asked' \in Nat /\ excuse' \in BOOLEAN
      BY <2>1, <2>2, <2>3, <2>4
    <2>6. BanCoversAsked'
      <3>1. CASE excuse
        BY <2>3, <3>1
      <3>2. CASE ban' < ban
        BY <2>3, <3>2
      <3>3. CASE ~excuse /\ ~(ban' < ban)
        <4>1. ban' >= asked
          BY <2>5, <3>3
        <4> QED
          BY <2>1, <2>2, <2>3, <2>4, <4>1
      <3> QED
        BY <3>1, <3>2, <3>3
    <2>7. call' \in [Calls -> {"idle", "sent"}] /\ refusals' \in 0..MaxRefusals
      BY <1>2, FeedNumbers DEF F!Refused
    <2> QED
      BY <1>2, <2>5, <2>6, <2>7 DEF F!Refused, F!stream
  <1>3. CASE F!BarsTick
    BY <1>3 DEF F!BarsTick, F!Less, F!stream
  <1>4. CASE F!BarsRestart
    BY <1>4 DEF F!BarsRestart, F!stream
  <1> QED
    BY <1>1, <1>2, <1>3, <1>4 DEF F!BarsNext

LEMMA FeedStart == ASSUME F!FeedInit PROVE FeedInv
  <1>1. heard \in [for : 0..9, price : BOOLEAN]
    BY DEF F!FeedInit
  <1>2. call \in [Calls -> {"idle", "sent"}] /\ ban >= asked
    BY DEF F!FeedInit
  <1>3. excuse \in BOOLEAN
    BY DEF F!FeedInit
  <1> QED
    BY <1>1, <1>2, <1>3, FeedNumbers DEF F!FeedInit, FeedInv, CalmIsWaited, BanCoversAsked, F!FeedTypeOK, F!Patience, F!MaxWait, F!MaxDelay,
     F!Silent, F!Stale, F!Forever

LEMMA FeedRecovered == FeedInv => F!FeedRecovers
  BY DEF FeedInv, CalmIsWaited, F!FeedTypeOK, F!FeedRecovers, F!Patience, F!MaxWait

\* A request that starts finds no pause.
LEMMA StartsOutsidePause ==
    ASSUME FeedInv, F!StreamNext \/ F!BarsNext, NEW c \in Calls, call[c] = "idle", call'[c] = "sent"
    PROVE  asked = 0 \/ excuse
  <1>1. call' # call
    OBVIOUS
  <1>2. F!BarsNext
    BY <1>1 DEF F!StreamNext, F!Connect, F!Receive, F!Closed, F!Broken, F!Wake, F!StreamTick, F!StreamRestart, F!klines
  <1>3. call \in [Calls -> {"idle", "sent"}]
    BY DEF FeedInv, F!FeedTypeOK
  <1>4. ban = 0
    <2>1. CASE \E d \in Calls : F!StartCall(d)
      BY <2>1 DEF F!StartCall
    <2>2. ASSUME NEW d \in Calls, call' = [call EXCEPT ![d] = "idle"] PROVE FALSE
      <3>1. call'[c] \in {"idle", call[c]}
        BY <1>3, <2>2
      <3> QED
        BY <3>1
    <2>3. CASE F!BarsTick \/ F!BarsRestart
      <3>1. CASE F!BarsTick
        BY <1>1, <3>1 DEF F!BarsTick
      <3>2. CASE F!BarsRestart
        BY <3>2 DEF F!BarsRestart
      <3> QED
        BY <2>3, <3>1, <3>2
    <2> QED
      BY <1>2, <2>1, <2>2, <2>3 DEF F!BarsNext, F!Answered, F!Refused
  <1> QED
    BY <1>4 DEF FeedInv, BanCoversAsked

-----------------------------------------------------------------------------
(* Trades and their fills                                                  *)

Sides == {"long", "short"}
TradeRow == [open : BOOLEAN, side : Sides, entry : Px, exit : Px \union {T!Unset}, pnl : Int, net : Int]

\* A closed row: its results agree but for the fills that were written to it.
ClosedFits(r, fillsOf) ==
    ~r.open => /\ r.exit \in Px
               /\ "exit" \notin fillsOf => r.net = r.pnl - T!Fee
               /\ \E e \in IF "entry" \in fillsOf THEN Px ELSE {r.entry} : r.pnl = T!Pnl(r.side, e, r.exit)
Table(tr, no) ==
    /\ tr \in Seq(TradeRow) /\ no \in Seq(SUBSET {"entry", "exit"}) /\ Len(no) = Len(tr)
    /\ \A k \in DOMAIN tr : ClosedFits(tr[k], no[k])

\* The engine counts from the entry of its row, until a fill moves the row or it.
Entered(tr, no, id, way, entry) ==
    /\ id \in DOMAIN tr /\ way = tr[id].side /\ entry \in Px
    /\ "entry" \notin no[id] => entry = tr[id].entry
Held(tr, no, h) ==
    /\ \A k \in DOMAIN tr : tr[k].open <=> h.id = k
    /\ h = T!None \/ /\ h \in [id : Nat \ {0}, side : Sides, entry : Px]
                     /\ Entered(tr, no, h.id, h.side, h.entry)

\* An order is about a row, the order of a close about a closed one.
Sendable(tr, no) ==
    {o \in [kind : {"entry", "close"}, id : DOMAIN tr, side : Sides, entry : Px] :
        /\ o.side = tr[o.id].side
        /\ o.kind = "close" => ~tr[o.id].open /\ Entered(tr, no, o.id, o.side, o.entry)}
Sendings(tr, no) == {list \in Seq(Sendable(tr, no)) : list # <<>>}

FillInv ==
    /\ price \in Px /\ reboots \in 0..MaxReboots
    /\ Table(trades, noted) /\ Held(trades, noted, holding)
    /\ tasks \in Seq(Sendings(trades, noted))

\* A quotient has the sign of the dividend, if that is not smaller than the divisor.
LEMMA QuotientSign ==
    ASSUME NEW a \in Int, NEW b \in Int, b > 0
    PROVE  a \div b \in Int /\ (a >= b => a \div b >= 1) /\ (a <= 0 => a \div b <= 0)
  OBVIOUS

LEMMA PnlNumber ==
    ASSUME NEW way, NEW e \in Px, NEW x \in Px
    PROVE  T!Pnl(way, e, x) \in Int
  <1>1. e \in 1..10000 /\ x \in 1..10000
    BY ServicesAssumption, SMTT(30)
  <1> QED
    BY <1>1, QuotientSign DEF T!Pnl

\* The shown return has the sign of the move.
LEMMA PnlSign ==
    ASSUME NEW way \in Sides, NEW e \in Px, NEW x \in Px
    PROVE  T!Pnl(way, e, x) > 0 <=> IF way = "long" THEN x > e ELSE x < e
  <1>1. e \in 1..10000 /\ x \in 1..10000
    BY ServicesAssumption, SMTT(30)
  <1>2. ASSUME NEW d \in Int PROVE (10000 * d) \div e > 0 <=> d > 0
    <2> DEFINE a == 10000 * d
    <2>1. a \in Int
      OBVIOUS
    <2>4. ASSUME d > 0 PROVE a >= e
      BY <1>1, <2>4
    <2>5. ASSUME d <= 0 PROVE a <= 0
      BY <2>5
    <2> HIDE DEF a
    <2>2. a \div e \in Int /\ (a >= e => a \div e >= 1) /\ (a <= 0 => a \div e <= 0)
      BY <1>1, <2>1, QuotientSign
    <2>3. a \div e > 0 <=> d > 0
      BY <2>1, <2>2, <2>4, <2>5
    <2> QED
      BY <2>3 DEF a
  <1>3. x - e \in Int /\ e - x \in Int
    BY <1>1
  <1>4. (10000 * (x - e)) \div e > 0 <=> x - e > 0
    BY <1>2, <1>3
  <1>5. (10000 * (e - x)) \div e > 0 <=> e - x > 0
    BY <1>2, <1>3
  <1> QED
    BY <1>1, <1>4, <1>5 DEF T!Pnl

\* Lists of orders stay lists of orders when the table admits more.
LEMMA SendingsGrow ==
    ASSUME NEW tr, NEW no, NEW tr2, NEW no2, Sendable(tr, no) \subseteq Sendable(tr2, no2),
           NEW ts \in Seq(Sendings(tr, no))
    PROVE  ts \in Seq(Sendings(tr2, no2))
  <1>1. Seq(Sendable(tr, no)) \subseteq Seq(Sendable(tr2, no2))
    OBVIOUS
  <1>2. Sendings(tr, no) \subseteq Sendings(tr2, no2)
    BY <1>1 DEF Sendings
  <1> QED
    BY <1>2

LEMMA CloseOne ==
    ASSUME NEW tr, NEW no, NEW h, NEW exit \in Px, Table(tr, no), Held(tr, no, h), h # T!None
    PROVE  LET tr2 == [tr EXCEPT ![h.id] = T!Closed(@, h, exit)]
           IN  /\ Table(tr2, no) /\ Held(tr2, no, T!None) /\ Len(tr2) = Len(tr)
               /\ Sendable(tr, no) \subseteq Sendable(tr2, no)
               /\ T!Order("close", h) \in Sendable(tr2, no)
  <1> DEFINE tr2 == [tr EXCEPT ![h.id] = T!Closed(tr[h.id], h, exit)]
             r   == tr[h.id]
             r2  == T!Closed(tr[h.id], h, exit)
  <1>1. /\ h \in [id : Nat \ {0}, side : Sides, entry : Px] /\ h.id \in DOMAIN tr /\ h.side = r.side
        /\ h.entry \in Px /\ ("entry" \notin no[h.id] => h.entry = r.entry)
    BY DEF Held, Entered
  <1>2. tr \in Seq(TradeRow) /\ r \in TradeRow
    BY <1>1 DEF Table
  <1>3. T!Pnl(h.side, h.entry, exit) \in Int
    BY <1>1, PnlNumber
  <1>4. r2 = [r EXCEPT !.open = FALSE, !.exit = exit, !.pnl = T!Pnl(h.side, h.entry, exit),
                       !.net = T!Pnl(h.side, h.entry, exit) - T!Fee]
    BY DEF T!Closed
  <1>14. r2 = [open |-> FALSE, side |-> r.side, entry |-> r.entry, exit |-> exit,
               pnl |-> T!Pnl(h.side, h.entry, exit), net |-> T!Pnl(h.side, h.entry, exit) - 10]
    BY <1>2, <1>4 DEF TradeRow, T!Fee
  <1>5. /\ r2 \in TradeRow /\ ~r2.open /\ r2.exit = exit /\ r2.pnl = T!Pnl(h.side, h.entry, exit)
        /\ r2.net = r2.pnl - T!Fee /\ r2.side = r.side /\ r2.entry = r.entry
    BY <1>2, <1>3, <1>14 DEF TradeRow, T!Fee
  <1> HIDE DEF r2
  <1>6. tr2 \in Seq(TradeRow) /\ Len(tr2) = Len(tr) /\ DOMAIN tr2 = DOMAIN tr /\ tr2[h.id] = r2
        /\ \A k \in DOMAIN tr \ {h.id} : tr2[k] = tr[k]
    BY <1>1, <1>2, <1>5 DEF r2
  <1> HIDE DEF tr2
  <1>7. ClosedFits(r2, no[h.id])
    BY <1>1, <1>5 DEF ClosedFits
  <1>8. Table(tr2, no)
    BY <1>6, <1>7 DEF Table
  <1>9. \A k \in DOMAIN tr2 : ~tr2[k].open
    BY <1>1, <1>5, <1>6 DEF Held
  <1>10. T!None.id = 0 /\ DOMAIN tr2 \subseteq Nat \ {0}
    BY <1>6 DEF T!None
  <1>11. Held(tr2, no, T!None)
    BY <1>9, <1>10 DEF Held
  <1>12. ASSUME NEW o \in Sendable(tr, no) PROVE o \in Sendable(tr2, no)
    <2>1. tr2[o.id].side = tr[o.id].side /\ tr2[o.id].entry = tr[o.id].entry
      BY <1>5, <1>6 DEF Sendable
    <2> QED
      BY <2>1, <1>6, <1>9 DEF Sendable, Entered
  <1>13. T!Order("close", h) \in Sendable(tr2, no)
    BY <1>1, <1>5, <1>6, <1>9 DEF T!Order, Sendable, Entered
  <1> QED
    BY <1>6, <1>8, <1>11, <1>12, <1>13 DEF tr2

LEMMA OpenOne ==
    ASSUME NEW tr, NEW no, NEW way \in Sides, Table(tr, no), Held(tr, no, T!None), price \in Px
    PROVE  LET tr2 == Append(tr, T!Opened(way))
               no2 == Append(no, {})
               h   == [id |-> Len(tr) + 1, side |-> way, entry |-> price]
           IN  /\ Table(tr2, no2) /\ Held(tr2, no2, h)
               /\ Sendable(tr, no) \subseteq Sendable(tr2, no2)
               /\ T!Order("entry", h) \in Sendable(tr2, no2)
  <1> DEFINE tr2 == Append(tr, T!Opened(way))
             no2 == Append(no, {})
             h   == [id |-> Len(tr) + 1, side |-> way, entry |-> price]
             r2  == T!Opened(way)
             n   == Len(tr) + 1
  <1>1. tr \in Seq(TradeRow) /\ no \in Seq(SUBSET {"entry", "exit"}) /\ Len(no) = Len(tr) /\ Len(tr) \in Nat
    BY DEF Table
  <1>2. r2 \in TradeRow /\ r2.open /\ r2.side = way /\ r2.entry = price
    BY DEF T!Opened, TradeRow, T!Unset
  <1> HIDE DEF r2
  <1>3. tr2 \in Seq(TradeRow) /\ Len(tr2) = n /\ DOMAIN tr2 = DOMAIN tr \union {n} /\ tr2[n] = r2
        /\ \A k \in DOMAIN tr : tr2[k] = tr[k]
    BY <1>1, <1>2 DEF r2
  <1>4. no2 \in Seq(SUBSET {"entry", "exit"}) /\ Len(no2) = n /\ no2[n] = {}
        /\ \A k \in DOMAIN tr : no2[k] = no[k]
    BY <1>1
  <1>5. n \notin DOMAIN tr /\ DOMAIN tr \subseteq Nat \ {0} /\ n \in Nat \ {0}
    BY <1>1
  <1>6. h.id = n /\ h.side = way /\ h.entry = price /\ h \in [id : Nat \ {0}, side : Sides, entry : Px]
    BY <1>5
  <1> HIDE DEF tr2, no2, h, n
  <1>7. Table(tr2, no2)
    <2>1. ASSUME NEW k \in DOMAIN tr PROVE ClosedFits(tr2[k], no2[k])
      <3>1. ClosedFits(tr[k], no[k])
        BY DEF Table
      <3> QED
        BY <3>1, <1>3, <1>4
    <2>2. ClosedFits(tr2[n], no2[n])
      BY <1>2, <1>3 DEF ClosedFits
    <2>3. ASSUME NEW k \in DOMAIN tr2 PROVE ClosedFits(tr2[k], no2[k])
      BY <2>1, <2>2, <1>3
    <2> QED
      BY <2>3, <1>3, <1>4 DEF Table
  <1>8. \A k \in DOMAIN tr : ~tr[k].open
    BY <1>5 DEF Held, T!None
  <1>9. Held(tr2, no2, h)
    BY <1>2, <1>3, <1>4, <1>5, <1>6, <1>8 DEF Held, Entered
  <1>10. ASSUME NEW o \in Sendable(tr, no) PROVE o \in Sendable(tr2, no2)
    BY <1>3, <1>4, <1>10 DEF Sendable, Entered
  <1>11. T!Order("entry", h) \in Sendable(tr2, no2)
    BY <1>2, <1>3, <1>6 DEF T!Order, Sendable
  <1> QED
    BY <1>7, <1>9, <1>10, <1>11 DEF tr2, no2, h, r2, n

LEMMA SentTasks ==
    ASSUME NEW tr, NEW no, tasks \in Seq(Sendings(tr, no)), NEW list \in Seq(Sendable(tr, no)), list # <<>>
    PROVE  T!Sent(list) \in Seq(Sendings(tr, no))
  <1>1. list \in Sendings(tr, no)
    BY DEF Sendings
  <1> QED
    BY <1>1 DEF T!Sent

LEMMA TickFills ==
    ASSUME FillInv, NEW closes \in BOOLEAN, NEW enters \in BOOLEAN, closes \/ enters, T!Tick(closes, enters)
    PROVE  FillInv'
  <1> USE DEF FillInv
  <1>1. PICK exit \in Px, way \in Sides :
          LET kept == IF closes THEN [trades EXCEPT ![holding.id] = T!Closed(@, holding, exit)] ELSE trades
              new == [id |-> Len(kept) + 1, side |-> way, entry |-> price]
          IN /\ closes => holding # T!None
             /\ enters => closes \/ holding = T!None
             /\ trades' = IF enters THEN Append(kept, T!Opened(way)) ELSE kept
             /\ noted' = IF enters THEN Append(noted, {}) ELSE noted
             /\ holding' = IF enters THEN new ELSE T!None
             /\ tasks' = T!Sent((IF closes THEN <<T!Order("close", holding)>> ELSE <<>>)
                            \o (IF enters THEN <<T!Order("entry", new)>> ELSE <<>>))
             /\ UNCHANGED <<price, reboots>>
    BY DEF T!Tick, Sides
  <1> DEFINE kept == IF closes THEN [trades EXCEPT ![holding.id] = T!Closed(@, holding, exit)] ELSE trades
             new == [id |-> Len(kept) + 1, side |-> way, entry |-> price]
             oc == T!Order("close", holding)
             oe == T!Order("entry", new)
             closing == IF closes THEN <<oc>> ELSE <<>>
             entering == IF enters THEN <<oe>> ELSE <<>>
             list == closing \o entering
  <1>2. /\ Table(kept, noted) /\ Held(kept, noted, IF closes THEN T!None ELSE holding)
        /\ Sendable(trades, noted) \subseteq Sendable(kept, noted)
        /\ closes => oc \in Sendable(kept, noted)
    <2>1. CASE closes
      <3>1. holding # T!None
        BY <1>1, <2>1
      <3> QED
        BY <2>1, <3>1, CloseOne
    <2>2. CASE ~closes
      BY <2>2
    <2> QED
      BY <2>1, <2>2
  <1>3. enters => (IF closes THEN T!None ELSE holding) = T!None
    BY <1>1
  <1>4. /\ Table(trades', noted') /\ Held(trades', noted', holding')
        /\ Sendable(kept, noted) \subseteq Sendable(trades', noted')
        /\ enters => oe \in Sendable(trades', noted')
    <2>1. CASE enters
      <3>1. trades' = Append(kept, T!Opened(way)) /\ noted' = Append(noted, {}) /\ holding' = new
        BY <1>1, <2>1
      <3>2. Held(kept, noted, T!None)
        BY <1>2, <1>3, <2>1
      <3> HIDE DEF kept
      <3> QED
        BY <1>2, <2>1, <3>1, <3>2, OpenOne
    <2>2. CASE ~enters
      <3>1. trades' = kept /\ noted' = noted /\ holding' = T!None /\ closes
        BY <1>1, <2>2
      <3> QED
        BY <1>2, <2>2, <3>1
    <2> QED
      BY <2>1, <2>2
  <1>5. tasks \in Seq(Sendings(trades', noted'))
    <2>1. Sendable(trades, noted) \subseteq Sendable(trades', noted')
      BY <1>2, <1>4
    <2> QED
      BY <2>1, SendingsGrow
  <1>6. list \in Seq(Sendable(trades', noted')) /\ list # <<>>
    <2> DEFINE S == Sendable(trades', noted')
    <2>1. (closes => oc \in S) /\ (enters => oe \in S)
      BY <1>2, <1>4
    <2> HIDE DEF oc, oe, S
    <2>2. closing \in Seq(S) /\ entering \in Seq(S)
      BY <2>1
    <2>3. list # <<>>
      <3>1. CASE closes
        BY <3>1, <2>2
      <3>2. CASE enters
        BY <3>2, <2>2
      <3> QED
        BY <3>1, <3>2
    <2> QED
      BY <2>2, <2>3 DEF S
  <1>7. tasks' = T!Sent(list)
    BY <1>1
  <1> HIDE DEF list, kept, new
  <1>8. tasks' \in Seq(Sendings(trades', noted'))
    BY <1>5, <1>6, <1>7, SentTasks
  <1> QED
    BY <1>1, <1>4, <1>8

LEMMA EntryMoved ==
    ASSUME NEW r \in TradeRow, NEW fill \in Px
    PROVE  LET r2 == [r EXCEPT !.entry = fill]
           IN  r2 \in TradeRow /\ (r.open => r2.open) /\ r2.side = r.side
  <1> DEFINE r2 == [r EXCEPT !.entry = fill]
  <1>1. r2 \in TradeRow /\ r2.side = r.side
    BY DEF TradeRow
  <1>2. r.open => r2.open
    BY DEF TradeRow
  <1> QED
    BY <1>1, <1>2

\* An answer is about the order at the head of its list; it moves the row of that order.
LEMMA EntryAnswered ==
    ASSUME NEW tr, NEW no, NEW h, Table(tr, no), Held(tr, no, h), NEW k \in DOMAIN tr, NEW fill \in Px, tr[k].open
    PROVE  LET tr2 == [tr EXCEPT ![k].entry = fill]
               no2 == [no EXCEPT ![k] = @ \union {"entry"}]
           IN  /\ Table(tr2, no2) /\ Held(tr2, no2, h) /\ Sendable(tr, no) \subseteq Sendable(tr2, no2)
  <1> DEFINE tr2 == [tr EXCEPT ![k].entry = fill]
             no2 == [no EXCEPT ![k] = @ \union {"entry"}]
             r2 == [tr[k] EXCEPT !.entry = fill]
  <1>1. tr \in Seq(TradeRow) /\ no \in Seq(SUBSET {"entry", "exit"}) /\ Len(no) = Len(tr) /\ DOMAIN no = DOMAIN tr
    BY DEF Table
  <1>2. r2 \in TradeRow /\ r2.open /\ r2.side = tr[k].side
    <2>1. tr[k] \in TradeRow
      BY <1>1
    <2> QED
      BY <2>1, EntryMoved
  <1> HIDE DEF r2
  <1>3. /\ tr2 \in Seq(TradeRow) /\ Len(tr2) = Len(tr) /\ DOMAIN tr2 = DOMAIN tr /\ tr2[k] = r2
        /\ \A i \in DOMAIN tr \ {k} : tr2[i] = tr[i]
    BY <1>1, <1>2 DEF r2
  <1>4. /\ no2 \in Seq(SUBSET {"entry", "exit"}) /\ Len(no2) = Len(no) /\ "entry" \in no2[k]
        /\ \A i \in DOMAIN tr \ {k} : no2[i] = no[i]
    BY <1>1
  <1> HIDE DEF tr2, no2
  <1>5. Table(tr2, no2)
    BY <1>1, <1>2, <1>3, <1>4 DEF Table, ClosedFits
  <1>6. ASSUME NEW id, NEW way, NEW e, Entered(tr, no, id, way, e) PROVE Entered(tr2, no2, id, way, e)
    BY <1>2, <1>3, <1>4, <1>6 DEF Entered
  <1>7. Held(tr2, no2, h)
    BY <1>2, <1>3, <1>6 DEF Held
  <1>8. ASSUME NEW o \in Sendable(tr, no) PROVE o \in Sendable(tr2, no2)
    BY <1>2, <1>3, <1>6 DEF Sendable
  <1> QED
    BY <1>5, <1>7, <1>8 DEF tr2, no2

ExitWritten(tr, no, o, fill, tr2, no2) ==
    /\ tr2 = [tr EXCEPT ![o.id].exit = fill, ![o.id].pnl = T!Pnl(o.side, o.entry, fill)]
    /\ no2 = [no EXCEPT ![o.id] = @ \union {"exit"}]

LEMMA ExitAnswered ==
    ASSUME NEW tr, NEW no, NEW h, Table(tr, no), Held(tr, no, h), NEW o \in Sendable(tr, no), o.kind = "close",
           NEW fill \in Px, NEW tr2, NEW no2, ExitWritten(tr, no, o, fill, tr2, no2)
    PROVE  Table(tr2, no2) /\ Held(tr2, no2, h) /\ Sendable(tr, no) \subseteq Sendable(tr2, no2)
  <1> DEFINE k == o.id
             r2 == [tr[k] EXCEPT !.exit = fill, !.pnl = T!Pnl(o.side, o.entry, fill)]
  <1>1. tr \in Seq(TradeRow) /\ no \in Seq(SUBSET {"entry", "exit"}) /\ Len(no) = Len(tr) /\ DOMAIN no = DOMAIN tr
    BY DEF Table
  <1>2. /\ k \in DOMAIN tr /\ ~tr[k].open /\ o.side = tr[k].side /\ o.entry \in Px
        /\ "entry" \notin no[k] => o.entry = tr[k].entry
    BY DEF Sendable, Entered
  <1>3. T!Pnl(o.side, o.entry, fill) \in Int
    BY <1>2, PnlNumber
  <1>4. tr[k] \in TradeRow
    BY <1>1, <1>2
  <1>5. /\ r2 \in TradeRow /\ ~r2.open /\ r2.side = tr[k].side /\ r2.entry = tr[k].entry /\ r2.exit = fill
        /\ r2.pnl = T!Pnl(r2.side, o.entry, fill)
    BY <1>2, <1>3, <1>4 DEF TradeRow
  <1> HIDE DEF r2
  <1>6. /\ tr2 \in Seq(TradeRow) /\ Len(tr2) = Len(tr) /\ DOMAIN tr2 = DOMAIN tr /\ tr2[k] = r2
        /\ \A i \in DOMAIN tr \ {k} : tr2[i] = tr[i]
    <2>1. tr2 = [tr EXCEPT ![k] = r2]
      BY <1>1, <1>2 DEF r2, ExitWritten
    <2> QED
      BY <1>1, <1>2, <1>5, <2>1
  <1>7. /\ no2 \in Seq(SUBSET {"entry", "exit"}) /\ Len(no2) = Len(no) /\ no2[k] = no[k] \union {"exit"}
        /\ \A i \in DOMAIN tr \ {k} : no2[i] = no[i]
    BY <1>1, <1>2 DEF ExitWritten
  <1> HIDE DEF k
  <1>8. ClosedFits(r2, no2[k])
    <2>1. o.entry \in IF "entry" \in no2[k] THEN Px ELSE {r2.entry}
      BY <1>2, <1>5, <1>7
    <2> QED
      BY <1>5, <1>7, <2>1 DEF ClosedFits
  <1>9. Table(tr2, no2)
    BY <1>1, <1>6, <1>7, <1>8 DEF Table
  <1>10. ASSUME NEW id, NEW way, NEW e, Entered(tr, no, id, way, e) PROVE Entered(tr2, no2, id, way, e)
    BY <1>5, <1>6, <1>7, <1>10 DEF Entered
  <1>11. \A i \in DOMAIN tr : tr2[i].open = tr[i].open /\ tr2[i].side = tr[i].side
    BY <1>1, <1>2, <1>4, <1>5, <1>6 DEF TradeRow
  <1>12. Held(tr2, no2, h)
    BY <1>6, <1>10, <1>11 DEF Held
  <1>13. ASSUME NEW q \in Sendable(tr, no) PROVE q \in Sendable(tr2, no2)
    BY <1>6, <1>10, <1>11 DEF Sendable
  <1> QED
    BY <1>9, <1>12, <1>13

LEMMA TailOfMany ==
    ASSUME NEW Q, NEW q \in Seq(Q), q # <<>>, Len(q) # 1
    PROVE  Tail(q) \in Seq(Q) /\ Tail(q) # <<>>
  <1>1. Tail(q) \in Seq(Q) /\ Len(Tail(q)) = Len(q) - 1 /\ Len(q) \in Nat
    BY HeadTailProperties
  <1>2. Len(Tail(q)) # 0
    BY <1>1
  <1> QED
    BY <1>1, <1>2, EmptySeq

\* A list that is answered loses its head, or is done.
LEMMA DoneTasks ==
    ASSUME NEW tr, NEW no, tasks \in Seq(Sendings(tr, no)), NEW k \in DOMAIN tasks, T!Done(k)
    PROVE  tasks' \in Seq(Sendings(tr, no)) /\ Head(tasks[k]) \in Sendable(tr, no)
  <1> DEFINE S == Sendings(tr, no)
  <1>1. tasks[k] \in Seq(Sendable(tr, no)) /\ tasks[k] # <<>>
    BY DEF Sendings
  <1>2. CASE Len(tasks[k]) = 1
    <2>1. tasks' = SubSeq(tasks, 1, k - 1) \o SubSeq(tasks, k + 1, Len(tasks))
      BY <1>2 DEF T!Done, T!RemoveAt
    <2> HIDE DEF S
    <2>2. SubSeq(tasks, 1, k - 1) \in Seq(S) /\ SubSeq(tasks, k + 1, Len(tasks)) \in Seq(S)
      BY SubSeqProperties DEF S
    <2> QED
      BY <1>1, <2>1, <2>2 DEF S
  <1>3. CASE Len(tasks[k]) # 1
    <2>1. Tail(tasks[k]) \in Seq(Sendable(tr, no)) /\ Tail(tasks[k]) # <<>>
      BY <1>1, <1>3, TailOfMany
    <2>2. Tail(tasks[k]) \in S
      BY <2>1 DEF Sendings
    <2>3. tasks' = [tasks EXCEPT ![k] = Tail(tasks[k])]
      BY <1>3 DEF T!Done
    <2> QED
      BY <1>1, <2>2, <2>3
  <1> QED
    BY <1>2, <1>3

LEMMA AnswerFills == ASSUME FillInv, NEW k \in DOMAIN tasks, T!Answered(k) PROVE FillInv'
  <1> USE DEF FillInv
  <1> DEFINE o == Head(tasks[k])
  <1>1. T!Done(k) /\ UNCHANGED <<price, holding, reboots>>
    BY DEF T!Answered
  <1>2. PICK fill \in Px : IF o.kind = "entry" THEN T!EntryNoted(o, fill) ELSE T!ExitNoted(o, fill)
    BY DEF T!Answered
  <1>3. tasks' \in Seq(Sendings(trades, noted)) /\ o \in Sendable(trades, noted)
    BY <1>1, DoneTasks
  <1>4. o.id \in DOMAIN trades /\ o.kind \in {"entry", "close"}
    BY <1>3 DEF Sendable
  <1> HIDE DEF o
  <1>5. /\ Table(trades', noted') /\ Held(trades', noted', holding)
        /\ Sendable(trades, noted) \subseteq Sendable(trades', noted')
    <2>1. CASE UNCHANGED <<trades, noted>>
      BY <2>1
    <2>2. CASE o.kind = "entry" /\ trades[o.id].open
      <3>1. trades' = [trades EXCEPT ![o.id].entry = fill] /\ noted' = [noted EXCEPT ![o.id] = @ \union {"entry"}]
        BY <1>2, <2>2 DEF T!EntryNoted
      <3> QED
        BY <1>4, <2>2, <3>1, EntryAnswered
    <2>3. CASE o.kind = "close" /\ trades[o.id].exit # fill
      <3>1. ExitWritten(trades, noted, o, fill, trades', noted')
        BY <1>2, <2>3 DEF T!ExitNoted, ExitWritten
      <3> QED
        BY <1>3, <2>3, <3>1, ExitAnswered
    <2> QED
      BY <1>2, <1>4, <2>1, <2>2, <2>3 DEF T!EntryNoted, T!ExitNoted
  <1>6. tasks' \in Seq(Sendings(trades', noted'))
    BY <1>3, <1>5, SendingsGrow
  <1> QED
    BY <1>1, <1>5, <1>6

\* A restart takes the open row up as it is written.
LEMMA RebootFills == ASSUME FillInv, T!Reboot PROVE FillInv'
  <1> USE DEF FillInv
  <1> DEFINE open == {k \in DOMAIN trades : trades[k].open}
             k == CHOOSE k \in open : TRUE
  <1>1. /\ holding' = IF open = {} THEN T!None
                      ELSE [id |-> k, side |-> trades[k].side, entry |-> trades[k].entry]
        /\ tasks' = <<>> /\ UNCHANGED <<price, trades, noted>> /\ reboots' \in 0..MaxReboots
    BY ServicesAssumption DEF T!Reboot
  <1>2. Held(trades, noted, holding')
    <2>1. CASE open = {}
      <3>1. T!None.id = 0 /\ DOMAIN trades \subseteq Nat \ {0}
        BY DEF T!None, Table
      <3> QED
        BY <1>1, <2>1, <3>1 DEF Held
    <2>2. CASE open # {}
      <3>1. k \in DOMAIN trades /\ trades[k].open
        BY <2>2
      <3>2. \A j \in DOMAIN trades : trades[j].open <=> j = k
        BY <3>1 DEF Held
      <3>3. trades[k] \in TradeRow /\ k \in Nat \ {0}
        BY <3>1 DEF Table
      <3>4. trades[k].side \in Sides /\ trades[k].entry \in Px
        BY <3>3 DEF TradeRow
      <3>5. holding' = [id |-> k, side |-> trades[k].side, entry |-> trades[k].entry]
        BY <1>1, <2>2
      <3> HIDE DEF k
      <3> QED
        BY <3>1, <3>2, <3>3, <3>4, <3>5 DEF Held, Entered
    <2> QED
      BY <2>1, <2>2
  <1> QED
    BY <1>1, <1>2

LEMMA FillStep == ASSUME FillInv, T!FillNext PROVE FillInv'
  <1>1. CASE \E closes, enters \in BOOLEAN : (closes \/ enters) /\ T!Tick(closes, enters)
    BY <1>1, TickFills
  <1>2. CASE \E k \in DOMAIN tasks : T!Answered(k)
    BY <1>2, AnswerFills
  <1>3. CASE \E k \in DOMAIN tasks : T!Refused(k)
    BY <1>3, DoneTasks DEF T!Refused, FillInv
  <1>4. CASE T!Reboot
    BY <1>4, RebootFills
  <1>5. CASE T!PriceMoves
    BY <1>5 DEF T!PriceMoves, FillInv
  <1> QED
    BY <1>1, <1>2, <1>3, <1>4, <1>5 DEF T!FillNext

LEMMA FillStart == ASSUME T!FillInit PROVE FillInv
  <1>1. trades \in Seq(TradeRow) /\ noted \in Seq(SUBSET {"entry", "exit"}) /\ Len(noted) = Len(trades)
        /\ DOMAIN trades = {} /\ tasks \in Seq(Sendings(trades, noted))
    BY DEF T!FillInit
  <1> QED
    BY <1>1, ServicesAssumption DEF T!FillInit, FillInv, Table, Held

LEMMA FillTypes == FillInv => T!FillTypeOK
  <1> SUFFICES ASSUME FillInv PROVE T!FillTypeOK
    OBVIOUS
  <1>1. ASSUME NEW k \in DOMAIN tasks, NEW i \in DOMAIN tasks[k] PROVE tasks[k][i].id \in DOMAIN trades
    <2>1. tasks[k] \in Seq(Sendable(trades, noted))
      BY DEF FillInv, Sendings
    <2>2. tasks[k][i] \in Sendable(trades, noted)
      BY <2>1
    <2> QED
      BY <2>2 DEF Sendable
  <1> QED
    BY <1>1 DEF FillInv, Table, Held, T!FillTypeOK

LEMMA FillsOwn == FillInv => T!ResultsAreOwn
  <1> SUFFICES ASSUME FillInv PROVE T!ResultsAreOwn
    OBVIOUS
  <1>1. ASSUME NEW k \in DOMAIN trades, ~trades[k].open
        PROVE  LET r == trades[k]
               IN /\ "exit" \notin noted[k] => r.net = r.pnl - T!Fee
                  /\ \E entry \in IF "entry" \in noted[k] THEN Px ELSE {r.entry} : r.pnl = T!Pnl(r.side, entry, r.exit)
                  /\ T!ShownPnl(r) > 0 <=> IF r.side = "long" THEN r.exit > r.entry ELSE r.exit < r.entry
    <2>1. trades[k] \in TradeRow /\ ClosedFits(trades[k], noted[k])
      BY DEF FillInv, Table
    <2>2. trades[k].side \in Sides /\ trades[k].entry \in Px /\ trades[k].exit \in Px
      BY <1>1, <2>1 DEF TradeRow, ClosedFits
    <2>3. T!ShownPnl(trades[k]) > 0 <=> IF trades[k].side = "long" THEN trades[k].exit > trades[k].entry
                                        ELSE trades[k].exit < trades[k].entry
      BY <2>2, PnlSign DEF T!ShownPnl
    <2> QED
      BY <1>1, <2>1, <2>3 DEF ClosedFits
  <1>2. holding # T!None /\ "entry" \notin noted[holding.id] => holding.entry = trades[holding.id].entry
    BY DEF FillInv, Held, Entered
  <1> QED
    BY <1>1, <1>2 DEF T!ResultsAreOwn

-----------------------------------------------------------------------------
(* The lists of markets                                                    *)

\* A set of numbers that is not empty has a least element.
LEMMA LeastNatural ==
  ASSUME NEW S, S \subseteq Nat, S # {}
  PROVE  \E x \in S : \A y \in S : x <= y
  <1> DEFINE Lower == OpToRel(<, Nat)
  <1>1. \A x, y \in Nat : y < x => <<y, x>> \in Lower
    BY DEF OpToRel
  <1>2. IsWellFoundedOn(Lower, Nat)
    BY NatLessThanWellFounded
  <1> HIDE DEF Lower
  <1>3. PICK x \in S : \A y \in S : <<y, x>> \notin Lower
    BY <1>2, WFMin
  <1>4. \A y \in S : ~(y < x)
    BY <1>1, <1>3
  <1>5. \A y \in S : x <= y
    BY <1>4
  <1> QED
    BY <1>5

\* The markets of list A before the i-th of a sequence, and those of the list that have
\* fewer than n of its markets before them.
Ahead(q, A, i) == {q[j] : j \in {j \in 1..(i - 1) : q[j] \in A}}
Place(q, A, i) == Cardinality(Ahead(q, A, i))
Passed(q, A, n) == {q[i] : i \in {i \in DOMAIN q : q[i] \in A /\ Place(q, A, i) < n}}
Distinct(q) == \A i, j \in DOMAIN q : q[i] = q[j] => i = j

LEMMA MarketsFinite == IsFiniteSet(Market) /\ \A S : S \subseteq Market => IsFiniteSet(S) /\ Cardinality(S) \in Nat
  <1>1. IsFiniteSet(Market)
    BY ServicesAssumption
  <1>2. ASSUME NEW S, S \subseteq Market PROVE IsFiniteSet(S) /\ Cardinality(S) \in Nat
    <2>1. IsFiniteSet(S)
      BY <1>1, <1>2, FS_Subset
    <2> QED
      BY <2>1, FS_CardinalityType
  <1> QED
    BY <1>1, <1>2

LEMMA PlaceNumber ==
    ASSUME NEW q \in Seq(Market), NEW A, NEW i \in 1..(Len(q) + 1)
    PROVE  Ahead(q, A, i) \subseteq Market /\ IsFiniteSet(Ahead(q, A, i)) /\ Place(q, A, i) \in Nat
  <1>1. Ahead(q, A, i) \subseteq Market
    BY DEF Ahead
  <1> QED
    BY <1>1, MarketsFinite DEF Place

\* One place further, there is one market more at most.
LEMMA PlaceNext ==
    ASSUME NEW q \in Seq(Market), Distinct(q), NEW A, NEW i \in DOMAIN q
    PROVE  Place(q, A, i + 1) = IF q[i] \in A THEN Place(q, A, i) + 1 ELSE Place(q, A, i)
  <1>1. i \in 1..(Len(q) + 1) /\ i + 1 \in 1..(Len(q) + 1)
    OBVIOUS
  <1>2. 1..((i + 1) - 1) = 1..(i - 1) \union {i}
    BY <1>1
  <1>3. CASE q[i] \in A
    <2>1. Ahead(q, A, i + 1) = Ahead(q, A, i) \union {q[i]}
      BY <1>2, <1>3 DEF Ahead
    <2>2. q[i] \notin Ahead(q, A, i)
      BY DEF Ahead, Distinct
    <2> QED
      BY <1>1, <1>3, <2>1, <2>2, PlaceNumber, FS_AddElement DEF Place
  <1>4. CASE q[i] \notin A
    <2>1. Ahead(q, A, i + 1) = Ahead(q, A, i)
      BY <1>2, <1>4 DEF Ahead
    <2> QED
      BY <1>4, <2>1 DEF Place
  <1> QED
    BY <1>3, <1>4

LEMMA PlaceFirst == ASSUME NEW q, NEW A PROVE Place(q, A, 1) = 0
  <1>1. Ahead(q, A, 1) = {}
    BY DEF Ahead
  <1> QED
    BY <1>1, FS_EmptySet DEF Place

\* Places differ: a market of the list that comes later has a higher one.
LEMMA PlacesRise ==
    ASSUME NEW q \in Seq(Market), Distinct(q), NEW A, NEW i \in DOMAIN q, NEW k \in DOMAIN q, i < k, q[i] \in A
    PROVE  Place(q, A, i) < Place(q, A, k)
  <1>1. i + 1 \in 1..(Len(q) + 1) /\ k \in 1..(Len(q) + 1) /\ i \in 1..(Len(q) + 1)
    OBVIOUS
  <1>2. Ahead(q, A, i + 1) \subseteq Ahead(q, A, k)
    BY DEF Ahead
  <1>3. Place(q, A, i + 1) <= Place(q, A, k)
    BY <1>1, <1>2, PlaceNumber, FS_Subset DEF Place
  <1>4. Place(q, A, i + 1) = Place(q, A, i) + 1
    BY PlaceNext
  <1> QED
    BY <1>1, <1>3, <1>4, PlaceNumber

\* No place is left out before a market that has more than n before it.
LEMMA PlaceTaken ==
    ASSUME NEW q \in Seq(Market), Distinct(q), NEW A, NEW k \in DOMAIN q, NEW n \in Nat, n < Place(q, A, k)
    PROVE  \E i \in DOMAIN q : q[i] \in A /\ Place(q, A, i) = n
  <1> DEFINE S == {i \in 1..(Len(q) + 1) : Place(q, A, i) > n}
  <1>1. S \subseteq Nat /\ k \in S
    OBVIOUS
  <1>2. PICK m \in S : \A x \in S : m <= x
    <2> HIDE DEF S
    <2> QED
      BY <1>1, LeastNatural
  <1>3. m \in 1..(Len(q) + 1) /\ Place(q, A, m) > n
    BY <1>2
  <1>4. m # 1
    BY <1>3, PlaceFirst
  <1>5. m - 1 \in DOMAIN q /\ m - 1 \in 1..(Len(q) + 1) /\ m - 1 + 1 = m
    BY <1>3, <1>4
  <1>6. Place(q, A, m - 1) \in Nat /\ Place(q, A, m) \in Nat
    BY <1>3, <1>5, PlaceNumber
  <1>7. ~(Place(q, A, m - 1) > n)
    BY <1>2, <1>3, <1>5
  <1>8. Place(q, A, m) = IF q[m - 1] \in A THEN Place(q, A, m - 1) + 1 ELSE Place(q, A, m - 1)
    BY <1>5, PlaceNext
  <1>9. q[m - 1] \in A /\ Place(q, A, m - 1) = n
    BY <1>3, <1>6, <1>7, <1>8
  <1> QED
    BY <1>5, <1>9

LEMMA PassedNone == ASSUME NEW q \in Seq(Market), NEW A PROVE Passed(q, A, 0) = {}
  <1>1. \A i \in DOMAIN q : Place(q, A, i) \in Nat
    BY PlaceNumber
  <1> QED
    BY <1>1 DEF Passed

\* Only one market has n of its list before it.
LEMMA PassedOneMore ==
    ASSUME NEW q \in Seq(Market), Distinct(q), NEW A, NEW n \in Nat
    PROVE  \E x : Passed(q, A, n + 1) \subseteq Passed(q, A, n) \union {x}
  <1>1. \A i \in DOMAIN q : Place(q, A, i) \in Nat
    BY PlaceNumber
  <1>2. CASE \E i \in DOMAIN q : q[i] \in A /\ Place(q, A, i) = n
    <2>1. PICK i \in DOMAIN q : q[i] \in A /\ Place(q, A, i) = n
      BY <1>2
    <2>2. ASSUME NEW k \in DOMAIN q, q[k] \in A, Place(q, A, k) = n PROVE k = i
      <3>1. CASE k < i
        BY <2>1, <2>2, <3>1, <1>1, PlacesRise
      <3>2. CASE i < k
        BY <2>1, <2>2, <3>2, <1>1, PlacesRise
      <3> QED
        BY <3>1, <3>2
    <2>3. Passed(q, A, n + 1) \subseteq Passed(q, A, n) \union {q[i]}
      <3>1. ASSUME NEW k \in DOMAIN q, q[k] \in A, Place(q, A, k) < n + 1
            PROVE  k = i \/ Place(q, A, k) < n
        BY <1>1, <2>2, <3>1
      <3> QED
        BY <3>1 DEF Passed
    <2> QED
      BY <2>3
  <1>3. CASE ~\E i \in DOMAIN q : q[i] \in A /\ Place(q, A, i) = n
    <2>1. \A k \in DOMAIN q : q[k] \in A /\ Place(q, A, k) < n + 1 => Place(q, A, k) < n
      BY <1>1, <1>3
    <2>2. Passed(q, A, n + 1) \subseteq Passed(q, A, n)
      BY <2>1 DEF Passed
    <2> QED
      BY <2>2
  <1> QED
    BY <1>2, <1>3

\* The sets of one page, and what was read when it is over.
Page(q, A, n) == {q[i] : i \in {i \in DOMAIN q : q[i] \in A /\ Place(q, A, i) \in n..(n + PageSize - 1)}}

LEMMA PageRead ==
    ASSUME NEW q \in Seq(Market), NEW A, NEW n \in Nat
    PROVE  Passed(q, A, n + PageSize) \subseteq Passed(q, A, n) \union Page(q, A, n)
  <1>1. PageSize \in Nat
    BY ServicesAssumption
  <1>2. \A i \in DOMAIN q : Place(q, A, i) \in Nat
    BY PlaceNumber
  <1>3. ASSUME NEW i \in DOMAIN q, Place(q, A, i) < n + PageSize, ~(Place(q, A, i) < n)
        PROVE  Place(q, A, i) \in n..(n + PageSize - 1)
    BY <1>1, <1>2, <1>3
  <1> QED
    BY <1>3 DEF Passed, Page

\* A short page is the last one.
LEMMA ShortPageIsLast ==
    ASSUME NEW q \in Seq(Market), Distinct(q), NEW A, NEW n \in Nat, Cardinality(Page(q, A, n)) < PageSize
    PROVE  {q[i] : i \in DOMAIN q} \cap A \subseteq Passed(q, A, n + PageSize)
  <1> SUFFICES ASSUME NEW k \in DOMAIN q, q[k] \in A, ~(Place(q, A, k) < n + PageSize) PROVE FALSE
    BY DEF Passed
  <1> DEFINE I == n..(n + PageSize - 1)
             onPage == Page(q, A, n)
             at(v) == CHOOSE i \in DOMAIN q : q[i] \in A /\ Place(q, A, i) = v
             f == [v \in I |-> q[at(v)]]
  <1>1. PageSize \in Nat \ {0}
    BY ServicesAssumption
  <1>2. \A i \in DOMAIN q : Place(q, A, i) \in Nat
    BY PlaceNumber
  <1>3. ASSUME NEW v \in I PROVE at(v) \in DOMAIN q /\ q[at(v)] \in A /\ Place(q, A, at(v)) = v
    <2>1. v \in Nat /\ v < Place(q, A, k)
      BY <1>1, <1>2
    <2>2. \E i \in DOMAIN q : q[i] \in A /\ Place(q, A, i) = v
      BY <2>1, PlaceTaken
    <2> QED
      BY <2>2
  <1> HIDE DEF at
  <1>4. f \in [I -> onPage]
    <2>1. ASSUME NEW v \in I PROVE q[at(v)] \in onPage
      BY <1>3 DEF Page
    <2> QED
      BY <2>1
  <1>5. \A v, w \in I : f[v] = f[w] => v = w
    <2> SUFFICES ASSUME NEW v \in I, NEW w \in I, f[v] = f[w] PROVE v = w
      OBVIOUS
    <2>1. q[at(v)] = q[at(w)]
      OBVIOUS
    <2>2. at(v) = at(w)
      BY <1>3, <2>1 DEF Distinct
    <2> QED
      BY <1>3, <2>2
  <1>6. IsFiniteSet(onPage) /\ Cardinality(onPage) \in Nat
    <2>1. onPage \subseteq Market
      BY DEF Page
    <2> QED
      BY <2>1, MarketsFinite
  <1>7. Cardinality(I) = PageSize
    <2>1. Cardinality(I) = IF n > n + PageSize - 1 THEN 0 ELSE (n + PageSize - 1) - n + 1
      BY <1>1, FS_Interval
    <2> QED
      BY <1>1, <2>1
  <1> HIDE DEF I, onPage, f
  <1>8. f \in Injection(I, onPage)
    BY <1>4, <1>5 DEF Injection, IsInjective
  <1>9. Cardinality(I) <= Cardinality(onPage)
    BY <1>6, <1>8, FS_Injection
  <1> QED
    BY <1>1, <1>6, <1>7, <1>9 DEF onPage

\* Markets are listed once, so a place may be counted by index; in the list of all markets
\* it is the index.
LEMMA PlaceByIndex ==
    ASSUME NEW q \in Seq(Market), Distinct(q), NEW A, NEW k \in DOMAIN q
    PROVE  Cardinality({j \in 1..(k - 1) : q[j] \in A}) = Place(q, A, k)
  <1> DEFINE J == {j \in 1..(k - 1) : q[j] \in A}
             f == [j \in J |-> q[j]]
  <1>1. \A j \in J : j \in DOMAIN q
    OBVIOUS
  <1>2. Ahead(q, A, k) = {q[j] : j \in J}
    BY DEF Ahead
  <1>3. IsFiniteSet(J)
    <2>1. 1 \in Int /\ k - 1 \in Int
      OBVIOUS
    <2>2. IsFiniteSet(1..(k - 1)) /\ J \subseteq 1..(k - 1)
      BY <2>1, FS_Interval
    <2> HIDE DEF J
    <2> QED
      BY <2>2, FS_Subset
  <1> HIDE DEF J
  <1>4. f \in [J -> Ahead(q, A, k)]
    BY <1>2
  <1>5. f \in Surjection(J, Ahead(q, A, k))
    BY <1>2, <1>4 DEF Surjection
  <1>6. f \in Injection(J, Ahead(q, A, k))
    <2>1. \A i, j \in J : f[i] = f[j] => i = j
      BY <1>1 DEF Distinct
    <2> QED
      BY <1>4, <2>1 DEF Injection, IsInjective
  <1>7. ExistsBijection(J, Ahead(q, A, k))
    BY <1>5, <1>6 DEF ExistsBijection, Bijection
  <1>8. Cardinality(Ahead(q, A, k)) = Cardinality(J)
    BY <1>3, <1>7, FS_Bijection
  <1> QED
    BY <1>8 DEF Place, J

LEMMA PlaceInAll ==
    ASSUME NEW q \in Seq(Market), Distinct(q), NEW k \in DOMAIN q
    PROVE  Place(q, Market, k) = k - 1
  <1>1. {j \in 1..(k - 1) : q[j] \in Market} = 1..(k - 1)
    OBVIOUS
  <1>2. 1 \in Int /\ k - 1 \in Int /\ k >= 1
    OBVIOUS
  <1>3. Cardinality(1..(k - 1)) = IF 1 > k - 1 THEN 0 ELSE (k - 1) - 1 + 1
    BY <1>2, FS_Interval
  <1>4. Cardinality(1..(k - 1)) = Place(q, Market, k)
    BY <1>1, PlaceByIndex
  <1> QED
    BY <1>2, <1>3, <1>4

\* By the order of their ends, a page without a wanted market has none behind it.
LEMMA PastThePage ==
    ASSUME NEW q \in Seq(Market), Distinct(q), NEW n \in Nat, NEW S,
           \A i, j \in DOMAIN q : i < j /\ q[j] \in S => q[i] \in S,
           Page(q, Market, n) \cap S = {}
    PROVE  {q[i] : i \in DOMAIN q} \cap S \subseteq Passed(q, Market, n)
  <1> SUFFICES ASSUME NEW k \in DOMAIN q, q[k] \in S, ~(k - 1 < n) PROVE FALSE
    BY PlaceInAll DEF Passed
  <1>1. PageSize \in Nat \ {0}
    BY ServicesAssumption
  <1>2. n + 1 \in DOMAIN q /\ Place(q, Market, n + 1) = n /\ q[n + 1] \in Market
    BY PlaceInAll
  <1>3. q[n + 1] \in Page(q, Market, n)
    BY <1>1, <1>2 DEF Page
  <1>4. q[n + 1] \in S
    <2>1. CASE k = n + 1
      BY <2>1
    <2>2. CASE n + 1 < k
      BY <1>2, <2>2
    <2> QED
      BY <2>1, <2>2
  <1> QED
    BY <1>3, <1>4

-----------------------------------------------------------------------------
(* A list that moves                                                       *)

JoinOf(c, a, b) ==
    /\ c \in Seq(Market) /\ Len(c) = Len(a) + Len(b)
    /\ \A k \in 1..Len(c) : c[k] = IF k <= Len(a) THEN a[k] ELSE b[k - Len(a)]

LEMMA Joined ==
    ASSUME NEW a \in Seq(Market), NEW b \in Seq(Market), NEW c, c = a \o b
    PROVE  JoinOf(c, a, b)
  <1>1. /\ a \o b \in Seq(Market) /\ Len(a \o b) = Len(a) + Len(b)
        /\ \A k \in 1..(Len(a) + Len(b)) : (a \o b)[k] = IF k <= Len(a) THEN a[k] ELSE b[k - Len(a)]
    BY ConcatProperties
  <1>2. Len(c) = Len(a) + Len(b)
    BY <1>1
  <1>3. \A k \in 1..Len(c) : c[k] = IF k <= Len(a) THEN a[k] ELSE b[k - Len(a)]
    <2> SUFFICES ASSUME NEW k \in 1..Len(c) PROVE c[k] = IF k <= Len(a) THEN a[k] ELSE b[k - Len(a)]
      OBVIOUS
    <2>1. k \in 1..(Len(a) + Len(b))
      BY <1>2
    <2>2. c[k] = (a \o b)[k]
      OBVIOUS
    <2> QED
      BY <1>1, <2>1, <2>2, Zenon
  <1> QED
    BY <1>1, <1>2, <1>3 DEF JoinOf

LEMMA RemovedAt ==
    ASSUME NEW q \in Seq(Market), NEW i \in DOMAIN q, NEW q2, q2 = M!RemoveAt(q, i)
    PROVE  /\ q2 \in Seq(Market) /\ Len(q2) = Len(q) - 1 /\ DOMAIN q2 = 1..(Len(q) - 1)
           /\ \A k \in DOMAIN q2 : q2[k] = IF k < i THEN q[k] ELSE q[k + 1]
  <1> DEFINE a == SubSeq(q, 1, i - 1)
             b == SubSeq(q, i + 1, Len(q))
  <1>1. i \in 1..Len(q) /\ Len(q) \in Nat
    OBVIOUS
  <1>2. a \in Seq(Market) /\ Len(a) = i - 1 /\ \A k \in 1..(i - 1) : a[k] = q[k]
    OBVIOUS
  <1>3. b \in Seq(Market) /\ Len(b) = Len(q) - i /\ \A k \in 1..(Len(q) - i) : b[k] = q[i + k]
    <2>1. i + 1 \in Int /\ Len(q) \in Int /\ \A k \in (i + 1)..Len(q) : q[k] \in Market
      BY <1>1
    <2>2. CASE i = Len(q)
      <3>1. b = <<>>
        BY <2>2, SubSeqEmpty, <1>1
      <3> QED
        BY <2>2, <3>1, <1>1
    <2>3. CASE i < Len(q)
      <3>1. /\ b \in Seq(Market) /\ Len(b) = Len(q) - (i + 1) + 1
            /\ \A k \in 1..(Len(q) - (i + 1) + 1) : b[k] = q[i + 1 + k - 1]
        BY <2>1, <2>3, <1>1, SubSeqProperties
      <3> QED
        BY <3>1, <1>1
    <2> QED
      BY <1>1, <2>2, <2>3
  <1> HIDE DEF a, b
  <1>4. q2 = a \o b
    BY DEF M!RemoveAt, a, b
  <1>7. /\ q2 \in Seq(Market) /\ Len(q2) = Len(a) + Len(b)
        /\ \A k \in 1..Len(q2) : q2[k] = IF k <= Len(a) THEN a[k] ELSE b[k - Len(a)]
    <2>1. JoinOf(q2, a, b)
      BY <1>2, <1>3, <1>4, Joined
    <2> QED
      BY <2>1 DEF JoinOf
  <1>5. q2 \in Seq(Market) /\ Len(q2) = Len(q) - 1
    BY <1>1, <1>2, <1>3, <1>7
  <1>6. ASSUME NEW k \in 1..(Len(q) - 1) PROVE q2[k] = IF k < i THEN q[k] ELSE q[k + 1]
    <2>1. CASE k < i
      <3>1. q2[k] = a[k]
        BY <1>1, <1>2, <1>5, <1>7, <2>1
      <3> QED
        BY <1>1, <1>2, <2>1, <3>1
    <2>2. CASE ~(k < i)
      <3>3. k \in 1..Len(q2) /\ ~(k <= Len(a))
        BY <1>1, <1>2, <1>5, <2>2
      <3>1. q2[k] = b[k - (i - 1)]
        BY <1>2, <1>7, <3>3
      <3>2. k - (i - 1) \in 1..(Len(q) - i) /\ i + (k - (i - 1)) = k + 1
        BY <1>1, <2>2
      <3> QED
        BY <1>3, <2>2, <3>1, <3>2
    <2> QED
      BY <2>1, <2>2
  <1>8. DOMAIN q2 = 1..(Len(q) - 1)
    BY <1>5
  <1> QED
    BY <1>5, <1>6, <1>8

\* What is read of a list from which one market was taken.
LEMMA PassedRemoved ==
    ASSUME NEW q \in Seq(Market), Distinct(q), NEW i \in DOMAIN q, NEW A, NEW n \in Nat, NEW q2, q2 = M!RemoveAt(q, i)
    PROVE  Passed(q2, A, n) \subseteq Passed(q, A, n + 1)
  <1>1. /\ q2 \in Seq(Market) /\ Len(q2) = Len(q) - 1 /\ DOMAIN q2 = 1..(Len(q) - 1) /\ Len(q) \in Nat
        /\ \A k \in DOMAIN q2 : q2[k] = IF k < i THEN q[k] ELSE q[k + 1]
    BY RemovedAt
  <1> SUFFICES ASSUME NEW k \in DOMAIN q2, q2[k] \in A, Place(q2, A, k) < n PROVE q2[k] \in Passed(q, A, n + 1)
    BY DEF Passed
  <1> DEFINE j == IF k < i THEN k ELSE k + 1
  <1>2. j \in DOMAIN q /\ q2[k] = q[j] /\ j \in 1..(Len(q) + 1) /\ k \in 1..(Len(q2) + 1)
    BY <1>1
  <1>3. Ahead(q, A, j) \ {q[i]} \subseteq Ahead(q2, A, k)
    <2> SUFFICES ASSUME NEW h \in 1..(j - 1), q[h] \in A, h # i PROVE q[h] \in Ahead(q2, A, k)
      BY DEF Ahead
    <2>1. CASE h < i
      <3>1. h \in 1..(k - 1) /\ h \in DOMAIN q2 /\ q2[h] = q[h]
        BY <1>1, <1>2, <2>1, SMTT(30)
      <3> QED
        BY <3>1 DEF Ahead
    <2>2. CASE ~(h < i)
      <3>1. j = k + 1 /\ h > i /\ h <= k
        BY <1>1, <1>2, <2>2
      <3>2. h - 1 \in 1..(k - 1) /\ h - 1 \in DOMAIN q2 /\ ~(h - 1 < i) /\ h - 1 + 1 = h
        BY <1>1, <3>1
      <3>3. q2[h - 1] = q[h]
        BY <1>1, <3>2
      <3> QED
        BY <3>2, <3>3 DEF Ahead
    <2> QED
      BY <2>1, <2>2
  <1> HIDE DEF j
  <1>4. Place(q, A, j) <= Place(q2, A, k) + 1
    <2> DEFINE X == Ahead(q, A, j) \ {q[i]}
    <2>1. /\ IsFiniteSet(Ahead(q, A, j)) /\ Place(q, A, j) \in Nat
          /\ IsFiniteSet(Ahead(q2, A, k)) /\ Place(q2, A, k) \in Nat
      BY <1>1, <1>2, PlaceNumber
    <2>2. /\ IsFiniteSet(X)
          /\ Cardinality(X) = IF q[i] \in Ahead(q, A, j) THEN Place(q, A, j) - 1 ELSE Place(q, A, j)
      BY <2>1, FS_RemoveElement DEF Place
    <2>3. Cardinality(X) <= Place(q2, A, k)
      BY <1>3, <2>1, FS_Subset DEF Place
    <2> HIDE DEF X
    <2> QED
      BY <2>1, <2>2, <2>3
  <1>5. Place(q, A, j) \in Nat /\ Place(q2, A, k) \in Nat
    BY <1>1, <1>2, PlaceNumber
  <1>6. Place(q, A, j) < n + 1
    BY <1>4, <1>5
  <1> QED
    BY <1>2, <1>6 DEF Passed

\* What is read of a list in which one market was moved to the front.
LEMMA PassedRaised ==
    ASSUME NEW q \in Seq(Market), Distinct(q), NEW i \in DOMAIN q, NEW A, NEW n \in Nat, NEW q2,
           q2 = <<q[i]>> \o M!RemoveAt(q, i)
    PROVE  Passed(q2, A, n) \subseteq Passed(q, A, n) \union {q[i]}
  <1> DEFINE r == M!RemoveAt(q, i)
  <1>1. /\ r \in Seq(Market) /\ Len(r) = Len(q) - 1 /\ DOMAIN r = 1..(Len(q) - 1) /\ Len(q) \in Nat
        /\ \A k \in DOMAIN r : r[k] = IF k < i THEN q[k] ELSE q[k + 1]
    BY RemovedAt
  <1> HIDE DEF r
  <1>2. q[i] \in Market /\ q2 = <<q[i]>> \o r
    BY DEF r
  <1>3. /\ q2 \in Seq(Market) /\ Len(q2) = Len(q) /\ q2[1] = q[i]
        /\ \A k \in DOMAIN r : q2[k + 1] = r[k]
    <2>1. <<q[i]>> \in Seq(Market) /\ Len(<<q[i]>>) = 1 /\ <<q[i]>>[1] = q[i]
      BY <1>2
    <2>2. /\ q2 \in Seq(Market) /\ Len(q2) = 1 + Len(r)
          /\ \A k \in 1..Len(q2) : q2[k] = IF k <= 1 THEN <<q[i]>>[k] ELSE r[k - 1]
      <3>1. JoinOf(q2, <<q[i]>>, r)
        BY <1>1, <1>2, <2>1, Joined
      <3> DEFINE u == <<q[i]>>
      <3>2. Len(u) = 1
        BY <2>1
      <3> HIDE DEF u
      <3>3. JoinOf(q2, u, r)
        BY <3>1 DEF u
      <3>4. /\ q2 \in Seq(Market) /\ Len(q2) = 1 + Len(r)
            /\ \A k \in 1..Len(q2) : q2[k] = IF k <= 1 THEN u[k] ELSE r[k - 1]
        BY <3>2, <3>3 DEF JoinOf
      <3> QED
        BY <3>4 DEF u
    <2>3. Len(q2) = Len(q) /\ 1 \in 1..Len(q2)
      BY <1>1, <2>2
    <2>4. \A k \in DOMAIN r : k + 1 \in 1..Len(q2) /\ ~(k + 1 <= 1) /\ k + 1 - 1 = k
      BY <1>1, <2>3
    <2> QED
      BY <2>1, <2>2, <2>3, <2>4
  <1> SUFFICES ASSUME NEW k \in DOMAIN q2, q2[k] \in A, Place(q2, A, k) < n, q2[k] # q[i]
               PROVE  q2[k] \in Passed(q, A, n)
    BY DEF Passed
  <1> DEFINE j == IF k - 1 < i THEN k - 1 ELSE k
  <1>4. k # 1 /\ k - 1 \in DOMAIN r /\ k - 1 + 1 = k
    BY <1>1, <1>3
  <1>5. j \in DOMAIN q /\ q2[k] = q[j] /\ j \in 1..(Len(q) + 1) /\ k \in 1..(Len(q2) + 1)
    BY <1>1, <1>3, <1>4
  <1>6. Ahead(q, A, j) \subseteq Ahead(q2, A, k)
    <2> SUFFICES ASSUME NEW h \in 1..(j - 1), q[h] \in A PROVE q[h] \in Ahead(q2, A, k)
      BY DEF Ahead
    <2>1. CASE h = i
      <3>1. 1 \in 1..(k - 1) /\ q2[1] = q[h]
        BY <1>3, <1>4, <1>1, <2>1
      <3> QED
        BY <3>1 DEF Ahead
    <2>2. CASE h < i
      <3>3. h \in 1..(k - 2) /\ k \in 1..Len(q)
        BY <1>1, <1>3, <1>4, <2>2
      <3>4. h \in Int /\ k \in Int /\ Len(q) \in Int /\ 1 <= h /\ h <= k - 2 /\ k <= Len(q)
        BY <1>1, <3>3
      <3>5. h <= Len(q) - 1 /\ 1 <= h + 1 /\ h + 1 <= k - 1
        BY <3>4
      <3>6. h \in DOMAIN r /\ h + 1 \in 1..(k - 1)
        BY <1>1, <3>4, <3>5
      <3>1. h \in DOMAIN r /\ r[h] = q[h] /\ h + 1 \in 1..(k - 1)
        BY <1>1, <2>2, <3>6
      <3>2. q2[h + 1] = q[h]
        BY <1>3, <3>1
      <3> QED
        BY <3>1, <3>2 DEF Ahead
    <2>3. CASE i < h
      <3>3. j = k /\ h \in 1..(k - 1) /\ k \in 1..Len(q) /\ h > i /\ i >= 1
        BY <1>1, <1>3, <1>4, <2>3
      <3>4. h - 1 \in DOMAIN r /\ h - 1 + 1 = h /\ ~(h - 1 < i)
        BY <1>1, <3>3
      <3>1. h - 1 \in DOMAIN r /\ r[h - 1] = q[h] /\ h \in 1..(k - 1) /\ h - 1 + 1 = h
        BY <1>1, <3>3, <3>4
      <3>2. q2[h] = q[h]
        BY <1>3, <3>1
      <3> QED
        BY <3>1, <3>2 DEF Ahead
    <2> QED
      BY <2>1, <2>2, <2>3
  <1> HIDE DEF j
  <1>7. Place(q, A, j) <= Place(q2, A, k) /\ Place(q, A, j) \in Nat /\ Place(q2, A, k) \in Nat
    BY <1>3, <1>5, <1>6, PlaceNumber, FS_Subset DEF Place
  <1> QED
    BY <1>5, <1>7 DEF Passed

-----------------------------------------------------------------------------
(* The scans                                                               *)

LEMMA SameCount == \A S : M!Cardinality(S) = Cardinality(S)
  BY DEF M!Cardinality, Cardinality

LEMMA ScanNumbers == Months \in Nat \ {0} /\ PageSize \in Nat \ {0} /\ OffsetCap \in Nat /\ MaxMoves \in Nat
  BY ServicesAssumption

MarketsOf(s) == IF s = 0 THEN Market ELSE {m \in Market : month[m] = s}
Markets == {order[i] : i \in DOMAIN order}

ScanFits ==
    /\ scan \in {"none", "band", "expiry", "done", "failed"}
    /\ order \in Seq(Market) /\ Distinct(order)
    /\ month \in [Market -> 1..Months] /\ wanted \subseteq Market
    /\ slice \in 1..(Months + 1) /\ offset \in 0..(OffsetCap + PageSize)
    /\ found \subseteq wanted /\ capped \subseteq 0..Months /\ moves \in 0..MaxMoves
    /\ scan = "band" => slice <= Months /\ offset <= OffsetCap
    /\ scan = "expiry" => M!EndsInOrder /\ capped = {}

\* What the scan has read or left behind; a market that comes in behind the reader is missed.
Behind ==
    CASE scan = "band"   -> {m \in Market : month[m] < slice} \union Passed(order, MarketsOf(slice), offset)
      [] scan = "expiry" -> Passed(order, Market, offset)
      [] OTHER           -> Market
Missed == (M!Due \ found) \intersect Behind
MissedFew == scan \in {"band", "expiry", "done"} => Cardinality(Missed) <= moves

ScanInv == part = "scan" => ScanFits /\ MissedFew

LEMMA PageIs ==
    ASSUME ScanFits, NEW s \in 0..Months
    PROVE  M!PageOf(s) = Page(order, MarketsOf(s), offset)
  <1> DEFINE A == MarketsOf(s)
  <1>1. order \in Seq(Market) /\ Distinct(order)
    BY DEF ScanFits
  <1>2. \A m \in Market : M!Listed(s, m) <=> m \in A
    BY DEF M!Listed, MarketsOf
  <1> HIDE DEF A
  <1>3. ASSUME NEW i \in DOMAIN order PROVE M!Earlier(s, i) = Place(order, A, i)
    <2>1. {j \in 1..(i - 1) : M!Listed(s, order[j])} = {j \in 1..(i - 1) : order[j] \in A}
      BY <1>1, <1>2
    <2> QED
      BY <1>1, <2>1, PlaceByIndex, SameCount DEF M!Earlier
  <1>4. \A i \in DOMAIN order : M!Listed(s, order[i]) <=> order[i] \in A
    BY <1>1, <1>2
  <1> QED
    BY <1>3, <1>4 DEF M!PageOf, Page, A

LEMMA MissedFinite ==
    ASSUME ScanFits
    PROVE  /\ Missed \subseteq Market /\ IsFiniteSet(Missed) /\ Cardinality(Missed) \in Nat
           /\ \A S : S \subseteq Missed => Cardinality(S) <= Cardinality(Missed)
  <1>1. Missed \subseteq Market
    BY DEF ScanFits, Missed, M!Due
  <1>2. IsFiniteSet(Missed) /\ Cardinality(Missed) \in Nat
    BY <1>1, MarketsFinite
  <1> QED
    BY <1>1, <1>2, FS_Subset

\* What is due is listed and wanted, in a month that is not named as unread.
LEMMA DueIs ==
    M!Due = {m \in Markets \intersect atStart \intersect wanted : month[m] \notin capped /\ 0 \notin capped}
  BY DEF M!Due, M!ToSet, Markets

\* A step that reads misses nothing more.
LEMMA ReadsOn ==
    ASSUME ScanFits, ScanFits', MissedFew, scan \in {"band", "expiry"}, moves' = moves, Missed' \subseteq Missed
    PROVE  MissedFew'
  <1>1. Cardinality(Missed) \in Nat /\ Cardinality(Missed') <= Cardinality(Missed)
    BY MissedFinite
  <1>2. Cardinality(Missed') \in Nat
    <2>1. Missed' \subseteq Market
      BY MissedFinite
    <2> QED
      BY <2>1, MarketsFinite
  <1> QED
    BY <1>1, <1>2 DEF MissedFew, ScanFits

LEMMA ScanStarts == ASSUME ScanFits, NEW kind \in {"band", "expiry"}, M!Start(kind) PROVE ScanFits' /\ MissedFew'
  <1>1. /\ scan' = kind /\ slice' = 1 /\ offset' = 0 /\ found' = {} /\ capped' = {} /\ moves' = 0
        /\ UNCHANGED <<order, month, wanted>> /\ (kind = "expiry" => M!EndsInOrder)
    BY DEF M!Start
  <1>2. ScanFits'
    <2>1. scan' = "expiry" => M!EndsInOrder'
      BY <1>1 DEF M!EndsInOrder
    <2>2. Distinct(order)' /\ order' \in Seq(Market) /\ month' \in [Market -> 1..Months] /\ wanted' \subseteq Market
      BY <1>1 DEF ScanFits
    <2>3. slice' \in 1..(Months + 1) /\ offset' \in 0..(OffsetCap + PageSize) /\ moves' \in 0..MaxMoves
          /\ slice' <= Months /\ offset' <= OffsetCap
      BY <1>1, ScanNumbers
    <2> QED
      BY <1>1, <2>1, <2>2, <2>3 DEF ScanFits
  <1>3. Passed(order, MarketsOf(1)', 0) = {} /\ Passed(order, Market, 0) = {}
    BY PassedNone DEF ScanFits
  <1>4. Behind' = {}
    <2>1. CASE kind = "band"
      <3>1. {m \in Market : month[m] < 1} = {}
        BY DEF ScanFits
      <3> QED
        BY <1>1, <1>3, <2>1, <3>1 DEF Behind, MarketsOf
    <2>2. CASE kind = "expiry"
      BY <1>1, <1>3, <2>2 DEF Behind
    <2> QED
      BY <2>1, <2>2
  <1>5. Missed' = {}
    BY <1>4 DEF Missed
  <1> QED
    BY <1>1, <1>2, <1>5, FS_EmptySet DEF MissedFew

\* A page of a month. The wanted markets on it are found; the month is over with a short
\* page, or it is named.
LEMMA SliceEnds ==
    ASSUME ScanFits, MissedFew, scan = "band", NEW label \in {{}, {slice}}, M!EndSlice(label),
           UNCHANGED <<order, month, wanted, atStart, moves>>,
           found \subseteq found', found' \subseteq wanted,
           label = {} => Markets \intersect MarketsOf(slice) \intersect wanted
                           \subseteq found' \union Passed(order, MarketsOf(slice), offset)
    PROVE  ScanFits' /\ MissedFew'
  <1>1. /\ capped' = capped \union label /\ offset' = 0 /\ slice' = slice + 1
        /\ scan' = IF slice = Months THEN "done" ELSE scan
    BY DEF M!EndSlice
  <1>2. slice \in 1..Months /\ month \in [Market -> 1..Months] /\ order \in Seq(Market)
    BY ScanNumbers DEF ScanFits
  <1>3. ScanFits'
    <2>1. Distinct(order)' /\ order' \in Seq(Market) /\ month' \in [Market -> 1..Months] /\ wanted' \subseteq Market
          /\ moves' \in 0..MaxMoves
      BY DEF ScanFits
    <2>2. slice' \in 1..(Months + 1) /\ offset' \in 0..(OffsetCap + PageSize) /\ offset' <= OffsetCap
          /\ (scan' = "band" => slice' <= Months) /\ scan' \in {"band", "done"}
      BY <1>1, <1>2, ScanNumbers
    <2>3. capped' \subseteq 0..Months
      <3>1. slice \in 0..Months
        BY <1>2, ScanNumbers
      <3>2. label \subseteq 0..Months
        BY <3>1
      <3> QED
        BY <1>1, <3>2 DEF ScanFits
    <2> QED
      BY <2>1, <2>2, <2>3 DEF ScanFits
  <1>4. Passed(order, MarketsOf(slice + 1), 0) = {}
    BY <1>2, PassedNone
  <1>5. Behind' = {m \in Market : month[m] < slice + 1}
    <2>1. CASE slice = Months
      BY <1>1, <1>2, <2>1 DEF Behind
    <2>2. CASE slice # Months
      <3>1. scan' = "band" /\ MarketsOf(slice)' = MarketsOf(slice + 1)
        BY <1>1, <2>2 DEF MarketsOf
      <3>2. Passed(order', MarketsOf(slice)', offset') = {}
        BY <1>1, <1>4, <3>1
      <3>3. Behind' = {m \in Market : month'[m] < slice'} \union Passed(order', MarketsOf(slice)', offset')
        BY <3>1 DEF Behind, Passed, Place, Ahead
      <3> QED
        BY <1>1, <3>2, <3>3
    <2> QED
      BY <2>1, <2>2
  <1>6. ASSUME NEW m \in Missed' PROVE m \in Missed
    <2>1. /\ m \in Markets /\ m \in atStart /\ m \in wanted /\ month[m] \notin capped' /\ 0 \notin capped'
          /\ m \notin found' /\ m \in Market /\ month[m] < slice + 1
      <3>1. m \in M!Due' /\ m \notin found' /\ m \in Behind'
        BY <1>6 DEF Missed
      <3>2. /\ m \in Markets' /\ m \in atStart' /\ m \in wanted' /\ month'[m] \notin capped' /\ 0 \notin capped'
        BY <3>1 DEF M!Due, M!ToSet, Markets
      <3>3. Markets' = Markets
        BY DEF Markets
      <3> QED
        BY <1>5, <3>1, <3>2, <3>3
    <2>2. m \in M!Due /\ m \notin found
      BY <1>1, <2>1, DueIs
    <2>3. CASE month[m] < slice
      BY <2>1, <2>2, <2>3 DEF Missed, Behind
    <2>4. CASE month[m] = slice
      <3>1. label = {}
        BY <1>1, <2>1, <2>4
      <3>2. m \in MarketsOf(slice)
        BY <1>2, <2>1, <2>4 DEF MarketsOf
      <3>3. m \in Passed(order, MarketsOf(slice), offset)
        BY <2>1, <3>1, <3>2
      <3> QED
        BY <2>2, <3>3 DEF Missed, Behind
    <2> QED
      BY <1>2, <2>1, <2>3, <2>4
  <1> QED
    BY <1>3, <1>6, ReadsOn

LEMMA BandReads == ASSUME ScanFits, MissedFew, M!BandPage PROVE ScanFits' /\ MissedFew'
  <1> DEFINE A == MarketsOf(slice)
             rows == Page(order, A, offset)
  <1>1. scan = "band" /\ slice \in 1..Months /\ offset \in Nat /\ order \in Seq(Market) /\ Distinct(order)
    BY ScanNumbers DEF M!BandPage, ScanFits
  <1>2. M!PageOf(slice) = rows
    <2>1. slice \in 0..Months
      BY <1>1
    <2> QED
      BY <2>1, PageIs
  <1>3. /\ found' = found \union (rows \intersect wanted)
        /\ UNCHANGED <<order, month, wanted, atStart, moves>>
        /\ IF Cardinality(rows) < PageSize THEN M!EndSlice({})
           ELSE IF offset + PageSize > OffsetCap THEN M!EndSlice({slice})
           ELSE offset' = offset + PageSize /\ UNCHANGED <<scan, slice, capped>>
    BY <1>2, SameCount DEF M!BandPage, M!LastPage
  <1>4. found \subseteq found' /\ found' \subseteq wanted
    BY <1>3 DEF ScanFits
  <1>5. Passed(order, A, offset + PageSize) \subseteq Passed(order, A, offset) \union rows
    BY <1>1, PageRead
  <1>6. CASE Cardinality(rows) < PageSize
    <2>1. Markets \intersect A \subseteq Passed(order, A, offset + PageSize)
      BY <1>1, <1>6, ShortPageIsLast DEF Markets
    <2>2. Markets \intersect A \intersect wanted \subseteq found' \union Passed(order, A, offset)
      BY <1>3, <1>5, <2>1
    <2>3. M!EndSlice({})
      BY <1>3, <1>6
    <2> HIDE DEF rows
    <2> QED
      BY <1>1, <1>3, <1>4, <2>2, <2>3, SliceEnds
  <1>7. CASE ~(Cardinality(rows) < PageSize) /\ offset + PageSize > OffsetCap
    <2>1. M!EndSlice({slice})
      BY <1>3, <1>7
    <2> HIDE DEF rows
    <2> QED
      BY <1>1, <1>3, <1>4, <2>1, SliceEnds
  <1>8. CASE ~(Cardinality(rows) < PageSize) /\ ~(offset + PageSize > OffsetCap)
    <2>1. offset' = offset + PageSize /\ UNCHANGED <<scan, slice, capped>>
      BY <1>3, <1>8
    <2>2. offset' \in 0..(OffsetCap + PageSize) /\ offset' <= OffsetCap
      BY <1>1, <1>8, <2>1, ScanNumbers
    <2> HIDE DEF rows, A
    <2>3. ScanFits'
      BY <1>1, <1>3, <1>4, <2>1, <2>2 DEF ScanFits
    <2>4. Behind' \subseteq Behind \union rows
      <3>1. Behind' = {m \in Market : month[m] < slice} \union Passed(order, A, offset + PageSize)
        BY <1>1, <1>3, <2>1 DEF Behind, MarketsOf, A
      <3>2. Behind = {m \in Market : month[m] < slice} \union Passed(order, A, offset)
        BY <1>1 DEF Behind, A
      <3> QED
        BY <1>5, <3>1, <3>2
    <2>5. M!Due' = M!Due /\ M!Due \subseteq wanted
      <3>1. M!Due' = M!Due
        BY <1>3, <2>1 DEF M!Due
      <3> QED
        BY <3>1, DueIs
    <2>6. Missed' \subseteq Missed
      BY <1>3, <2>4, <2>5 DEF Missed
    <2> QED
      BY <1>1, <1>3, <2>3, <2>6, ReadsOn
  <1> QED
    BY <1>6, <1>7, <1>8

LEMMA BandFails == ASSUME ScanFits, MissedFew, M!BandPageFails PROVE ScanFits' /\ MissedFew'
  <1>1. scan = "band" /\ M!EndSlice({slice}) /\ UNCHANGED <<order, month, wanted, found, atStart, moves>>
    BY DEF M!BandPageFails
  <1>2. found \subseteq found' /\ found' \subseteq wanted
    BY <1>1 DEF ScanFits
  <1> QED
    BY <1>1, <1>2, SliceEnds

\* A page of the list by end.
LEMMA ExpiryReads == ASSUME ScanFits, MissedFew, M!ExpiryPage PROVE ScanFits' /\ MissedFew'
  <1> DEFINE rows == Page(order, Market, offset)
             refused == offset > OffsetCap
  <1>1. scan = "expiry" /\ M!EndsInOrder /\ offset \in Nat /\ order \in Seq(Market) /\ Distinct(order)
    BY ScanNumbers DEF M!ExpiryPage, ScanFits
  <1>2. M!PageOf(0) = rows
    <2>1. 0 \in 0..Months /\ MarketsOf(0) = Market
      BY ScanNumbers DEF MarketsOf
    <2> QED
      BY <2>1, PageIs
  <1>3. /\ found' = IF refused THEN found ELSE found \union (rows \intersect wanted)
        /\ capped' = IF refused THEN {0} ELSE {}
        /\ IF refused \/ rows \intersect wanted = {} THEN scan' = "done" /\ offset' = offset
           ELSE scan' = scan /\ offset' = offset + PageSize
        /\ UNCHANGED <<order, month, wanted, slice, atStart, moves>>
    BY <1>2 DEF M!ExpiryPage
  <1>4. Passed(order, Market, offset + PageSize) \subseteq Passed(order, Market, offset) \union rows
    BY <1>1, PageRead
  <1>5. rows \subseteq Market
    BY <1>1 DEF Page
  <1> DEFINE short == rows \intersect wanted = {}
  <1>6. short => Markets \intersect wanted \subseteq Passed(order, Market, offset)
    <2>1. \A i, j \in DOMAIN order : i < j /\ order[j] \in wanted => order[i] \in wanted
      BY <1>1 DEF M!EndsInOrder
    <2> QED
      BY <1>1, <2>1, PastThePage DEF Markets
  <1>7. ScanFits'
    <2>1. offset' \in 0..(OffsetCap + PageSize)
      BY <1>1, <1>3, ScanNumbers DEF ScanFits
    <2>2. scan' \in {"expiry", "done"} /\ M!EndsInOrder' /\ (scan' = "expiry" => capped' = {})
      <3>1. M!EndsInOrder'
        BY <1>1, <1>3 DEF M!EndsInOrder
      <3> QED
        BY <1>1, <1>3, <3>1
    <2>3. found' \subseteq wanted /\ capped' \subseteq 0..Months
      <3>1. {0} \subseteq 0..Months
        BY ScanNumbers
      <3> HIDE DEF rows, refused
      <3> QED
        BY <1>3, <3>1 DEF ScanFits
    <2>4. Distinct(order)' /\ order' \in Seq(Market) /\ month' \in [Market -> 1..Months] /\ wanted' \subseteq Market
          /\ slice' \in 1..(Months + 1) /\ moves' \in 0..MaxMoves
      <3> HIDE DEF rows, refused
      <3> QED
        BY <1>3 DEF ScanFits
    <2> HIDE DEF rows, refused
    <2> QED
      BY <1>3, <2>1, <2>2, <2>3, <2>4 DEF ScanFits
  <1>8. ASSUME NEW m \in Missed' PROVE m \in Missed
    <2>1. m \in M!Due' /\ m \notin found' /\ m \in Behind'
      BY <1>8 DEF Missed
    <2>2. /\ m \in Markets' /\ m \in atStart' /\ m \in wanted' /\ 0 \notin capped'
      BY <2>1 DEF M!Due, M!ToSet, Markets
    <2>3. ~refused
      BY <1>3, <2>2
    <2>4. m \in Markets /\ m \in atStart /\ m \in wanted /\ capped' = {} /\ capped' = {} /\ m \notin found /\ m \notin rows
      <3>1. Markets' = Markets
        BY <1>3 DEF Markets
      <3> HIDE DEF rows, refused
      <3> QED
        BY <1>3, <2>1, <2>2, <2>3, <3>1
    <2>5. m \in Passed(order, Market, offset)
      <3>1. CASE short
        BY <1>6, <2>4, <3>1
      <3>2. CASE ~short
        <4>1. scan' = "expiry" /\ offset' = offset + PageSize
          BY <1>1, <1>3, <2>3, <3>2
        <4>2. Behind' = Passed(order, Market, offset + PageSize)
          BY <1>3, <4>1 DEF Behind, Passed, Place, Ahead
        <4> QED
          BY <1>4, <2>1, <2>4, <4>2
      <3> QED
        BY <3>1, <3>2
    <2>6. m \in M!Due
      BY <1>1, <2>4, DueIs DEF ScanFits
    <2> QED
      BY <1>1, <2>4, <2>5, <2>6 DEF Missed, Behind
  <1> QED
    BY <1>1, <1>3, <1>7, <1>8, ReadsOn

LEMMA ExpiryFails == ASSUME ScanFits, MissedFew, M!ExpiryPageFails PROVE ScanFits' /\ MissedFew'
  <1>1. scan' = "failed" /\ found' = {} /\ UNCHANGED <<order, month, wanted, slice, offset, capped, atStart, moves>>
    BY DEF M!ExpiryPageFails
  <1>2. Distinct(order)' /\ order' \in Seq(Market) /\ month' \in [Market -> 1..Months] /\ wanted' \subseteq Market
        /\ slice' \in 1..(Months + 1) /\ offset' \in 0..(OffsetCap + PageSize)
        /\ capped' \subseteq 0..Months /\ moves' \in 0..MaxMoves
    BY <1>1 DEF ScanFits
  <1> QED
    BY <1>1, <1>2 DEF ScanFits, MissedFew

LEMMA ScanAgain == ASSUME ScanFits, M!Again PROVE ScanFits' /\ MissedFew'
  <1>1. /\ scan' = "none" /\ slice' = 1 /\ offset' = 0 /\ found' = {} /\ capped' = {} /\ moves' = 0
        /\ UNCHANGED <<order, month, wanted>>
    BY DEF M!Again
  <1>2. Distinct(order)' /\ order' \in Seq(Market) /\ month' \in [Market -> 1..Months] /\ wanted' \subseteq Market
    BY <1>1 DEF ScanFits
  <1>3. slice' \in 1..(Months + 1) /\ offset' \in 0..(OffsetCap + PageSize) /\ moves' \in 0..MaxMoves
    BY <1>1, ScanNumbers
  <1> QED
    BY <1>1, <1>2, <1>3 DEF ScanFits, MissedFew

\* One market more is behind the reader.
LEMMA MovesOn ==
    ASSUME ScanFits, ScanFits', MissedFew, scan \in {"band", "expiry"}, moves' = moves + 1, scan' = scan,
           NEW x, Missed' \subseteq Missed \union {x}
    PROVE  MissedFew'
  <1>1. IsFiniteSet(Missed) /\ Cardinality(Missed) \in Nat /\ moves \in Nat
    BY MissedFinite DEF ScanFits
  <1>2. IsFiniteSet(Missed \union {x}) /\ Cardinality(Missed \union {x}) <= Cardinality(Missed) + 1
        /\ Cardinality(Missed \union {x}) \in Nat
    <2>1. /\ IsFiniteSet(Missed \union {x})
          /\ Cardinality(Missed \union {x}) = IF x \in Missed THEN Cardinality(Missed) ELSE Cardinality(Missed) + 1
      BY <1>1, FS_AddElement
    <2> QED
      BY <1>1, <2>1
  <1>3. Cardinality(Missed') <= Cardinality(Missed \union {x}) /\ Cardinality(Missed') \in Nat
    BY <1>2, FS_Subset, FS_CardinalityType
  <1>4. Cardinality(Missed) <= moves
    BY DEF MissedFew
  <1>5. Cardinality(Missed)' <= moves'
    <2>1. Cardinality(Missed') <= moves + 1
      BY <1>1, <1>2, <1>3, <1>4
    <2> QED
      BY <2>1
  <1> QED
    BY <1>5 DEF MissedFew

LEMMA MovedBehind ==
    ASSUME scan \in {"band", "expiry"}, UNCHANGED <<scan, month, slice, offset>>,
           \A A : \E x : Passed(order', A, offset) \subseteq Passed(order, A, offset) \union {x}
    PROVE  \E x : Behind' \subseteq Behind \union {x}
  <1> DEFINE A == IF scan = "band" THEN MarketsOf(slice) ELSE Market
             B == IF scan = "band" THEN {m \in Market : month[m] < slice} ELSE {}
  <1>1. PICK x : Passed(order', A, offset) \subseteq Passed(order, A, offset) \union {x}
    OBVIOUS
  <1>2. Behind = B \union Passed(order, A, offset)
    BY DEF Behind
  <1>3. Behind' = B \union Passed(order', A, offset)
    <2>1. Passed(order, Market, offset)' = Passed(order', Market, offset)
          /\ Passed(order, MarketsOf(slice), offset)' = Passed(order', MarketsOf(slice), offset)
      BY DEF Passed, Place, Ahead, MarketsOf
    <2> QED
      BY <2>1 DEF Behind
  <1> HIDE DEF A, B
  <1> QED
    BY <1>1, <1>2, <1>3

LEMMA MovedMissed ==
    ASSUME UNCHANGED <<month, wanted, found, capped, atStart>>, Markets' \subseteq Markets,
           \E x : Behind' \subseteq Behind \union {x}
    PROVE  \E x : Missed' \subseteq Missed \union {x}
  <1>1. PICK x : Behind' \subseteq Behind \union {x}
    OBVIOUS
  <1>2. M!Due' \subseteq M!Due
    <2>1. M!Due' = {m \in Markets' \intersect atStart \intersect wanted : month[m] \notin capped /\ 0 \notin capped}
      BY DEF M!Due, M!ToSet, Markets
    <2> QED
      BY <2>1, DueIs
  <1>3. Missed' \subseteq Missed \union {x}
    BY <1>1, <1>2 DEF Missed
  <1> QED
    BY <1>3

LEMMA ListShrinks ==
    ASSUME ScanFits, NEW i \in DOMAIN order, M!Moves(M!RemoveAt(order, i))
    PROVE  ScanFits' /\ (MissedFew => MissedFew')
  <1>1. /\ scan \in {"band", "expiry"} /\ moves < MaxMoves /\ order' = M!RemoveAt(order, i) /\ moves' = moves + 1
        /\ UNCHANGED <<scan, month, wanted, slice, offset, found, capped, atStart>>
    BY DEF M!Moves
  <1>2. order \in Seq(Market) /\ Distinct(order) /\ offset \in Nat /\ slice \in Nat
    BY ScanNumbers DEF ScanFits
  <1>3. /\ order' \in Seq(Market) /\ DOMAIN order' = 1..(Len(order) - 1) /\ Len(order) \in Nat
        /\ \A k \in DOMAIN order' : order'[k] = IF k < i THEN order[k] ELSE order[k + 1]
    BY <1>1, <1>2, RemovedAt
  <1> DEFINE from(k) == IF k < i THEN k ELSE k + 1
  <1>4. \A k \in DOMAIN order' : from(k) \in DOMAIN order /\ order'[k] = order[from(k)]
    BY <1>2, <1>3
  <1>5. /\ \A k, l \in DOMAIN order' : from(k) = from(l) => k = l
        /\ \A k, l \in DOMAIN order' : k < l => from(k) < from(l)
    BY <1>2, <1>3
  <1> HIDE DEF from
  <1>6. Distinct(order)'
    BY <1>2, <1>4, <1>5 DEF Distinct
  <1>7. M!EndsInOrder => M!EndsInOrder'
    <2> SUFFICES ASSUME M!EndsInOrder, NEW k \in DOMAIN order', NEW l \in DOMAIN order', k < l, order'[l] \in wanted
                 PROVE  order'[k] \in wanted
      BY <1>1 DEF M!EndsInOrder
    <2> QED
      BY <1>4, <1>5 DEF M!EndsInOrder
  <1>8. Markets' \subseteq Markets
    BY <1>4 DEF Markets
  <1>9. ScanFits'
    <2>1. moves' \in 0..MaxMoves
      BY <1>1, ScanNumbers DEF ScanFits
    <2> QED
      BY <1>1, <1>3, <1>6, <1>7, <2>1 DEF ScanFits
  <1>10. \A A : \E x : Passed(order', A, offset) \subseteq Passed(order, A, offset) \union {x}
    <2> TAKE A
    <2>1. Passed(order', A, offset) \subseteq Passed(order, A, offset + 1)
      BY <1>1, <1>2, PassedRemoved
    <2>2. \E x : Passed(order, A, offset + 1) \subseteq Passed(order, A, offset) \union {x}
      BY <1>2, PassedOneMore
    <2> QED
      BY <2>1, <2>2
  <1>11. \E x : Behind' \subseteq Behind \union {x}
    BY <1>1, <1>10, MovedBehind
  <1>12. \E x : Missed' \subseteq Missed \union {x}
    BY <1>1, <1>8, <1>11, MovedMissed
  <1> QED
    BY <1>1, <1>9, <1>12, MovesOn

LEMMA ListRaised ==
    ASSUME ScanFits, scan = "band", NEW i \in DOMAIN order, i > 1,
           M!Moves(<<order[i]>> \o M!RemoveAt(order, i))
    PROVE  ScanFits' /\ (MissedFew => MissedFew')
  <1>1. /\ scan \in {"band", "expiry"} /\ moves < MaxMoves /\ order' = <<order[i]>> \o M!RemoveAt(order, i)
        /\ moves' = moves + 1
        /\ UNCHANGED <<scan, month, wanted, slice, offset, found, capped, atStart>>
    BY DEF M!Moves
  <1>2. order \in Seq(Market) /\ Distinct(order) /\ offset \in Nat /\ slice \in Nat
    BY ScanNumbers DEF ScanFits
  <1> DEFINE from(k) == IF k = 1 THEN i ELSE IF k - 1 < i THEN k - 1 ELSE k
  <1>3. /\ order' \in Seq(Market) /\ DOMAIN order' = DOMAIN order
        /\ \A k \in DOMAIN order' : from(k) \in DOMAIN order /\ order'[k] = order[from(k)]
    <2> DEFINE r == M!RemoveAt(order, i)
    <2>1. /\ r \in Seq(Market) /\ Len(r) = Len(order) - 1 /\ DOMAIN r = 1..(Len(order) - 1) /\ Len(order) \in Nat
          /\ \A k \in DOMAIN r : r[k] = IF k < i THEN order[k] ELSE order[k + 1]
      BY <1>2, RemovedAt
    <2> DEFINE u == <<order[i]>>
    <2>2. u \in Seq(Market) /\ Len(u) = 1 /\ u[1] = order[i]
      BY <1>2
    <2>3. order' = u \o r
      BY <1>1
    <2> HIDE DEF r, u
    <2>4. JoinOf(order', u, r)
      BY <2>1, <2>2, <2>3, Joined
    <2>5. /\ order' \in Seq(Market) /\ Len(order') = Len(order)
          /\ \A k \in 1..Len(order') : order'[k] = IF k <= 1 THEN u[k] ELSE r[k - 1]
      <3>1. /\ order' \in Seq(Market) /\ Len(order') = 1 + Len(r)
            /\ \A k \in 1..Len(order') : order'[k] = IF k <= 1 THEN u[k] ELSE r[k - 1]
        BY <2>2, <2>4 DEF JoinOf
      <3> QED
        BY <2>1, <3>1
    <2>6. DOMAIN order' = 1..Len(order) /\ DOMAIN order = 1..Len(order)
      BY <1>2, <2>5
    <2>7. ASSUME NEW k \in 1..Len(order) PROVE from(k) \in 1..Len(order) /\ order'[k] = order[from(k)]
      <3>1. CASE k = 1
        BY <1>2, <2>2, <2>5, <3>1
      <3>2. CASE k # 1
        <4>1. k - 1 \in DOMAIN r /\ k - 1 + 1 = k /\ ~(k <= 1)
          BY <2>1, <3>2
        <4>2. order'[k] = r[k - 1]
          BY <2>5, <4>1
        <4>3. r[k - 1] = IF k - 1 < i THEN order[k - 1] ELSE order[k]
          BY <2>1, <4>1
        <4>4. from(k) \in 1..Len(order)
          BY <2>1, <3>2
        <4> QED
          BY <3>2, <4>2, <4>3, <4>4
      <3> QED
        BY <3>1, <3>2
    <2> QED
      BY <2>5, <2>6, <2>7
  <1>5. \A k, l \in DOMAIN order' : from(k) = from(l) => k = l
    <2> SUFFICES ASSUME NEW k \in DOMAIN order', NEW l \in DOMAIN order', from(k) = from(l) PROVE k = l
      OBVIOUS
    <2>2. DOMAIN order = 1..Len(order) /\ Len(order) \in Nat
      BY <1>2
    <2>3. k \in 1..Len(order) /\ l \in 1..Len(order) /\ i \in 1..Len(order)
      <3>1. DOMAIN order' = DOMAIN order
        BY <1>3
      <3> HIDE DEF from
      <3> QED
        BY <2>2, <3>1, Zenon
    <2>1. k \in Int /\ l \in Int /\ i \in Int
      BY <2>2, <2>3
    <2> QED
      BY <2>1
  <1> HIDE DEF from
  <1>6. Distinct(order)'
    BY <1>2, <1>3, <1>5 DEF Distinct
  <1>8. Markets' \subseteq Markets
    BY <1>3 DEF Markets
  <1>9. ScanFits'
    <2>1. moves' \in 0..MaxMoves
      BY <1>1, ScanNumbers DEF ScanFits
    <2> QED
      BY <1>1, <1>3, <1>6, <2>1 DEF ScanFits
  <1>10. \A A : \E x : Passed(order', A, offset) \subseteq Passed(order, A, offset) \union {x}
    <2> TAKE A
    <2>1. order' = <<order[i]>> \o M!RemoveAt(order, i)
      BY <1>1
    <2>2. Passed(order', A, offset) \subseteq Passed(order, A, offset) \union {order[i]}
      BY <1>2, <2>1, PassedRaised
    <2> QED
      BY <2>2
  <1>11. \E x : Behind' \subseteq Behind \union {x}
    BY <1>1, <1>10, MovedBehind
  <1>12. \E x : Missed' \subseteq Missed \union {x}
    BY <1>1, <1>8, <1>11, MovedMissed
  <1> QED
    BY <1>1, <1>9, <1>12, MovesOn

LEMMA ScanSteps == ASSUME ScanFits, MissedFew, M!ScanNext PROVE ScanFits' /\ MissedFew'
  <1>1. CASE \E kind \in {"band", "expiry"} : M!Start(kind)
    BY <1>1, ScanStarts
  <1>2. CASE M!BandPage
    BY <1>2, BandReads
  <1>3. CASE M!BandPageFails
    BY <1>3, BandFails
  <1>4. CASE M!ExpiryPage
    BY <1>4, ExpiryReads
  <1>5. CASE M!ExpiryPageFails
    BY <1>5, ExpiryFails
  <1>6. CASE M!Closes
    BY <1>6, ListShrinks DEF M!Closes
  <1>7. CASE M!Climbs
    BY <1>7, ListRaised DEF M!Climbs
  <1>8. CASE M!Again
    BY <1>8, ScanAgain
  <1> QED
    BY <1>1, <1>2, <1>3, <1>4, <1>5, <1>6, <1>7, <1>8 DEF M!ScanNext

LEMMA ScanStays ==
    ASSUME ScanInv, UNCHANGED part, UNCHANGED listing PROVE ScanInv'
  <1>1. UNCHANGED <<scan, order, month, wanted, slice, offset, found, capped, atStart, moves>>
    BY DEF listing
  <1>2. ScanFits => ScanFits'
    BY <1>1 DEF ScanFits, Distinct, M!EndsInOrder
  <1>3. Missed' = Missed
    BY <1>1 DEF Missed, Behind, M!Due, M!ToSet, Passed, Place, Ahead, MarketsOf
  <1>4. MissedFew => MissedFew'
    BY <1>1, <1>3 DEF MissedFew
  <1> QED
    BY <1>2, <1>4 DEF ScanInv

LEMMA ScanStep == ASSUME ScanInv, ServicesNext \/ UNCHANGED servicesVars PROVE ScanInv'
  <1>1. CASE part = "scan" /\ ServicesNext
    <2>1. M!ScanNext /\ part' = part
      BY <1>1 DEF ServicesNext
    <2> QED
      BY <1>1, <2>1, ScanSteps DEF ScanInv
  <1>2. CASE part # "scan" /\ ServicesNext
    BY <1>2 DEF ServicesNext, ScanInv
  <1>3. CASE UNCHANGED servicesVars
    BY <1>3, ScanStays DEF servicesVars
  <1> QED
    BY <1>1, <1>2, <1>3

\* A scan that is over has missed what it has not found.
LEMMA ScanMisses == ASSUME ScanFits, MissedFew PROVE M!MissedOnlyByMoves
  <1> SUFFICES ASSUME scan = "done" PROVE M!Cardinality(M!Due \ found) <= moves
    BY DEF M!MissedOnlyByMoves
  <1>1. Behind = Market
    BY DEF Behind
  <1>2. M!Due \subseteq Market
    BY DueIs DEF ScanFits
  <1>3. Missed = M!Due \ found
    BY <1>1, <1>2 DEF Missed
  <1> QED
    BY <1>3, SameCount DEF MissedFew

LEMMA ScanTypes == ASSUME ScanFits PROVE M!ScanTypeOK
  <1>1. M!ToSet(order) \subseteq Market /\ M!IsInjective(order)
    BY DEF ScanFits, M!ToSet, M!IsInjective, Distinct
  <1> QED
    BY <1>1 DEF ScanFits, M!ScanTypeOK

LEMMA ScanStart == ASSUME M!ScanInit PROVE ScanFits /\ MissedFew
  <1>1. scan = "none" /\ month \in [Market -> 1..Months] /\ wanted \in SUBSET Market
        /\ order = M!SetToSeq(Market)
        /\ slice = 1 /\ offset = 0 /\ found = {} /\ capped = {} /\ atStart = {} /\ moves = 0
    BY DEF M!ScanInit
  <1>2. order \in Seq(Market) /\ Distinct(order)
    <2> DEFINE n == Cardinality(Market)
    <2>1. n \in Nat /\ ExistsBijection(1..n, Market)
      BY MarketsFinite, FS_CardinalityType
    <2>2. \E f \in [1..n -> Market] : M!IsInjective(f)
      BY <2>1 DEF ExistsBijection, Bijection, Injection, IsInjective, M!IsInjective
    <2>3. order = CHOOSE f \in [1..n -> Market] : M!IsInjective(f)
      BY <1>1, SameCount DEF M!SetToSeq
    <2> HIDE DEF n
    <2>4. order \in [1..n -> Market] /\ M!IsInjective(order)
      BY <2>2, <2>3
    <2>5. order \in Seq(Market)
      BY <2>1, <2>4, SeqDef
    <2> QED
      BY <2>4, <2>5 DEF M!IsInjective, Distinct
  <1>3. slice \in 1..(Months + 1) /\ offset \in 0..(OffsetCap + PageSize) /\ moves \in 0..MaxMoves
    BY <1>1, ScanNumbers
  <1> QED
    BY <1>1, <1>2, <1>3 DEF ScanFits, MissedFew

-----------------------------------------------------------------------------
(* The services together                                                   *)

ServicesInv == FeedInv /\ FillInv /\ ScanInv

\* A step of one service leaves what the others' invariants speak of.
LEMMA FeedStays == ASSUME FeedInv, UNCHANGED feed PROVE FeedInv'
  <1>1. UNCHANGED <<mode, wait, delay, streak, heard, age, calm, ban, call, asked, excuse, refusals, relaunches>>
    BY DEF feed
  <1> QED
    BY <1>1 DEF FeedInv, F!FeedTypeOK, CalmIsWaited, BanCoversAsked

LEMMA FillStays == ASSUME FillInv, UNCHANGED fills PROVE FillInv'
  <1>1. UNCHANGED <<price, holding, trades, tasks, noted, reboots>>
    BY DEF fills
  <1> QED
    BY <1>1 DEF FillInv, Table, Held, Sendings, Sendable

LEMMA ServicesStart == ServicesInit => ServicesInv
  <1> SUFFICES ASSUME ServicesInit PROVE ServicesInv
    OBVIOUS
  <1>1. FeedInv
    BY FeedStart DEF ServicesInit
  <1>2. FillInv
    BY FillStart DEF ServicesInit
  <1>3. ScanInv
    BY ScanStart DEF ServicesInit, ScanInv
  <1> QED
    BY <1>1, <1>2, <1>3 DEF ServicesInv

LEMMA ServicesStep == ASSUME ServicesInv, ServicesNext \/ UNCHANGED servicesVars PROVE ServicesInv'
  <1>1. FeedInv /\ FillInv /\ ScanInv
    BY DEF ServicesInv
  <1>2. FeedInv'
    <2>1. CASE UNCHANGED feed
      BY <1>1, <2>1, FeedStays
    <2>2. CASE F!StreamNext
      BY <1>1, <2>2, StreamStep
    <2>3. CASE F!BarsNext
      BY <1>1, <2>3, BarsStep
    <2> QED
      BY <2>1, <2>2, <2>3 DEF ServicesNext, servicesVars
  <1>3. FillInv'
    <2>1. CASE UNCHANGED fills
      BY <1>1, <2>1, FillStays
    <2>2. CASE T!FillNext
      BY <1>1, <2>2, FillStep
    <2> QED
      BY <2>1, <2>2 DEF ServicesNext, servicesVars
  <1>4. ScanInv'
    BY <1>1, ScanStep
  <1> QED
    BY <1>2, <1>3, <1>4 DEF ServicesInv

\* The invariants of the services hold in every reachable state.
THEOREM ServicesInvariance == ServicesSpec => []ServicesInv
  <1>1. ServicesInv /\ [ServicesNext]_servicesVars => ServicesInv'
    BY ServicesStep
  <1> QED
    BY <1>1, ServicesStart, PTL DEF ServicesSpec

\* What happens to the guest passes here is what happens to them alone.
THEOREM ServicesPasses == ServicesSpec => AccessSpec
  <1>1. ServicesInit => AccessInit
    BY DEF ServicesInit
  <1>2. [ServicesNext]_servicesVars => [AccessNext]_accessVars
    BY DEF ServicesNext, servicesVars
  <1> QED
    BY <1>1, <1>2, PTL DEF ServicesSpec, AccessSpec

\* The services keep their types: each order under way belongs to a row of the table, at
\* most one row is open and it is the one that is held, and no market is listed twice.
THEOREM ServicesTypes == ServicesSpec => []TypesOK
  <1>1. ServicesInv /\ AccessTypeOK => TypesOK
    BY FillTypes, ScanTypes DEF ServicesInv, FeedInv, ScanInv, TypesOK
  <1> QED
    BY <1>1, ServicesInvariance, ServicesPasses, AccessTypeCorrect, PTL

\* When the network has been well for as long as one pause can last, the price is as fresh
\* as the stream can make it; a request for bars starts in a pause only if an answer or a
\* restart cut it short; and a scan that says it read everything has missed at most one
\* market for each time the list moved (binance_mark_price_ws, the ban in klines, and the
\* pages of gamma's markets).
THEOREM FeedKeepsAlways == ServicesSpec => FeedKeeps
  <1>1. ServicesInv => F!FeedRecovers /\ (part = "scan" => M!MissedOnlyByMoves)
    BY FeedRecovered, ScanMisses DEF ServicesInv, ScanInv
  <1>2. ServicesInv /\ [ServicesNext]_servicesVars =>
          [(\E c \in Calls : call[c] = "idle" /\ call'[c] = "sent") => asked = 0 \/ excuse]_(F!feedVars)
    <2> SUFFICES ASSUME ServicesInv, ServicesNext \/ UNCHANGED servicesVars, NEW c \in Calls, call[c] = "idle", call'[c] = "sent"
                 PROVE  asked = 0 \/ excuse
      OBVIOUS
    <2>1. call' # call
      OBVIOUS
    <2>2. F!StreamNext \/ F!BarsNext
      BY <2>1 DEF ServicesNext, servicesVars, feed
    <2> QED
      BY <2>2, StartsOutsidePause DEF ServicesInv
  <1> QED
    BY <1>1, <1>2, ServicesInvariance, PTL DEF ServicesSpec, FeedKeeps, F!PauseIsKept

\* Whatever order the answers come in, and whatever a restart forgets: the results of a
\* row move with the fills of its own orders only, and the page shows a gain exactly when
\* the prices of the row are one (_update_fill_price_in_db, _update_entry_price_in_db).
THEOREM FillsAreOwn == ServicesSpec => [](T!ResultsAreOwn)
  <1>1. ServicesInv => T!ResultsAreOwn
    BY FillsOwn DEF ServicesInv
  <1> QED
    BY <1>1, ServicesInvariance, PTL
=============================================================================
