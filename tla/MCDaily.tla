------------------------------- MODULE MCDaily -------------------------------
(* The daily jobs that keep a ledger; a behaviour is about one of them.       *)
(*   "scan": the value scan, one stock of each market, from the scan window   *)
(*     of NASDAQ on a Friday to the morning of Saturday, across midnight UTC; *)
(*     KOSPI is scanned by hand only.                                         *)
(*   "ladder": the drawdown ladder of one symbol, on a history that becomes   *)
(*     one bar longer than what the replay sees.                              *)
(*   "walls": the gamma wall ledger, over three days with a holiday.          *)
(*   "nasdaq", "kospi", "book": one question to the rules of the value scan,  *)
(*     no step.                                                               *)
EXTENDS ValueScan

CONSTANTS Prices, MaxDay, RefWindow, MinPeriods, Lookback, Unfinished, MaxExtras,
          Holidays, WallDays, MaxSnap, MaxCrash

VARIABLES part, px, late, led, revised, extras,
          day, phase, table, pending, ledger, bars, wallLock, boot, run, coll, newest,
          fetched, crashes, question

L == INSTANCE DrawdownStats
G == INSTANCE GammaWall WITH MaxDay <- WallDays, lock <- wallLock
B == INSTANCE ScanBook
ladder == <<px, late, led, revised, extras>>
walls  == <<day, phase, table, pending, ledger, bars, wallLock, boot, run, coll, newest,
            fetched, crashes>>

ASSUME LedgerAssumption == G!ConstantsFit /\ L!ConstantsFit

Budget(b, m, r, f) == [buys |-> b, manual |-> m, repairs |-> r, faults |-> f]
MCBounds == {Budget(1, 0, 0, 1), Budget(1, 1, 0, 0), Budget(1, 0, 1, 0)}
MCMarketOf == [s \in Stocks |-> IF s = "a" THEN "kospi" ELSE "nasdaq"]

-------------------------------------------------------------------------------
(* The questions.                                                             *)

Stock(sector, v, q, h, g) ==
    [sector |-> sector, per |-> v[1], ev |-> v[2], fwdPer |-> v[3],
     roe |-> q[1], margin |-> q[2], roa |-> q[3], debt |-> h[1], current |-> h[2], cash |-> h[3],
     revGrowth |-> g[1], epsGrowth |-> g[2]]
Values   == {<<9, 7, 8>>, <<20, 15, 20>>, <<-4, B!NaN, 30>>}
Profits  == {<<32, 36, 16>>, <<13, 20, 8>>, <<-1, B!NaN, 0>>}
Balances == {<<20, 31, 1>>, <<100, 15, 0>>, <<B!NaN, B!NaN, B!NaN>>}
Growths  == {<<26, 30>>, <<15, 5>>, <<B!NaN, -3>>}
Better == [per |-> <<30, 25, 21, 20, 13, 9, 5>>, ev |-> <<30, 20, 15, 10, 7>>, fwdPer |-> <<60, 20, 9, 3>>,
           roe |-> <<-20, 0, 5, 12, 20, 30>>, margin |-> <<-1, 0, 10, 20, 35>>, roa |-> <<-1, 0, 8, 15>>,
           debt |-> <<500, 401, 150, 100, 79, 29>>, current |-> <<5, 10, 15, 20, 30>>, cash |-> <<0, 1>>,
           revGrowth |-> <<-5, 0, 5, 15, 25>>, epsGrowth |-> <<-5, 4, 5, 15, 25, 60>>]
Nasdaq == {<<Stock("Energy", v, q, h, g), Stock("Energy", <<20, 9, 9>>, q, h, g),
             Stock("Energy", w, q, h, g)>> :
             v \in Values, w \in Values, q \in Profits, h \in Balances, g \in Growths}

Korean == {[sector |-> s, per |-> f[1], eps |-> f[2], fwdEps |-> f[3], pbr |-> f[4]] :
             s \in {"Technology", "Utilities"},
             f \in {<<4, 10, 12, 1>>, <<5, 10, 11, B!NaN>>, <<9, 10, 7, 1>>, <<20, 10, 10, 1>>,
                    <<-6, -3, 5, 1>>, <<B!NaN, B!NaN, B!NaN, B!NaN>>}}
BetterKorean == [per |-> <<30, 12, 9, 5, 4, 2>>, fwdEps |-> <<7, 8, 10, 11, 12>>]
Kospi == {<<a, b, c, d>> : a \in {r \in Korean : r.sector = "Technology"},
                           b \in {r \in Korean : r.sector = "Technology"}, c \in Korean, d \in Korean}

Holdings == [market : {"kospi", "nasdaq"}, since : {1, 3}, lots : {<<10>>, <<10, 0>>, <<20, 10, 0>>, <<0>>}]
Exited == {B!AtPrice([market |-> "nasdaq", since |-> 2, lots |-> <<10, 20>>], x) : x \in {5, 40, B!NaN}}
Books == {<<<<a, b>>, <<x, y>>, h>> : a \in Holdings, b \in Holdings, x \in {10, 15, B!NaN}, y \in {5, 20},
                                      h \in {<<>>} \cup {<<e>> : e \in Exited}}

-------------------------------------------------------------------------------
\* One initial state of a part that a behaviour is not about.
NoScan   == Init /\ left = Budget(1, 0, 1, 0)
NoLadder == L!Init /\ px = <<CHOOSE p \in Prices : TRUE>>
NoWalls  == G!Init /\ boot = [p \in Procs |-> "up"]

MCInit ==
    \/ part = "scan" /\ Init /\ NoLadder /\ NoWalls /\ question = <<>>
    \/ part = "ladder" /\ L!Init /\ NoScan /\ NoWalls /\ question = <<>>
    \/ part = "walls" /\ G!Init /\ NoScan /\ NoLadder /\ question = <<>>
    \/ /\ NoScan /\ NoLadder /\ NoWalls
       /\ \/ part = "nasdaq" /\ question \in Nasdaq
          \/ part = "kospi" /\ question \in Kospi
          \/ part = "book" /\ question \in Books
Scans == part = "scan" /\ UNCHANGED <<part, question, ladder, walls>>
MCNext ==
    \/ Scans /\ Next
    \/ part = "ladder" /\ UNCHANGED <<part, question, vars, walls>> /\ L!Next
    \/ part = "walls" /\ UNCHANGED <<part, question, vars, ladder>> /\ G!Next

mcVars == <<part, question, vars, ladder, walls>>

\* ValueScan!Fairness
MCSpec ==
    /\ MCInit /\ [][MCNext]_mcVars
    /\ \A p \in Procs : WF_mcVars(Scans /\ SchedulerAsks(p))
    /\ \A j \in Jobs : WF_mcVars(Scans /\ JobStep(j))
    /\ WF_mcVars(Scans /\ RepairStep)

\* The types of the parts, and the properties of ValueScan, ScanBook, Drawdown, DrawdownStats and GammaWall (see
\* there).
TypesOK == TypeOK /\ L!TypeOK /\ G!TypeOK
RecordedStands == L!RecordedStands
ScansBooked ==
    /\ BooksBalance /\ CatchupOncePerDate
    /\ part = "nasdaq" => B!RatingsAreFair("nasdaq", question, Better)
    /\ part = "kospi" => B!RatingsAreFair("kospi", question, BetterKorean)
    /\ part = "book" => B!BookAddsUp(question[1], question[2], question[3])
LedgersHaveCause ==
    /\ L!ClosedForCause /\ L!RearmedBetween /\ G!SnapshotsAccounted
    /\ part = "ladder" /\ led.lastRun = L!Today => L!StatsAgree([k \in DOMAIN led.eps |-> IF k = 1 THEN "crypto" ELSE "stock"])
NobodyWaitsForever == G!NobodyWaitsForever
\* ValueScan!DueIsScanned
DueIsScannedWhenFair ==
    \A m \in Markets : (part = "scan" /\ ShouldRunCatchup(m)) ~> (~ShouldRunCatchup(m) \/ stuck # {})
===============================================================================
