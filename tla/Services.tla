------------------------------- MODULE Services -------------------------------
(* Services that share nothing; a behaviour is about one of them, its part:    *)
(*   "passes": guest passes;                                                   *)
(*   "stream": the mark price of one symbol; "bars": the requests for bars;    *)
(*   "scan":   the pages of Polymarket's lists of markets;                     *)
(*   "fills":  the trades of a live strategy and the fills of their orders.    *)
(* In any other part nothing happens.                                          *)
EXTENDS AccessPass

CONSTANTS Calls, Pauses, MaxRefusals, MaxRelaunches,
          Market, Months, PageSize, OffsetCap, MaxMoves,
          Px, MaxTrades, MaxReboots, Limit, Recent
VARIABLES part, mode, wait, delay, streak, heard, age, calm, ban, call, asked, excuse,
          refusals, relaunches,
          scan, order, month, wanted, slice, offset, found, capped, atStart, moves,
          price, holding, trades, tasks, noted, reboots

F == INSTANCE MarketFeed
M == INSTANCE MarketScan
T == INSTANCE TradeFills

feed   == <<mode, wait, delay, streak, heard, age, calm, ban, call, asked, excuse,
            refusals, relaunches>>
listing == <<scan, order, month, wanted, slice, offset, found, capped, atStart, moves>>
fills == <<price, holding, trades, tasks, noted, reboots>>
servicesVars == <<part, accessVars, feed, listing, fills>>

\* What the exchange asks for is a number of units, and a page holds a market at least. A
\* price is positive and no more than the whole in hundredths of a percent, so that a move
\* of one unit is not rounded away.
ASSUME ServicesAssumption ==
    /\ Pauses \subseteq Nat /\ MaxRefusals \in Nat /\ MaxRelaunches \in Nat
    /\ IsFiniteSet(Market) /\ Months \in Nat \ {0} /\ PageSize \in Nat \ {0}
    /\ OffsetCap \in Nat /\ MaxMoves \in Nat
    /\ Px \subseteq 1..10000 /\ Px # {} /\ MaxTrades \in Nat /\ MaxReboots \in Nat

ServicesInit ==
    /\ AccessInit /\ F!FeedInit
    /\ IF part = "scan" THEN M!ScanInit
       ELSE /\ scan = "none" /\ order = <<>> /\ month = <<>> /\ wanted = {} /\ slice = 1
            /\ offset = 0 /\ found = {} /\ capped = {} /\ atStart = {} /\ moves = 0
    /\ T!FillInit /\ (part # "fills" => price = CHOOSE p \in Px : TRUE)
ServicesNext ==
    /\ part' = part
    /\ \/ part = "passes" /\ AccessNext /\ UNCHANGED <<feed, listing, fills>>
       \/ part = "stream" /\ F!StreamNext /\ UNCHANGED <<accessVars, listing, fills>>
       \/ part = "bars" /\ F!BarsNext /\ UNCHANGED <<accessVars, listing, fills>>
       \/ part = "scan" /\ M!ScanNext /\ UNCHANGED <<accessVars, feed, fills>>
       \/ part = "fills" /\ T!FillNext /\ UNCHANGED <<accessVars, feed, listing>>
ServicesSpec == ServicesInit /\ [][ServicesNext]_servicesVars

-------------------------------------------------------------------------------
\* The types of the parts, and the properties of MarketFeed and MarketScan (see
\* there): a feed that fails is opened again, a pause that was asked for is kept,
\* and a list of markets lacks no more than its moves explain.
TypesOK   == AccessTypeOK /\ F!FeedTypeOK /\ T!FillTypeOK /\ (part = "scan" => M!ScanTypeOK)
FeedKeeps == []F!FeedRecovers /\ F!PauseIsKept /\ [](part = "scan" => M!MissedOnlyByMoves)
===============================================================================
