------------------------------- MODULE MarketScan -------------------------------
(* How the lists of Polymarket's markets are read: page by page, while the     *)
(* lists move. Two scans:                                                      *)
(*   "band"   - screen_band_markets: every open market of a month, by volume,  *)
(*              month after month; a month that was not read to its end is     *)
(*              named in capped;                                               *)
(*   "expiry" - fetch_by_expiry: the open markets by their end, up to the      *)
(*              first page on which all of them end too late.                  *)
(* A market is a number, month and wanted say what it is: in the band, or      *)
(* ending soon enough (then month is not looked at). order is the server's     *)
(* list. Bounds: PageSize stands for 100 or 200 markets, OffsetCap for 2000,   *)
(* MaxMoves changes of the list in one scan.                                   *)
EXTENDS Integers, Sequences, FiniteSets, FiniteSetsExt, SequencesExt

CONSTANTS Market, Months, PageSize, OffsetCap, MaxMoves

VARIABLES scan,        \* the kind of the scan, or "none"
          order,       \* what the server lists
          month, wanted,
          slice,       \* the month that is read
          offset, found, capped,
          atStart,     \* what was listed when the scan began
          moves        \* how often the list has moved since

scanVars == <<scan, order, month, wanted, slice, offset, found, capped, atStart, moves>>

ScanTypeOK ==
    /\ scan \in {"none", "band", "expiry", "done", "failed"}
    /\ ToSet(order) \subseteq Market /\ IsInjective(order)
    /\ slice \in 1..(Months + 1) /\ offset \in 0..(OffsetCap + PageSize)
    /\ found \subseteq wanted /\ capped \subseteq 0..Months
    /\ moves \in 0..MaxMoves

Listed(s, m) == IF s = 0 THEN TRUE ELSE month[m] = s
\* How many markets of a list come before the i-th of order, and the rows of one page.
Earlier(s, i) == Cardinality({j \in 1..(i - 1) : Listed(s, order[j])})
PageOf(s) == {order[i] : i \in {i \in DOMAIN order :
                Listed(s, order[i]) /\ Earlier(s, i) \in offset..(offset + PageSize - 1)}}

ScanInit ==
    /\ scan = "none" /\ month \in [Market -> 1..Months] /\ wanted \in SUBSET Market
    /\ order = SetToSeq(Market)
    /\ slice = 1 /\ offset = 0 /\ found = {} /\ capped = {} /\ atStart = {} /\ moves = 0

\* By their end the markets that end soon enough come first.
EndsInOrder == \A i, j \in DOMAIN order : i < j /\ order[j] \in wanted => order[i] \in wanted
Start(kind) ==
    /\ scan = "none" /\ (kind = "expiry" => EndsInOrder)
    /\ scan' = kind /\ slice' = 1 /\ offset' = 0 /\ found' = {} /\ capped' = {}
    /\ atStart' = ToSet(order) /\ moves' = 0
    /\ UNCHANGED <<order, month, wanted>>

\* The next month is begun; after the last one the scan is done.
EndSlice(label) ==
    /\ capped' = capped \union label
    /\ offset' = 0 /\ slice' = slice + 1
    /\ scan' = IF slice = Months THEN "done" ELSE scan

\* A page of a month: a short page is the last one; after the highest offset
\* that is allowed the month is given up and named.
LastPageFull(rows) == Cardinality(rows) <= PageSize   \* as if a full page were the last
LastPage(rows) == Cardinality(rows) < PageSize
BandPage ==
    /\ scan = "band"
    /\ LET rows == PageOf(slice) IN
         /\ found' = found \union (rows \cap wanted)
         /\ IF LastPage(rows) THEN EndSlice({})
            ELSE IF offset + PageSize > OffsetCap THEN EndSlice({slice})
            ELSE offset' = offset + PageSize /\ UNCHANGED <<scan, slice, capped>>
    /\ UNCHANGED <<order, month, wanted, atStart, moves>>
BandPageFails ==
    /\ scan = "band" /\ EndSlice({slice})
    /\ UNCHANGED <<order, month, wanted, found, atStart, moves>>

\* A page of the list by end: read up to an empty page, a page of markets that
\* all end too late, or the refusal of a high offset, which nobody is told of.
ExpiryPage ==
    /\ scan = "expiry"
    /\ LET rows == PageOf(0)
           refused == offset > OffsetCap
           past == rows \cap wanted = {}
       IN  /\ found' = IF refused THEN found ELSE found \union (rows \cap wanted)
           /\ capped' = IF refused THEN {0} ELSE {}
           /\ IF refused \/ past THEN scan' = "done" /\ offset' = offset
              ELSE scan' = scan /\ offset' = offset + PageSize
    /\ UNCHANGED <<order, month, wanted, slice, atStart, moves>>
\* Any other refusal is raised to the engine, which keeps the list it had.
ExpiryPageFails ==
    /\ scan = "expiry" /\ scan' = "failed" /\ found' = {}
    /\ UNCHANGED <<order, month, wanted, slice, offset, capped, atStart, moves>>

\* A market closes, or its volume grows and it moves up.
Moves(to) == /\ scan \in {"band", "expiry"} /\ moves < MaxMoves
             /\ order' = to /\ moves' = moves + 1
             /\ UNCHANGED <<scan, month, wanted, slice, offset, found, capped, atStart>>
Closes == \E i \in DOMAIN order : Moves(RemoveAt(order, i))
Climbs == scan = "band" /\ \E i \in DOMAIN order : i > 1 /\ Moves(<<order[i]>> \o RemoveAt(order, i))

Again == /\ scan \in {"done", "failed"} /\ scan' = "none"
         /\ slice' = 1 /\ offset' = 0 /\ found' = {} /\ capped' = {} /\ atStart' = {}
         /\ moves' = 0 /\ UNCHANGED <<order, month, wanted>>

ScanNext == \/ \E kind \in {"band", "expiry"} : Start(kind)
            \/ BandPage \/ BandPageFails \/ ExpiryPage \/ ExpiryPageFails
            \/ Closes \/ Climbs \/ Again

\* The markets that stayed in the list and were wanted.
Due == {m \in ToSet(order) \cap atStart \cap wanted : month[m] \notin capped /\ 0 \notin capped}

\* A scan that says it read everything has missed at most one market for each
\* time the list moved while it was read, and none if it did not move
\* (client.py:446 "전수", client.py:452: a label is the only sign that something
\* is missing).
MissedOnlyByMoves == scan = "done" => Cardinality(Due \ found) <= moves
===============================================================================
