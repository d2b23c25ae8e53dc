-------------------------------- MODULE MCBars --------------------------------
(* The engines of three strategies, each on its bars and prices, and the signal *)
(* of one of them; a behaviour is about one.                                    *)
(*   "spot": spot_perp_cvd, on every bar over four prices, with CVD values on   *)
(*     both sides of 0.                                                         *)
(*   "surge": oi_cvd_surge, on two real bars with a restart in either of them.  *)
(*   "explosion": eth_cvd_explosion, on every bar over six prices, with sets of *)
(*     magnets that change from bar to bar.                                     *)
(*   "signal": the signal of spot_perp_cvd on seven bars, in every mode, with   *)
(*     and without filters; no step.                                            *)
(*   "scores": the signal of eth_cvd_explosion on seven bars, with the settings *)
(*     of both its versions, with and without the veto; no step.                *)
EXTENDS SpotPerpCvd

CONSTANTS SurgeMaxPrice, ExMaxPrice, ExMaxSlip, MaxBar, Dists, RrRatio, MaxRestarts, Maps, Contexts, Modes, Rr, Risk, Step

VARIABLES
    part,
    price, bar, noted, task, seen, entries, restarts, surgeHeld, surgePos, surgeLast,
    mode, exHeld, exPos, exRow, entered,
    question

O == INSTANCE OiCvdSurge WITH
    MaxPrice <- SurgeMaxPrice, held <- surgeHeld, position <- surgePos, last <- surgeLast
X == INSTANCE CvdExplosion WITH
    MaxPrice <- ExMaxPrice, MaxSlip <- ExMaxSlip, held <- exHeld, position <- exPos, row <- exRow

G == INSTANCE SpotPerpSignal
E == INSTANCE CvdExplosionSignal

ASSUME EngineAssumption == O!ConstantsFit /\ X!ConstantsFit

surge     == <<price, bar, noted, task, seen, entries, restarts, surgeHeld, surgePos, surgeLast>>
explosion == <<mode, exHeld, exPos, exRow, entered>>
mcVars    == <<part, spotVars, surge, explosion, question>>

CvdValues == {-1, 0, 1}
Quiet     == [open |-> 0, m15 |-> 0]
Marked    == [open |-> 3, m15 |-> 2]
MCContexts == {Quiet, Marked}

First(set) == CHOOSE x \in set : TRUE

\* The last window, the two before it and the bar that forms decide.
Bar(c)    == [cvd |-> c, vol |-> 1]
Series(c) == <<Bar(1), Bar(1), Bar(c[1]), Bar(c[1]), Bar(c[2]), Bar(c[3]), Bar(1)>>
Settings(how, filtered, inverted) ==
    [mode |-> how, lookback |-> 2, zPeriod |-> 3, z |-> 11, spot |-> SpotThr, perp |-> 1,
     spread |-> SpreadThr, combined |-> 2, longSpot |-> G!NaN, longPerp |-> G!NaN,
     shortSpot |-> G!NaN, shortPerp |-> G!NaN, invert |-> inverted, slPct |-> 3, tpRatio |-> 3,
     atrMin |-> IF filtered THEN 1 ELSE 0, volMin |-> IF filtered THEN 2 ELSE 0, adxMin |-> 0,
     ema |-> IF filtered THEN 5 ELSE 0, momentum |-> IF filtered THEN 2 ELSE 0]
Market(ema) == [atr |-> 1, vol |-> 2, adx |-> G!NaN, ema |-> ema]
Signals == {Series(c) : c \in [1..3 -> {-1, 1}]} \X {Series(c) : c \in [1..3 -> CvdValues]}
           \X {<<Market(G!NaN), FALSE, FALSE>>, <<Market(99), TRUE, FALSE>>, <<Market(101), TRUE, TRUE>>}
           \X G!SignalModes

\* The engine's own test on the same percentages, and the rules of the signal.
SignalsAgree(q) ==
    \A perp \in {q[1]}, spot \in {q[2]}, ind \in {q[3][1]},
       p \in {Settings(q[4], q[3][2], q[3][3])} :
        /\ G!SignalIsFair(perp, spot, 100, ind, p)
        /\ p.mode = "spread" /\ ~p.invert
             => \A off \in {G!Off(p)} : \A s \in {G!ComputeSignal(perp, spot, 100, ind, off)} :
                    s.signal = Signal([spot |-> s.spot, perp |-> s.perp, known |-> TRUE])

\* The last four volumes, CVD before and after the middle, the direction of the last
\* bar, and the last complete bar of the higher frame; a later one is still forming.
Candle(at, v, c, u) == [at |-> at, vol |-> v, cvd |-> c, up |-> u]
Entry(v, c, u) == [i \in 1..7 |-> Candle(45 + 15 * i, IF i < 4 THEN 1 ELSE v[i - 3],
                                          IF i < 6 THEN c[1] ELSE c[2], IF i = 7 THEN u ELSE 1)]
Higher(c) == <<Candle(0, 1, 0, 1), Candle(60, 1, c, 1)>>
Scoring(mult, threshold, exp, hi) ==
    [window |-> 2, mult |-> mult, gap |-> 1, accel |-> 1, higher |-> 2, threshold |-> threshold,
     scExp |-> exp, scSolo |-> 1, scCvd |-> 2, scHigher |-> hi, veto |-> FALSE]
BothFrames == [base |-> Scoring(20, 5, 4, 0), byTf |-> [tf \in {"1h"} |-> [higher |-> 1]]]
Scorings == {E!SignalParams(BothFrames, "15m", "1h", [veto |-> v]) : v \in BOOLEAN}
            \cup {[Scoring(11, 4, 3, 1) EXCEPT !.veto = v] : v \in BOOLEAN}
Explosions == {Entry(v, c, u) : v \in [1..4 -> {1, 3}], c \in [1..2 -> CvdValues], u \in CvdValues}
              \X {Higher(c) : c \in CvdValues} \X Scorings
Later == {Candle(120, 9, c, -1) : c \in {-5, 5}}

MCInit ==
    /\ SpotInit
    /\ \/ part = "spot" /\ O!Init /\ price = 1 /\ X!Init /\ mode = First(Modes)
       \/ part = "surge" /\ O!Init /\ X!Init /\ mode = First(Modes)
       \/ part = "explosion" /\ O!Init /\ price = 1 /\ X!Init
       \/ part \in {"signal", "scores"} /\ O!Init /\ price = 1 /\ X!Init /\ mode = First(Modes)
    /\ question \in CASE part = "signal" -> Signals [] part = "scores" -> Explosions [] OTHER -> {<<>>}
MCNext ==
    /\ part' = part /\ question' = question
    /\ \/ part = "spot" /\ SpotNext /\ UNCHANGED <<surge, explosion>>
       \/ part = "surge" /\ O!Next /\ UNCHANGED <<spotVars, explosion>>
       \/ part = "explosion" /\ X!Next /\ UNCHANGED <<spotVars, surge>>

MCSpec == MCInit /\ [][MCNext]_mcVars

\* The types of the parts, and the properties of each (see there).
TypesOK == SpotTypeOK /\ O!TypeOK /\ X!TypeOK
EntriesJustified == /\ ReentryWaitsForNeutral /\ O!OneEntryPerBar
                    /\ part = "signal" => SignalsAgree(question)
                    /\ part = "scores" =>
                         E!ExplosionIsFair(question[1], question[2], Later, <<15, 60>>, question[3])
TradesAsRecorded == RowIsHeldTrade /\ X!RowIsHeldTrade /\ O!ExitWasTouched
LevelsOnlyAdvance == StopNeverLoosens /\ X!LevelsOnlyAdvance
===============================================================================
