---------------------------- MODULE ForwardTrades ----------------------------
(***************************************************************************)
(* What one forward-test strategy promises about its paper trades, seen    *)
(* from the table forward_trades alone: a trade is opened once, only while *)
(* no other trade of the strategy is open; while it is open its stop only  *)
(* gets tighter; it is closed once and never comes back.                   *)
(*                                                                         *)
(* ForwardEngine implements this specification as long as the database     *)
(* answers and nobody resets the engine by hand: a process restart is then *)
(* invisible (it maps to a stuttering step).                               *)
(***************************************************************************)
EXTENDS Naturals

CONSTANTS
    Trade,      \* the identifiers of the trades (primary keys of the table)
    MaxLevel    \* bound: how many times a stop can be tightened

VARIABLES
    status,     \* status[t]: where trade t is in its life
    stop        \* stop[t]: how tight the stop of trade t is; 0 is the initial stop

vars == <<status, stop>>

Open == {t \in Trade : status[t] = "open"}

TypeOK ==
    /\ status \in [Trade -> {"absent", "open", "closed"}]
    /\ stop \in [Trade -> 0..MaxLevel]

Init ==
    /\ status = [t \in Trade |-> "absent"]
    /\ stop = [t \in Trade |-> 0]

\* A fresh trade is opened while none is open.
Enter(t) ==
    /\ Open = {}
    /\ status[t] = "absent"
    /\ status' = [status EXCEPT ![t] = "open"]
    /\ UNCHANGED stop

\* The exit check may tighten the stop in the very tick that closes the trade.
Exit(t, l) ==
    /\ status[t] = "open"
    /\ l >= stop[t]
    /\ status' = [status EXCEPT ![t] = "closed"]
    /\ stop' = [stop EXCEPT ![t] = l]

\* One bar may close a trade and open the next one.
Reverse(t, u, l) ==
    /\ status[t] = "open"
    /\ status[u] = "absent"
    /\ l >= stop[t]
    /\ status' = [status EXCEPT ![t] = "closed", ![u] = "open"]
    /\ stop' = [stop EXCEPT ![t] = l]

Tighten(t, l) ==
    /\ status[t] = "open"
    /\ l > stop[t]
    /\ stop' = [stop EXCEPT ![t] = l]
    /\ UNCHANGED status

Next ==
    \/ \E t \in Trade : Enter(t)
    \/ \E t \in Trade, l \in 0..MaxLevel : Exit(t, l) \/ Tighten(t, l)
    \/ \E t, u \in Trade, l \in 0..MaxLevel : Reverse(t, u, l)

Spec == Init /\ [][Next]_vars
=============================================================================
