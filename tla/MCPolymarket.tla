----------------------------- MODULE MCPolymarket -----------------------------
(* The Polymarket signals, in small worlds: which strategies are switched on,  *)
(* which processes run, which markets are listed, and how many rows, faults,   *)
(* restarts and resets there may be.                                           *)
EXTENDS PolySignals

World(on, up, n, faults, restarts, resets, retries) ==
  [on |-> on, up |-> up, listed |-> {"m"}, rows |-> n, faults |-> faults,
   restarts |-> restarts, resets |-> resets, retries |-> retries]
MCBudgets == {
  World({"LC"}, {"worker"}, 2, 1, 0, 0, 0), World({"LS"}, {"api"}, 2, 0, 1, 0, 0),
  World({"PH", "BF"}, {"worker"}, 1, 0, 0, 1, 0),
  World({"LA"}, {"api"}, 2, 0, 0, 0, 0),
  World({}, {"api", "worker"}, 1, 1, 0, 0, 1)}
===============================================================================
