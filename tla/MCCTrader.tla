------------------------------- MODULE MCCTrader -------------------------------
(* CTraderTokens, and CTraderExecutor, with two accounts tried in this order. *)
(* The two share no state: a behaviour runs one of them, and the other rests. *)
EXTENDS CTraderTokens, SequencesExt

CONSTANTS Accounts, a1, a2, Traded, Jobs, Sides, MaxFailures, Announces, Ids,
          MaxVolume, OrderVolumes, Bounds

ASSUME OrdersAssumption ==
  /\ Accounts # <<>> /\ Accounts \in Seq(ToSet(Accounts)) /\ Traded \subseteq ToSet(Accounts)
  /\ IsFiniteSet(Jobs) /\ MaxFailures \in Nat
  /\ MaxVolume \in Nat /\ OrderVolumes \subseteq 1 .. MaxVolume
  /\ Bounds \subseteq [faults : Nat, parts : Nat, closes : SUBSET (1 .. MaxVolume)]
  /\ Ids \subseteq Nat /\ NULL \notin Jobs /\ NULL \notin Ids
  /\ NULL \notin {"ok", "closed", "failed", "raised"}

VARIABLES part, client, failures, disabled, sender, slot, openId, cache, job, wire, back,
          broker, taken, parted, owed, left

O == INSTANCE CTraderExecutor
orders == <<client, failures, disabled, sender, slot, openId, cache, job, wire, back,
            broker, taken, parted, owed, left>>
mcVars == <<part, tvars, orders>>

MCAccounts == <<a1, a2>>
\* two faults; or a fault, an order in parts and closes by id that are too small; or two
\* orders in parts and closes by id of any volume
MCBounds == {[faults |-> 2, parts |-> 0, closes |-> {}], [faults |-> 1, parts |-> 1, closes |-> {1}],
             [faults |-> 0, parts |-> 2, closes |-> {1, 2}]}
Symmetry == Permutations(Jobs) \cup Permutations(Sides) \cup Permutations(Executors)

MCInit ==
  \/ part = "orders" /\ O!Init /\ Init /\ db = 1
  \/ part = "tokens" /\ Init /\ O!Init /\ broker = {}
MCNext ==
  /\ part' = part
  /\ \/ part = "orders" /\ O!Next /\ UNCHANGED tvars
     \/ part = "tokens" /\ Next /\ UNCHANGED orders
MCSpec == MCInit /\ [][MCNext]_mcVars

\* The types of both parts.
TypesOK == O!TypeOK /\ TokensTypeOK
\* The properties of CTraderTokens and CTraderExecutor (see there).
AnswersAreOwn == O!AnswersAreOwn
TokenChain == []ChainKept /\ NoUsedTokenSent
ClosedAsAsked == O!ClosedAsAsked
NoJobIsStuck == O!NoJobIsStuck
================================================================================
