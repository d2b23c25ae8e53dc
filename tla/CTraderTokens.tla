---------------------------- MODULE CTraderTokens ----------------------------
(***************************************************************************)
(* The access and refresh token all cTrader executors share: one row of    *)
(* the database, the environment and the .env file, and the copy in each   *)
(* executor (common/ctrader_executor.py, common/ctrader_token_store.py,    *)
(* features/ctrader/router.py).                                            *)
(*                                                                         *)
(* A pair of tokens is its generation.  The token server takes the refresh *)
(* token of the current generation only, and answers with the next pair.   *)
(* All executors run their callbacks on the one reactor thread, so a       *)
(* refresh, which blocks it, excludes the others'.  The routes of the      *)
(* router run on another thread and take no lock.                          *)
(***************************************************************************)
EXTENDS Naturals

CONSTANTS
  Executors,
  MaxGen,       \* bound: generations of tokens
  MaxMishaps,   \* bound: lost answers, failed saves, restarts
  NULL

ASSUME TokensAssumption == MaxGen \in Nat \ {0} /\ MaxMishaps \in Nat /\ NULL \notin Executors

VARIABLES
  current,    \* the generation the token server will refresh
  expired,    \* generations whose access token is no longer taken
  db,         \* the row "default" of ctrader_tokens, 0 when missing
  environ,    \* os.environ
  dotenv,     \* the .env file
  own,        \* per executor: _access_token, _refresh_token
  link,       \* per executor: "off", "auth" (authenticating) or "ready"
  attempted,  \* executors with _refresh_attempted
  busy,       \* the refresh that blocks the reactor thread
  manual,     \* the refresh of the router
  mishaps,    \* what went wrong that the code cannot know of
  harmed      \* number of mishaps

tvars == <<current, expired, db, environ, dotenv, own, link, attempted, busy, manual, mishaps, harmed>>

Gen == 0 .. MaxGen
Free == [by |-> NULL, stage |-> "none", gen |-> 0]
Or(a, b) == IF a # 0 THEN a ELSE b
Valid(g) == g # 0 /\ g \notin expired

\* CTraderExecutor.__init__: the database first, the environment only to seed it
Seed == Or(db, environ)

Init ==
  /\ current = 1 /\ expired = {}
  /\ db \in {0, 1} /\ environ = 1 /\ dotenv = 1
  /\ own = [e \in Executors |-> Seed]
  /\ link = [e \in Executors |-> "off"]
  /\ attempted = {} /\ busy = Free /\ manual = Free
  /\ mishaps = {} /\ harmed = 0

-----------------------------------------------------------------------------
(* An executor.                                                             *)

\* _setup_client up to AccountAuthReq: every connection may refresh once
Dial(e) ==
  /\ link[e] = "off"
  /\ link' = [link EXCEPT ![e] = "auth"]
  /\ attempted' = attempted \ {e}
  /\ UNCHANGED <<current, expired, db, environ, dotenv, own, busy, manual, mishaps, harmed>>

AuthRes(e) ==
  /\ link[e] = "auth" /\ busy.by # e /\ Valid(own[e])
  /\ link' = [link EXCEPT ![e] = "ready"]
  /\ attempted' = attempted \ {e}
  /\ UNCHANGED <<current, expired, db, environ, dotenv, own, busy, manual, mishaps, harmed>>

\* idle for a minute, a lost connection, or an authentication that never came
Disconnect(e) ==
  /\ link[e] # "off" /\ busy.by # e
  /\ link' = [link EXCEPT ![e] = "off"]
  /\ UNCHANGED <<current, expired, db, environ, dotenv, own, attempted, busy, manual, mishaps, harmed>>

\* history: two refreshes run at once
Overlap == IF busy # Free \/ manual # Free THEN mishaps \cup {"overlap"} ELSE mishaps

\* a faulty variant: the row is not looked at
AdoptsNever(e) == FALSE

\* _refresh_access_token: another executor has stored a pair in the meantime
Adopts(e) == db # 0 /\ db # own[e]

\* on_message with a token error: the first one refreshes, out of the row if that is another's
TokenError(e) ==
  /\ busy = Free /\ link[e] # "off" /\ ~Valid(own[e]) /\ e \notin attempted
  /\ attempted' = attempted \cup {e}
  /\ IF Adopts(e)
     THEN /\ own' = [own EXCEPT ![e] = db]
          /\ link' = [link EXCEPT ![e] = "auth"]
          /\ UNCHANGED <<busy, mishaps>>
     ELSE /\ own[e] # 0
          /\ busy' = [by |-> e, stage |-> "sent", gen |-> own[e]]
          /\ mishaps' = Overlap
          /\ UNCHANGED <<own, link>>
  /\ UNCHANGED <<current, expired, db, environ, dotenv, manual, harmed>>

\* a faulty variant: the executor keeps its old pair
RefreshedElsewhere(e) ==
  /\ busy.by = e /\ busy.stage = "sent" /\ busy.gen = current /\ current < MaxGen
  /\ current' = current + 1
  /\ environ' = current + 1
  /\ busy' = [busy EXCEPT !.stage = "save", !.gen = current + 1]
  /\ UNCHANGED <<expired, db, dotenv, own, link, attempted, manual, mishaps, harmed>>

\* the answer of the token server; the environment learns the pair before the row does
Refreshed(e) ==
  /\ busy.by = e /\ busy.stage = "sent" /\ busy.gen = current /\ current < MaxGen
  /\ current' = current + 1
  /\ own' = [own EXCEPT ![e] = current + 1]
  /\ environ' = current + 1
  /\ busy' = [busy EXCEPT !.stage = "save", !.gen = current + 1]
  /\ UNCHANGED <<expired, db, dotenv, link, attempted, manual, mishaps, harmed>>

\* refused because the token was used before
Refused(e) ==
  /\ busy.by = e /\ busy.stage = "sent" /\ busy.gen # current
  /\ busy' = Free
  /\ UNCHANGED <<current, expired, db, environ, dotenv, own, link, attempted, manual, mishaps, harmed>>

\* save_tokens, and a new AccountAuthReq
Saved(e) ==
  /\ busy.by = e /\ busy.stage = "save"
  /\ db' = busy.gen
  /\ link' = [link EXCEPT ![e] = "auth"]
  /\ busy' = Free
  /\ UNCHANGED <<current, expired, environ, dotenv, own, attempted, manual, mishaps, harmed>>

\* the row cannot be written: refresh counts as failed, memory keeps the new pair
SaveFails(e) ==
  /\ busy.by = e /\ busy.stage = "save" /\ harmed < MaxMishaps
  /\ busy' = Free
  /\ mishaps' = mishaps \cup {"unsaved"} /\ harmed' = harmed + 1
  /\ UNCHANGED <<current, expired, db, environ, dotenv, own, link, attempted, manual>>

\* the server has rotated, its answer is lost
AnswerLost(e) ==
  /\ busy.by = e /\ busy.stage = "sent" /\ harmed < MaxMishaps
  /\ current' = IF busy.gen = current /\ current < MaxGen THEN current + 1 ELSE current
  /\ busy' = Free
  /\ mishaps' = mishaps \cup {"unheard"} /\ harmed' = harmed + 1
  /\ UNCHANGED <<expired, db, environ, dotenv, own, link, attempted, manual>>

-----------------------------------------------------------------------------
(* The router, the server, the process.                                     *)

\* GET /refresh with the caller's token or the environment's; a used one ends in an error
ManualRefresh(g) ==
  /\ manual = Free /\ g = current /\ current < MaxGen
  /\ current' = current + 1
  /\ manual' = [by |-> "router", stage |-> "save", gen |-> current + 1]
  /\ mishaps' = Overlap
  /\ UNCHANGED <<expired, db, environ, dotenv, own, link, attempted, busy, harmed>>

\* GET /callback: a new consent, a new pair
Callback ==
  /\ manual = Free /\ current < MaxGen
  /\ current' = current + 1
  /\ manual' = [by |-> "router", stage |-> "save", gen |-> current + 1]
  /\ mishaps' = Overlap
  /\ UNCHANGED <<expired, db, environ, dotenv, own, link, attempted, busy, harmed>>

\* a faulty variant: the row is left to the executors
ManualSavedInFile ==
  /\ manual # Free
  /\ dotenv' = manual.gen
  /\ manual' = Free
  /\ mishaps' = IF busy # Free THEN mishaps \cup {"overlap"} ELSE mishaps
  /\ UNCHANGED <<current, expired, db, environ, own, link, attempted, busy, harmed>>

\* both store the pair in the row and in .env; os.environ keeps the old one
ManualSaved ==
  /\ manual # Free
  /\ db' = manual.gen /\ dotenv' = manual.gen
  /\ manual' = Free
  /\ mishaps' = IF busy # Free THEN mishaps \cup {"overlap"} ELSE mishaps
  /\ UNCHANGED <<current, expired, environ, own, link, attempted, busy, harmed>>

\* an access token runs out; a new pair makes the old one run out at once or later
Expires(g) ==
  /\ expired' = expired \cup {g}
  /\ g \notin expired /\ g <= current
  /\ UNCHANGED <<current, db, environ, dotenv, own, link, attempted, busy, manual, mishaps, harmed>>

\* a new process: .env seeds the environment, the executors start from the row
Restart ==
  /\ harmed < MaxMishaps /\ harmed' = harmed + 1
  /\ mishaps' = IF busy # Free \/ manual # Free THEN mishaps \cup {"interrupted"} ELSE mishaps
  /\ environ' = dotenv
  /\ own' = [e \in Executors |-> Or(db, dotenv)]
  /\ link' = [e \in Executors |-> "off"]
  /\ attempted' = {} /\ busy' = Free /\ manual' = Free
  /\ UNCHANGED <<current, expired, db, dotenv>>

Next ==
  \/ \E e \in Executors : \/ Dial(e) \/ AuthRes(e) \/ Disconnect(e) \/ TokenError(e)
                          \/ Refreshed(e) \/ Refused(e) \/ Saved(e) \/ SaveFails(e) \/ AnswerLost(e)
  \/ \E g \in {environ} \cup Gen : ManualRefresh(g)
  \/ Callback \/ ManualSaved \/ Restart
  \/ \E g \in Gen \ {0} : Expires(g)
Spec == Init /\ [][Next]_tvars

-----------------------------------------------------------------------------
(* Properties.                                                              *)

\* Types; a pair on its way to the row is the pair of the executor that asked for it.
TokensTypeOK ==
  /\ current \in Gen \ {0} /\ expired \subseteq 1 .. current
  /\ {db, environ, dotenv} \subseteq 0 .. current
  /\ own \in [Executors -> 0 .. current]
  /\ link \in [Executors -> {"off", "auth", "ready"}]
  /\ attempted \subseteq Executors
  /\ busy \in [by : Executors \cup {NULL}, stage : {"none", "sent", "save"}, gen : Gen]
  /\ busy.stage = "save" => own[busy.by] = busy.gen
  /\ manual \in [by : {"router", NULL}, stage : {"none", "save"}, gen : Gen]
  /\ mishaps \subseteq {"unsaved", "unheard", "overlap", "interrupted"} /\ harmed \in 0 .. MaxMishaps

\* When nobody is refreshing, the database (or, before its first row, the .env file) holds
\* the one refresh token the server still takes.  Only a lost answer, a failed save, a
\* restart in between or a route that overlaps with a refresh can break the chain.
ChainKept ==
  busy = Free /\ manual = Free /\ mishaps = {} => Or(db, dotenv) = current

\* But for the same causes no executor sends a refresh token that has been used up: it
\* adopts the pair another one has stored instead (common/ctrader_executor.py:412).
NoUsedTokenSent ==
  [][\A e \in Executors : busy'.by = e /\ mishaps' = {} /\ busy = Free => own[e] = current]_tvars
=============================================================================
