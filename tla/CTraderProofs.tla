---------------------------- MODULE CTraderProofs ----------------------------
(***************************************************************************)
(* The token pair that the cTrader executors share and the calls that      *)
(* share an executor, for every value of the constants.  TInv is the       *)
(* inductive invariant of CTraderTokens, EInv that of CTraderExecutor.     *)
(***************************************************************************)
EXTENDS MCCTrader, FiniteSetTheorems, TLAPS

-----------------------------------------------------------------------------
(* The tokens.                                                             *)

\* A refresh under way is an executor's, or the router's, and has a pair in hand.
RefreshesFit ==
    /\ busy # Free => busy.stage \in {"sent", "save"} /\ busy.by \in Executors
    /\ manual # Free => manual.stage = "save" /\ manual.gen # 0
    /\ busy.gen \in 0 .. current /\ manual.gen \in 0 .. current

\* While nothing went wrong, the newest pair is in the row, or with the one refresh that
\* is about to store it; as long as there is no row, all executors have what .env has.
NewestIsKept ==
    /\ ~(busy # Free /\ manual # Free)
    /\ manual = Free /\ busy.stage # "save" => Or(db, dotenv) = current
    /\ busy.stage = "save" => busy.gen = current
    /\ manual # Free => manual.gen = current
    /\ db = 0 /\ busy.stage # "save" => \A e \in Executors : own[e] = dotenv

TInv == TokensTypeOK /\ RefreshesFit /\ (mishaps = {} => NewestIsKept)

LEMMA TokensInit == Init => TInv
  BY TokensAssumption
     DEF Init, TInv, TokensTypeOK, RefreshesFit, NewestIsKept, Free, Gen, Seed, Or

LEMMA TokensStep == ASSUME TInv, [Next]_tvars PROVE TInv'
  <1> USE TokensAssumption DEF TInv, TokensTypeOK, RefreshesFit, NewestIsKept, Free, Gen, Or
  <1>1. CASE UNCHANGED tvars
    BY <1>1 DEF tvars
  <1>2. ASSUME NEW e \in Executors, Dial(e) PROVE TInv'
    BY <1>2 DEF Dial
  <1>3. ASSUME NEW e \in Executors, AuthRes(e) PROVE TInv'
    BY <1>3 DEF AuthRes
  <1>4. ASSUME NEW e \in Executors, Disconnect(e) PROVE TInv'
    BY <1>4 DEF Disconnect
  <1>5. ASSUME NEW e \in Executors, TokenError(e) PROVE TInv'
    <2>1. CASE Adopts(e)
      <3>1. /\ busy = Free /\ own' = [own EXCEPT ![e] = db]
            /\ link' = [link EXCEPT ![e] = "auth"] /\ attempted' = attempted \cup {e}
            /\ UNCHANGED <<current, expired, db, environ, dotenv, busy, manual, mishaps, harmed>>
        BY <1>5, <2>1 DEF TokenError
      <3>2. TokensTypeOK' /\ RefreshesFit'
        BY <3>1
      <3>3. (mishaps = {} => NewestIsKept)'
        BY <2>1, <3>1 DEF Adopts
      <3> QED
        BY <3>2, <3>3
    <2>2. CASE ~Adopts(e)
      <3>1. /\ busy = Free /\ own[e] # 0 /\ busy' = [by |-> e, stage |-> "sent", gen |-> own[e]]
            /\ mishaps' = Overlap /\ (db = 0 \/ db = own[e])
            /\ UNCHANGED <<current, expired, db, environ, dotenv, own, link, manual, harmed>>
            /\ attempted' = attempted \cup {e}
        BY <1>5, <2>2 DEF TokenError, Adopts
      <3>2. TokensTypeOK' /\ RefreshesFit'
        BY <3>1 DEF Overlap
      <3>3. (mishaps = {} => NewestIsKept)'
        BY <3>1 DEF Overlap
      <3> QED
        BY <3>2, <3>3
    <2> QED
      BY <2>1, <2>2
  <1>6. ASSUME NEW e \in Executors, Refreshed(e) PROVE TInv'
    <2>1. busy' = [by |-> e, stage |-> "save", gen |-> current + 1]
      BY <1>6 DEF Refreshed
    <2>2. TokensTypeOK' /\ RefreshesFit'
      BY <1>6, <2>1 DEF Refreshed
    <2>3. (mishaps = {} => NewestIsKept)'
      BY <1>6, <2>1 DEF Refreshed
    <2> QED
      BY <2>2, <2>3
  <1>7. ASSUME NEW e \in Executors, Refused(e) PROVE TInv'
    BY <1>7 DEF Refused
  <1>8. ASSUME NEW e \in Executors, Saved(e) PROVE TInv'
    BY <1>8 DEF Saved
  <1>9. ASSUME NEW e \in Executors, SaveFails(e) PROVE TInv'
    BY <1>9 DEF SaveFails
  <1>10. ASSUME NEW e \in Executors, AnswerLost(e) PROVE TInv'
    BY <1>10 DEF AnswerLost
  <1>11. ASSUME NEW g \in {environ} \cup Gen, ManualRefresh(g) PROVE TInv'
    BY <1>11 DEF ManualRefresh, Overlap
  <1>12. CASE Callback
    BY <1>12 DEF Callback, Overlap
  <1>13. CASE ManualSaved
    BY <1>13 DEF ManualSaved
  <1>14. CASE Restart
    BY <1>14 DEF Restart
  <1>15. ASSUME NEW g \in Gen \ {0}, Expires(g) PROVE TInv'
    BY <1>15 DEF Expires
  <1> QED
    BY <1>1, <1>2, <1>3, <1>4, <1>5, <1>6, <1>7, <1>8, <1>9, <1>10, <1>11, <1>12, <1>13, <1>14,
       <1>15 DEF Next

\* A refresh that begins while nothing went wrong is made with the newest pair.
LEMMA SendsNewest ==
  ASSUME TInv, [Next]_tvars, NEW e \in Executors, busy'.by = e, mishaps' = {}, busy = Free
  PROVE  own[e] = current
  <1> USE TokensAssumption DEF TInv, TokensTypeOK, RefreshesFit, NewestIsKept, Free, Gen, Or
  <1>1. TokenError(e) /\ ~Adopts(e)
    BY DEF Next, tvars, Dial, AuthRes, Disconnect, TokenError, Adopts, Refreshed, Refused, Saved,
       SaveFails, AnswerLost, ManualRefresh, Callback, ManualSaved, Restart, Expires
  <1>2. mishaps' = Overlap /\ own[e] # 0 /\ (db = 0 \/ db = own[e])
    BY <1>1 DEF TokenError, Adopts
  <1>3. mishaps = {} /\ manual = Free
    BY <1>2 DEF Overlap
  <1> QED
    BY <1>2, <1>3

\* A step of the run is a step of the tokens, or leaves them alone.
LEMMA TokensMove == [MCNext]_mcVars => [Next]_tvars
  BY DEF MCNext, mcVars, tvars

\* The types of the token pair.  While nothing was lost and no refresh overlapped with
\* another, the row (or .env) holds the newest pair whenever nobody refreshes, and no
\* executor sends a pair that is used up (_refresh_access_token looks at the row first).
THEOREM TokenChainHolds == MCSpec => []TokensTypeOK /\ TokenChain
  <1>1. MCInit => TInv
    BY TokensInit DEF MCInit
  <1>2. TInv /\ [MCNext]_mcVars => TInv'
    BY TokensMove, TokensStep
  <1>3. TInv => TokensTypeOK /\ ChainKept
    BY DEF TInv, NewestIsKept, ChainKept, Free
  <1>4. TInv /\ [MCNext]_mcVars
          => [\A e \in Executors : busy'.by = e /\ mishaps' = {} /\ busy = Free => own[e] = current]_tvars
    BY TokensMove, SendsNewest
  <1> QED
    BY <1>1, <1>2, <1>3, <1>4, PTL DEF MCSpec, TokenChain, NoUsedTokenSent

-----------------------------------------------------------------------------
(* The calls that share an executor.  The predicates are on the calls js,  *)
(* the positions br at the broker and the ids tk it has given out, so that *)
(* the lemmas about them are free of the machine.                          *)

JobRecord ==
    [kind : {"none", "enter", "exit", "byId"}, acct : O!Acct \cup {NULL}, side : Sides \cup {NULL},
     ask : O!Asks \cup {NULL}, pc : {"idle", "connect", "dial", "lock", "wait", "got"},
     pos : Ids \cup {NULL}, vol : O!Volumes \cup {NULL}, ans : O!Answer \cup {NULL},
     misled : BOOLEAN, result : {NULL, "ok", "closed", "failed", "raised"}]
Request == [ask : O!Asks, by : Jobs, pos : Ids \cup {NULL}, side : Sides \cup {NULL},
            vol : O!Volumes \cup {NULL}]

Closing(r) == r.kind \in {"exit", "byId"}

\* Call r has made up its mind which position to close; a strategy closes all there is.
Decided(r, br, tk) ==
    /\ Closing(r) /\ r.pos \in tk /\ r.vol \in O!Volumes /\ (r.pc # "idle" => r.ask # "find")
    /\ r.kind = "exit" => \A p \in br : p.id = r.pos => p.vol <= r.vol

GoneFrom(a, id, br) == \A p \in br : p.id = id => p.acct # a

\* What is left of the position that r closes: nothing, or by id what its volume leaves.
Shrunk(r, br) == \A p \in br : p.id = r.pos => r.kind = "byId" /\ p.vol + r.vol <= p.full

\* An answer m of account a, as far as closing a position goes: a position that is
\* closed, or missing in a list, does not come back, because ids are used once, and
\* none grows.
Truthful(a, m, js, br, tk, pt) ==
    /\ m.list \subseteq O!Position
    /\ \A p \in m.list : p.id \in tk /\ \A q \in br : q.id = p.id => q.vol <= p.vol
    /\ \A j \in Jobs : m.to = <<j, "close">> =>
          Decided(js[j], br, tk) /\ (O!Nothing(m) \/ j \in pt \/ Shrunk(js[j], br))
    /\ \A j \in Jobs : m.to = <<j, "checkClose">> =>
          /\ Decided(js[j], br, tk)
          /\ O!Nothing(m) \/ (\E p \in m.list : p.id = js[j].pos) \/ GoneFrom(a, js[j].pos, br)

\* What a call carries is what its request needs.
Fits(r, br, tk) ==
    /\ r \in JobRecord
    /\ r.pc # "idle" =>
         /\ r.acct \in O!Acct /\ r.ask \in O!Asks
         /\ r.ask \in {"spec", "open", "checkOpen", "amend"} =>
              r.kind = "enter" /\ r.side \in Sides /\ r.vol \in O!Volumes
         /\ r.ask = "find" => r.kind = "exit"
         /\ r.ask \in {"close", "checkClose"} => Decided(r, br, tk)
         /\ Closing(r) => r.result \notin {"ok", "closed"}
    /\ Closing(r) /\ r.result \in {"ok", "closed"} => r.pos \in tk /\ r.vol \in O!Volumes

\* The answer that call j has in hand; unless it was misled, it is the answer to its request.
InHand(j, r, js, br, tk, pt) ==
    r.pc = "got" =>
      /\ r.ans \in O!Answer /\ Truthful(r.acct, r.ans, js, br, tk, pt)
      /\ ~r.misled => r.ans.to = <<j, r.ask>>

Confirmed(j, r, br, pt) ==
    Closing(r) /\ ~r.misled =>
      /\ r.result = "closed" => GoneFrom(r.acct, r.pos, br)
      /\ r.result = "ok" => j \in pt \/ Shrunk(r, br)

JobsFit ==
    /\ job \in [Jobs -> JobRecord]
    /\ \A j \in Jobs : /\ Fits(job[j], broker, taken) /\ Confirmed(j, job[j], broker, parted)
                       /\ InHand(j, job[j], job, broker, taken, parted)

IdsFit(br, tk) ==
    /\ \A p \in br : p.id \in tk /\ p.vol <= p.full
    /\ \A p, q \in br : p.id = q.id => p = q
TypesFit ==
    /\ client \in [O!Acct -> {"none", "up", "authed"}] /\ disabled \subseteq O!Acct
    /\ sender \in [O!Acct -> Jobs \cup {NULL}] /\ slot \in [O!Acct -> Jobs \cup {NULL}]
    /\ openId \in [O!Acct -> Ids \cup {NULL}] /\ cache \in [O!Acct -> (SUBSET O!Position) \cup {NULL}]
    /\ wire \in [O!Acct -> Seq(Request)] /\ back \in [O!Acct -> Seq(O!Answer)]
    /\ broker \subseteq O!Position /\ taken \subseteq Ids /\ owed \subseteq O!Acct
    /\ parted \subseteq Jobs /\ IdsFit(broker, taken)

\* The lock is held by a call that waits or has its answer, the slot by one that waits.
LocksFit ==
    /\ \A a \in O!Acct : sender[a] # NULL =>
         job[sender[a]].acct = a /\ job[sender[a]].pc \in {"wait", "got"}
    /\ \A a \in O!Acct : slot[a] # NULL => sender[a] = slot[a] /\ job[slot[a]].pc = "wait"
    /\ \A j \in Jobs : job[j].pc = "wait" => slot[job[j].acct] = j

\* Requests w and answers b are no more than the one that call k, who asks what, waits for.
OneUnderWay(w, b, k, what) ==
    /\ k = NULL => w = <<>> /\ b = <<>>
    /\ w # <<>> => Len(w) = 1 /\ b = <<>> /\ w[1].by = k /\ w[1].ask = what
    /\ b # <<>> => Len(b) = 1 /\ b[1].to = <<k, what>>
NothingStray ==
    \A a \in O!Acct \ owed : OneUnderWay(wire[a], back[a], slot[a], job[slot[a]].ask)

\* A request under way agrees with the call that sent it.
Meant(q, js, br, tk) ==
    /\ q.ask = "open" => q.side \in Sides /\ q.vol \in O!Volumes
    /\ q.ask = "close" =>
         Decided(js[q.by], br, tk) /\ q.pos = js[q.by].pos /\ q.vol = js[q.by].vol
    /\ q.ask = "checkClose" => Decided(js[q.by], br, tk)
WireMeant == \A a \in O!Acct : \A i \in 1 .. Len(wire[a]) : Meant(wire[a][i], job, broker, taken)
BackTruthful ==
    \A a \in O!Acct : \A i \in 1 .. Len(back[a]) : Truthful(a, back[a][i], job, broker, taken, parted)

\* Calls that dial count one failure each at most: all of them may do so after the last one.
Diallers(js, a) == {j \in Jobs : js[j].pc = "dial" /\ js[j].acct = a}
FailuresFit ==
    /\ failures \in [O!Acct -> Nat]
    /\ \A a \in O!Acct :
         /\ failures[a] + Cardinality(Diallers(job, a)) <= MaxFailures + Cardinality(Jobs)
         /\ a \notin disabled => failures[a] <= MaxFailures

EInv ==
    TypesFit /\ JobsFit /\ LocksFit /\ NothingStray /\ WireMeant /\ BackTruthful /\ FailuresFit

\* The closes by id that may still come have a volume.
LeftFits == left \in [faults : Nat, parts : Nat, closes : SUBSET O!Volumes]

\* A call closes what it wanted to close.
SameAim(r, r0) == r.kind = r0.kind /\ r.pos = r0.pos /\ r.vol = r0.vol

\* From one table to the next: ids are used once, no position grows, and what is decided
\* stays so.
NoneGrows(br, br2, tk) ==
    /\ br \cup br2 \subseteq O!Position
    /\ \A p \in br2 : p.id \in tk =>
         \E q \in br : q.id = p.id /\ q.acct = p.acct /\ q.full = p.full /\ p.vol <= q.vol
Onward(js, js2, br, br2, tk, tk2, pt, pt2) ==
    /\ tk \subseteq tk2 /\ pt \subseteq pt2 /\ NoneGrows(br, br2, tk)
    /\ \A j \in Jobs : Decided(js[j], br, tk) =>
         Decided(js2[j], br2, tk2) /\ SameAim(js2[j], js[j])

-----------------------------------------------------------------------------
(* Lemmas that know nothing of the steps.                                  *)

LEMMA ShrunkStays ==
  ASSUME NEW br, NEW br2, NEW tk, NEW r, NEW r2, Shrunk(r, br), SameAim(r2, r),
         r.pos \in tk, r.vol \in O!Volumes, NoneGrows(br, br2, tk)
  PROVE  Shrunk(r2, br2)
  <1> SUFFICES ASSUME NEW p \in br2, p.id = r.pos
               PROVE  r.kind = "byId" /\ p.vol + r.vol <= p.full
    BY DEF Shrunk, SameAim
  <1>1. PICK q \in br : q.id = p.id /\ q.full = p.full /\ p.vol <= q.vol
    BY DEF NoneGrows
  <1>2. r.kind = "byId" /\ q.vol + r.vol <= q.full
    BY <1>1 DEF Shrunk
  <1>3. p.vol \in Nat /\ q.vol \in Nat /\ q.full \in Nat /\ r.vol \in Nat
    BY OrdersAssumption DEF NoneGrows, O!Position, O!Volumes
  <1> QED
    BY <1>1, <1>2, <1>3

LEMMA DecidedStays ==
  ASSUME NEW br, NEW br2, NEW tk, NEW tk2, NEW r, Decided(r, br, tk), tk \subseteq tk2,
         NoneGrows(br, br2, tk)
  PROVE  Decided(r, br2, tk2)
  <1>1. ASSUME NEW p \in br2, p.id = r.pos, r.kind = "exit" PROVE p.vol <= r.vol
    <2>1. PICK q \in br : q.id = p.id /\ p.vol <= q.vol
      BY <1>1 DEF NoneGrows, Decided
    <2>2. q.vol <= r.vol
      BY <1>1, <2>1 DEF Decided
    <2>3. p.vol \in Nat /\ q.vol \in Nat /\ r.vol \in Nat
      BY <2>1, OrdersAssumption DEF NoneGrows, Decided, O!Position, O!Volumes
    <2> QED
      BY <2>1, <2>2, <2>3
  <1> QED
    BY <1>1 DEF Decided

\* The broker moves, and no position grows.
LEMMA MovesOnward ==
  ASSUME NEW js, NEW br, NEW br2, NEW tk, NEW tk2, NEW pt, NEW pt2,
         tk \subseteq tk2, pt \subseteq pt2, NoneGrows(br, br2, tk)
  PROVE  Onward(js, js, br, br2, tk, tk2, pt, pt2)
  BY DecidedStays DEF Onward, SameAim

\* Positions that are left alone or closed do not grow.
LEMMA NothingNew ==
  ASSUME NEW br, NEW br2, NEW tk, br \subseteq O!Position, br2 \subseteq br
  PROVE  NoneGrows(br, br2, tk)
  <1>1. \A p \in br : p.vol \in Nat
    BY OrdersAssumption DEF O!Position, O!Volumes
  <1> QED
    BY <1>1 DEF NoneGrows

LEMMA TruthStays ==
  ASSUME NEW js, NEW js2, NEW br, NEW br2, NEW tk, NEW tk2, NEW pt, NEW pt2,
         Onward(js, js2, br, br2, tk, tk2, pt, pt2)
  PROVE  \A a, m : Truthful(a, m, js, br, tk, pt) => Truthful(a, m, js2, br2, tk2, pt2)
  <1> USE DEF Onward
  <1> SUFFICES ASSUME NEW a, NEW m, Truthful(a, m, js, br, tk, pt)
               PROVE  Truthful(a, m, js2, br2, tk2, pt2)
    OBVIOUS
  <1>1. /\ m.list \subseteq O!Position
        /\ \A p \in m.list : p.id \in tk2 /\ \A q \in br2 : q.id = p.id => q.vol <= p.vol
    <2> SUFFICES ASSUME NEW p \in m.list, NEW q \in br2, q.id = p.id PROVE q.vol <= p.vol
      BY DEF Truthful
    <2>1. p.id \in tk /\ \A o \in br : o.id = p.id => o.vol <= p.vol
      BY DEF Truthful
    <2>2. PICK o \in br : o.id = p.id /\ q.vol <= o.vol
      BY <2>1 DEF NoneGrows
    <2>3. p \in O!Position /\ q \in O!Position /\ o \in O!Position
      BY DEF Truthful, NoneGrows
    <2>4. p.vol \in Nat /\ q.vol \in Nat /\ o.vol \in Nat
      BY <2>3, OrdersAssumption DEF O!Position, O!Volumes
    <2> QED
      BY <2>1, <2>2, <2>4
  <1>2. ASSUME NEW j \in Jobs, m.to = <<j, "close">>
        PROVE  Decided(js2[j], br2, tk2) /\ (O!Nothing(m) \/ j \in pt2 \/ Shrunk(js2[j], br2))
    <2>1. Decided(js[j], br, tk) /\ (O!Nothing(m) \/ j \in pt \/ Shrunk(js[j], br))
      BY <1>2 DEF Truthful
    <2>2. /\ js[j].pos \in tk /\ js[j].vol \in O!Volumes
          /\ Decided(js2[j], br2, tk2) /\ SameAim(js2[j], js[j])
      BY <2>1 DEF Decided
    <2>3. Shrunk(js[j], br) => Shrunk(js2[j], br2)
      BY <2>2, ShrunkStays
    <2> QED
      BY <2>1, <2>2, <2>3
  <1>3. ASSUME NEW j \in Jobs, m.to = <<j, "checkClose">>
        PROVE  /\ Decided(js2[j], br2, tk2)
               /\ \/ O!Nothing(m) \/ \E p \in m.list : p.id = js2[j].pos
                  \/ GoneFrom(a, js2[j].pos, br2)
    <2>1. /\ Decided(js[j], br, tk)
          /\ O!Nothing(m) \/ (\E p \in m.list : p.id = js[j].pos) \/ GoneFrom(a, js[j].pos, br)
      BY <1>3 DEF Truthful
    <2>2. js[j].pos \in tk /\ Decided(js2[j], br2, tk2) /\ js2[j].pos = js[j].pos
      BY <2>1 DEF Decided, SameAim
    <2> QED
      BY <2>1, <2>2 DEF GoneFrom, NoneGrows
  <1> QED
    BY <1>1, <1>2, <1>3 DEF Truthful

LEMMA MeantStays ==
  ASSUME NEW js, NEW js2, NEW br, NEW br2, NEW tk, NEW tk2, NEW pt, NEW pt2,
         Onward(js, js2, br, br2, tk, tk2, pt, pt2)
  PROVE  \A q \in Request : Meant(q, js, br, tk) => Meant(q, js2, br2, tk2)
  BY DEF Meant, Request, Onward, SameAim

\* One call becomes r, and nothing changes at the broker.
LEMMA OneTurns ==
  ASSUME EInv, NEW j \in Jobs, NEW r, job' = [job EXCEPT ![j] = r],
         UNCHANGED <<broker, taken, parted>>,
         Fits(r, broker, taken), Confirmed(j, r, broker, parted),
         InHand(j, r, job, broker, taken, parted),
         Decided(job[j], broker, taken) => Decided(r, broker, taken) /\ SameAim(r, job[j])
  PROVE  JobsFit' /\ Onward(job, job', broker, broker', taken, taken', parted, parted')
  <1>1. job \in [Jobs -> JobRecord] /\ r \in JobRecord
    BY DEF EInv, JobsFit, Fits
  <1>2. Onward(job, job', broker, broker', taken, taken', parted, parted')
    <2>1. NoneGrows(broker, broker', taken)
      BY NothingNew DEF EInv, TypesFit
    <2>2. \A k \in Jobs : job'[k] = IF k = j THEN r ELSE job[k]
      BY <1>1
    <2> QED
      BY <2>1, <2>2 DEF Onward, SameAim
  <1>3. \A a, m : Truthful(a, m, job, broker, taken, parted)
             => Truthful(a, m, job', broker', taken', parted')
    BY <1>2, TruthStays
  <1>5. ASSUME NEW k \in Jobs
        PROVE  /\ Fits(job'[k], broker', taken') /\ Confirmed(k, job'[k], broker', parted')
               /\ InHand(k, job'[k], job', broker', taken', parted')
    <2>1. job'[k] = IF k = j THEN r ELSE job[k]
      BY <1>1
    <2>2. /\ Fits(job'[k], broker, taken) /\ Confirmed(k, job'[k], broker, parted)
          /\ InHand(k, job'[k], job, broker, taken, parted)
      BY <2>1 DEF EInv, JobsFit
    <2>3. InHand(k, job'[k], job', broker', taken', parted')
      BY <1>3, <2>2 DEF InHand
    <2> QED
      BY <2>2, <2>3
  <1> QED
    BY <1>1, <1>2, <1>5 DEF JobsFit

\* Messages that stay under way remain what they were.
LEMMA MessagesStay ==
  ASSUME EInv, Onward(job, job', broker, broker', taken, taken', parted, parted')
  PROVE  (UNCHANGED wire => WireMeant') /\ (UNCHANGED back => BackTruthful')
  <1>1. \A a, m : Truthful(a, m, job, broker, taken, parted)
             => Truthful(a, m, job', broker', taken', parted')
    BY TruthStays
  <1>2. \A q \in Request : Meant(q, job, broker, taken) => Meant(q, job', broker', taken')
    BY MeantStays
  <1>3. \A a \in O!Acct : wire[a] \in Seq(Request)
    BY DEF EInv, TypesFit
  <1>4. \A a \in O!Acct : \A i \in 1 .. Len(wire[a]) : wire[a][i] \in Request
    BY <1>3
  <1> QED
    BY <1>1, <1>2, <1>4 DEF EInv, WireMeant, BackTruthful

LEMMA RunningFits ==
  ASSUME EInv, NEW j \in Jobs, job[j].pc # "idle"
  PROVE  /\ job[j] \in JobRecord /\ job \in [Jobs -> JobRecord] /\ job[j].acct \in O!Acct
         /\ job[j].ask \in O!Asks /\ Fits(job[j], broker, taken)
  BY DEF EInv, JobsFit, Fits

\* Whoever does not dial counts no failure.
LEMMA DialsNoMore ==
  ASSUME EInv, NEW j \in Jobs, NEW r, job' = [job EXCEPT ![j] = r], r.pc # "dial",
         UNCHANGED <<failures, disabled>>
  PROVE  FailuresFit'
  <1>1. job \in [Jobs -> JobRecord] /\ failures \in [O!Acct -> Nat] /\ IsFiniteSet(Jobs)
    BY OrdersAssumption DEF EInv, JobsFit, FailuresFit
  <1>2. ASSUME NEW a \in O!Acct
        PROVE  failures[a] + Cardinality(Diallers(job', a)) <= MaxFailures + Cardinality(Jobs)
    <2>1. Diallers(job', a) \subseteq Diallers(job, a) /\ Diallers(job, a) \subseteq Jobs
      BY <1>1 DEF Diallers
    <2>2. /\ Cardinality(Diallers(job', a)) <= Cardinality(Diallers(job, a))
          /\ Cardinality(Diallers(job', a)) \in Nat /\ Cardinality(Diallers(job, a)) \in Nat
          /\ Cardinality(Jobs) \in Nat
      BY <1>1, <2>1, FS_Subset, FS_CardinalityType
    <2> QED
      BY <1>1, <2>2, OrdersAssumption DEF EInv, FailuresFit
  <1> QED
    BY <1>1, <1>2 DEF EInv, FailuresFit

\* A request ends without an answer.
LEMMA GivesUp ==
  ASSUME EInv, NEW j \in Jobs, job[j].pc # "idle", job' = [job EXCEPT ![j] = O!Unanswered(j)],
         UNCHANGED <<broker, taken, parted>>
  PROVE  JobsFit' /\ Onward(job, job', broker, broker', taken, taken', parted, parted')
  <1> DEFINE r == O!Unanswered(j)
             m == O!Silence(j)
  <1>1. r = [job[j] EXCEPT !.pc = "got", !.ans = m]
    BY DEF O!Unanswered
  <1>2. m = [kind |-> "silence", id |-> NULL, list |-> {}, to |-> <<j, job[j].ask>>]
    BY DEF O!Silence, O!Told
  <1>3. m \in O!Answer
    BY <1>2, RunningFits DEF O!Answer, O!Tag
  <1>4. /\ r \in JobRecord /\ r.pc = "got" /\ r.ans = m /\ r.acct = job[j].acct
        /\ r.ask = job[j].ask /\ r.kind = job[j].kind /\ r.side = job[j].side
        /\ r.pos = job[j].pos /\ r.vol = job[j].vol /\ r.result = job[j].result
        /\ r.misled = job[j].misled
    BY <1>1, <1>3, RunningFits DEF JobRecord
  <1>5. Fits(r, broker, taken)
    BY <1>4, RunningFits DEF Fits, Closing, Decided
  <1>6. Truthful(r.acct, m, job, broker, taken, parted)
    BY <1>2, RunningFits DEF Truthful, Fits, O!Nothing, Decided
  <1>7. InHand(j, r, job, broker, taken, parted)
    BY <1>2, <1>3, <1>4, <1>6 DEF InHand
  <1>8. Confirmed(j, r, broker, parted)
    BY <1>4, RunningFits DEF Confirmed, Fits, Closing
  <1>9. Decided(job[j], broker, taken) => Decided(r, broker, taken) /\ SameAim(r, job[j])
    BY <1>4, RunningFits DEF Decided, Closing, SameAim
  <1> HIDE DEF r
  <1>10. job' = [job EXCEPT ![j] = r]
    BY DEF r
  <1> QED
    BY <1>5, <1>7, <1>8, <1>9, <1>10, OneTurns

\* A request goes one stage further.
LEMMA MovesOn ==
  ASSUME EInv, NEW j \in Jobs, job[j].pc # "idle", NEW at \in {"dial", "lock", "wait"},
         job' = [job EXCEPT ![j].pc = at], UNCHANGED <<broker, taken, parted>>
  PROVE  JobsFit' /\ Onward(job, job', broker, broker', taken, taken', parted, parted')
  <1> DEFINE r == [job[j] EXCEPT !.pc = at]
  <1>1. job' = [job EXCEPT ![j] = r]
    BY RunningFits
  <1>2. /\ r \in JobRecord /\ r.pc = at /\ r.acct = job[j].acct
        /\ r.ask = job[j].ask /\ r.kind = job[j].kind /\ r.side = job[j].side
        /\ r.pos = job[j].pos /\ r.vol = job[j].vol /\ r.result = job[j].result
        /\ r.misled = job[j].misled
    BY RunningFits DEF JobRecord
  <1> HIDE DEF r
  <1>3. Fits(r, broker, taken) /\ Confirmed(j, r, broker, parted)
    BY <1>2, RunningFits DEF Fits, Closing, Confirmed, Decided
  <1>4. InHand(j, r, job, broker, taken, parted)
    BY <1>2 DEF InHand
  <1>5. Decided(job[j], broker, taken) => Decided(r, broker, taken) /\ SameAim(r, job[j])
    BY <1>2 DEF Decided, Closing, SameAim
  <1> QED
    BY <1>1, <1>3, <1>4, <1>5, OneTurns

\* Whoever neither waits nor has an answer in hand is not in a lock, nor in a slot.
LEMMA OutsideLocks ==
  ASSUME EInv, NEW j \in Jobs, job[j].pc \notin {"wait", "got"}
  PROVE  \A a \in O!Acct : sender[a] # j /\ slot[a] # j
  BY OrdersAssumption DEF EInv, LocksFit, TypesFit

\* A call that is in no slot does not matter to what is under way.
LEMMA StrayStays ==
  ASSUME EInv, NEW j \in Jobs, NEW r, job' = [job EXCEPT ![j] = r],
         UNCHANGED <<wire, back, slot>>, owed \subseteq owed',
         \A a \in O!Acct : slot[a] # j
  PROVE  NothingStray'
  <1> SUFFICES ASSUME NEW a \in O!Acct \ owed
               PROVE  OneUnderWay(wire[a], back[a], slot[a], job'[slot[a]].ask)
    BY DEF NothingStray
  <1>1. job \in [Jobs -> JobRecord] /\ slot[a] \in Jobs \cup {NULL}
    BY DEF EInv, JobsFit, TypesFit
  <1>2. OneUnderWay(wire[a], back[a], slot[a], job[slot[a]].ask)
    BY DEF EInv, NothingStray
  <1>3. slot[a] \in Jobs => job'[slot[a]] = job[slot[a]]
    BY <1>1
  <1> QED
    BY <1>1, <1>2, <1>3 DEF OneUnderWay

\* A connection is cut: nothing is under way on it, and nothing owed.
LEMMA CutStays ==
  ASSUME EInv, NEW c \in O!Acct, O!Cut(c), slot' = slot,
         \A a \in O!Acct : slot[a] \in Jobs => job'[slot[a]].ask = job[slot[a]].ask,
         Onward(job, job', broker, broker', taken, taken', parted, parted')
  PROVE  NothingStray' /\ WireMeant' /\ BackTruthful'
  <1>1. /\ wire' = [wire EXCEPT ![c] = <<>>] /\ back' = [back EXCEPT ![c] = <<>>]
        /\ owed' = owed \ {c} /\ DOMAIN wire = O!Acct /\ DOMAIN back = O!Acct
        /\ \A a \in O!Acct : wire[a] \in Seq(Request) /\ slot[a] \in Jobs \cup {NULL}
    BY DEF EInv, TypesFit, O!Cut
  <1>2. \A a, m : Truthful(a, m, job, broker, taken, parted)
             => Truthful(a, m, job', broker', taken', parted')
    BY TruthStays
  <1>3. \A q \in Request : Meant(q, job, broker, taken) => Meant(q, job', broker', taken')
    BY MeantStays
  <1>4. NothingStray'
    <2> SUFFICES ASSUME NEW a \in O!Acct \ owed'
                 PROVE  OneUnderWay(wire'[a], back'[a], slot[a], job'[slot[a]].ask)
      BY DEF NothingStray
    <2>1. CASE a = c
      BY <1>1, <2>1 DEF OneUnderWay
    <2>2. CASE a # c
      BY <1>1, <2>2 DEF OneUnderWay, EInv, NothingStray
    <2> QED
      BY <2>1, <2>2
  <1>5. WireMeant'
    <2> SUFFICES ASSUME NEW a \in O!Acct, NEW i \in 1 .. Len(wire'[a])
                 PROVE  Meant(wire'[a][i], job', broker', taken')
      BY DEF WireMeant
    <2>1. a # c /\ wire'[a] = wire[a]
      BY <1>1
    <2>2. wire[a][i] \in Request
      BY <1>1, <2>1
    <2> QED
      BY <1>3, <2>1, <2>2 DEF EInv, WireMeant
  <1>6. BackTruthful'
    <2> SUFFICES ASSUME NEW a \in O!Acct, NEW i \in 1 .. Len(back'[a])
                 PROVE  Truthful(a, back'[a][i], job', broker', taken', parted')
      BY DEF BackTruthful
    <2>1. a # c /\ back'[a] = back[a]
      BY <1>1
    <2> QED
      BY <1>2, <2>1 DEF EInv, BackTruthful
  <1> QED
    BY <1>4, <1>5, <1>6

-----------------------------------------------------------------------------
(* The steps of a call.                                                    *)

\* A call that holds no lock turns into one that does not wait either.
LEMMA LocksStay ==
  ASSUME EInv, NEW j \in Jobs, NEW r, job' = [job EXCEPT ![j] = r], r.pc # "wait",
         job[j].pc \notin {"wait", "got"}, UNCHANGED <<sender, slot>>
  PROVE  LocksFit'
  <1>1. job \in [Jobs -> JobRecord] /\ \A a \in O!Acct : {sender[a], slot[a]} \subseteq Jobs \cup {NULL}
    BY DEF EInv, JobsFit, TypesFit
  <1>2. \A a \in O!Acct : sender[a] # j /\ slot[a] # j
    BY OutsideLocks
  <1>3. \A k \in Jobs : k # j => job'[k] = job[k]
    BY <1>1
  <1>4. job'[j] = r
    BY <1>1
  <1> QED
    BY <1>1, <1>2, <1>3, <1>4 DEF EInv, LocksFit

\* Such a call, when nothing else changes that matters.
LEMMA QuietTurn ==
  ASSUME EInv, NEW j \in Jobs, NEW r, job' = [job EXCEPT ![j] = r], r.pc # "wait",
         job[j].pc \notin {"wait", "got"}, JobsFit', FailuresFit',
         Onward(job, job', broker, broker', taken, taken', parted, parted'),
         UNCHANGED <<client, disabled, sender, slot, openId, cache, wire, back, broker, taken,
                     parted, owed>>
  PROVE  EInv'
  <1>1. TypesFit'
    BY DEF EInv, TypesFit
  <1>2. LocksFit'
    BY LocksStay
  <1>3. NothingStray'
    BY OutsideLocks, StrayStays
  <1>4. WireMeant' /\ BackTruthful'
    BY MessagesStay
  <1> QED
    BY <1>1, <1>2, <1>3, <1>4 DEF EInv

LEMMA ConnectedStep == ASSUME EInv, NEW j \in Jobs, O!Connected(j) PROVE EInv'
  <1>1. /\ job[j].pc = "connect" /\ job[j].acct \in O!Acct
        /\ UNCHANGED <<client, failures, disabled, sender, slot, openId, cache, wire, back, broker,
                       taken, parted, owed, left>>
    BY RunningFits DEF O!Connected, O!world
  <1>2. CASE job' = [job EXCEPT ![j] = O!Unanswered(j)]
    <2>1. JobsFit' /\ Onward(job, job', broker, broker', taken, taken', parted, parted')
      BY <1>1, <1>2, GivesUp
    <2>2. O!Unanswered(j).pc = "got"
      BY <1>1, RunningFits DEF O!Unanswered, JobRecord
    <2>3. FailuresFit'
      BY <1>1, <1>2, <2>2, DialsNoMore
    <2> QED
      BY <1>1, <1>2, <2>1, <2>2, <2>3, QuietTurn
  <1>3. CASE job' = [job EXCEPT ![j].pc = "lock"]
    <2> DEFINE r == [job[j] EXCEPT !.pc = "lock"]
    <2>1. JobsFit' /\ Onward(job, job', broker, broker', taken, taken', parted, parted')
      BY <1>1, <1>3, MovesOn
    <2>2. job' = [job EXCEPT ![j] = r] /\ r.pc = "lock"
      BY <1>1, <1>3, RunningFits DEF JobRecord
    <2> HIDE DEF r
    <2>3. FailuresFit'
      BY <1>1, <2>2, DialsNoMore
    <2> QED
      BY <1>1, <2>1, <2>2, <2>3, QuietTurn
  <1>4. CASE job[j].acct \notin disabled /\ job' = [job EXCEPT ![j].pc = "dial"]
    <2> DEFINE r == [job[j] EXCEPT !.pc = "dial"]
    <2>1. JobsFit' /\ Onward(job, job', broker, broker', taken, taken', parted, parted')
      BY <1>1, <1>4, MovesOn
    <2>2. /\ job' = [job EXCEPT ![j] = r] /\ r.pc = "dial" /\ r.acct = job[j].acct
          /\ job \in [Jobs -> JobRecord]
      BY <1>1, <1>4, RunningFits DEF JobRecord
    <2> HIDE DEF r
    <2>3. ASSUME NEW a \in O!Acct
          PROVE  failures[a] + Cardinality(Diallers(job', a)) <= MaxFailures + Cardinality(Jobs)
      <3>1. Diallers(job', a) \subseteq Jobs
        BY DEF Diallers
      <3>2. /\ Cardinality(Diallers(job', a)) <= Cardinality(Jobs)
            /\ Cardinality(Diallers(job', a)) \in Nat /\ Cardinality(Jobs) \in Nat
        BY <3>1, FS_Subset, FS_CardinalityType, OrdersAssumption
      <3>3. CASE a = job[j].acct
        BY <1>4, <3>2, <3>3, OrdersAssumption DEF EInv, FailuresFit
      <3>4. CASE a # job[j].acct
        <4>1. Diallers(job', a) = Diallers(job, a)
          BY <1>1, <2>2, <3>4 DEF Diallers
        <4> QED
          BY <4>1 DEF EInv, FailuresFit
      <3> QED
        BY <3>3, <3>4
    <2>4. FailuresFit'
      BY <1>1, <2>3 DEF EInv, FailuresFit
    <2> QED
      BY <1>1, <2>1, <2>2, <2>4, QuietTurn
  <1> QED
    BY <1>2, <1>3, <1>4 DEF O!Connected

LEMMA DialledStep == ASSUME EInv, NEW j \in Jobs, O!Dialled(j) PROVE EInv'
  <1> DEFINE a == job[j].acct
             r == [job[j] EXCEPT !.pc = "lock"]
  <1>1. /\ job[j].pc = "dial" /\ a \in O!Acct
        /\ job' = [job EXCEPT ![j].pc = "lock"]
        /\ UNCHANGED <<disabled, sender, slot, openId, cache, broker, taken, parted>>
    BY RunningFits DEF O!Dialled
  <1>2. JobsFit' /\ Onward(job, job', broker, broker', taken, taken', parted, parted')
    BY <1>1, MovesOn
  <1>3. /\ job' = [job EXCEPT ![j] = r] /\ r.pc = "lock" /\ r.ask = job[j].ask
        /\ job \in [Jobs -> JobRecord]
    BY <1>1, RunningFits DEF JobRecord
  <1> HIDE DEF r
  <1>4. CASE client[a] = "authed"
    <2>1. UNCHANGED <<client, failures, wire, back, owed>>
      BY <1>4 DEF O!Dialled
    <2>2. FailuresFit'
      BY <1>1, <1>3, <2>1, DialsNoMore
    <2> QED
      BY <1>1, <1>2, <1>3, <2>1, <2>2, QuietTurn
  <1>5. CASE client[a] # "authed"
    <2>1. /\ client' = [client EXCEPT ![a] = "authed"]
          /\ failures' = [failures EXCEPT ![a] = 0] /\ O!Cut(a)
      BY <1>5 DEF O!Dialled
    <2>2. NothingStray' /\ WireMeant' /\ BackTruthful'
      <3>1. \A b \in O!Acct : slot[b] \in Jobs => job'[slot[b]].ask = job[slot[b]].ask
        BY <1>3
      <3> QED
        BY <1>1, <1>2, <2>1, <3>1, CutStays
    <2>3. TypesFit'
      BY <1>1, <2>1 DEF EInv, TypesFit, O!Cut
    <2>4. LocksFit'
      BY <1>1, <1>3, LocksStay
    <2>5. FailuresFit'
      <3>1. ASSUME NEW b \in O!Acct
            PROVE  failures'[b] + Cardinality(Diallers(job', b)) <= MaxFailures + Cardinality(Jobs)
        <4>1. Diallers(job', b) \subseteq Diallers(job, b) /\ Diallers(job, b) \subseteq Jobs
          BY <1>3 DEF Diallers
        <4>2. /\ Cardinality(Diallers(job', b)) <= Cardinality(Diallers(job, b))
              /\ Cardinality(Diallers(job', b)) \in Nat /\ Cardinality(Diallers(job, b)) \in Nat
              /\ Cardinality(Jobs) \in Nat
          BY <4>1, FS_Subset, FS_CardinalityType, OrdersAssumption
        <4>3. failures[b] \in Nat /\ failures'[b] \in Nat /\ failures'[b] <= failures[b]
          BY <1>1, <2>1 DEF EInv, FailuresFit
        <4> QED
          BY <4>2, <4>3, OrdersAssumption DEF EInv, FailuresFit
      <3>2. /\ failures' \in [O!Acct -> Nat]
            /\ \A b \in O!Acct \ disabled : failures'[b] <= MaxFailures
        BY <1>1, <2>1, OrdersAssumption DEF EInv, FailuresFit
      <3> QED
        BY <1>1, <3>1, <3>2 DEF FailuresFit
    <2> QED
      BY <1>2, <2>2, <2>3, <2>4, <2>5 DEF EInv
  <1> QED
    BY <1>4, <1>5

LEMMA DialFailsStep == ASSUME EInv, NEW j \in Jobs, O!DialFails(j) PROVE EInv'
  <1> DEFINE a == job[j].acct
             r == O!Unanswered(j)
  <1>1. /\ job[j].pc = "dial" /\ a \in O!Acct
        /\ failures' = [failures EXCEPT ![a] = @ + 1]
        /\ disabled' = IF failures'[a] >= MaxFailures THEN disabled \cup {a} ELSE disabled
        /\ client' = [client EXCEPT ![a] = "none"] /\ O!Cut(a)
        /\ job' = [job EXCEPT ![j] = r]
        /\ UNCHANGED <<sender, slot, openId, cache, broker, taken, parted>>
    BY RunningFits DEF O!DialFails
  <1>2. JobsFit' /\ Onward(job, job', broker, broker', taken, taken', parted, parted')
    BY <1>1, GivesUp
  <1>3. /\ job \in [Jobs -> JobRecord] /\ r.pc = "got" /\ r.ask = job[j].ask
    BY <1>1, RunningFits DEF JobRecord, O!Unanswered
  <1> HIDE DEF r
  <1>4. NothingStray' /\ WireMeant' /\ BackTruthful'
    <2>1. \A b \in O!Acct : slot[b] \in Jobs => job'[slot[b]].ask = job[slot[b]].ask
      BY <1>1, <1>3
    <2> QED
      BY <1>1, <1>2, <2>1, CutStays
  <1>5. TypesFit'
    BY <1>1 DEF EInv, TypesFit, O!Cut
  <1>6. LocksFit'
    BY <1>1, <1>3, LocksStay
  <1>7. FailuresFit'
    <2>1. failures \in [O!Acct -> Nat] /\ failures' \in [O!Acct -> Nat]
      BY <1>1 DEF EInv, FailuresFit
    <2>2. ASSUME NEW b \in O!Acct
          PROVE  failures'[b] + Cardinality(Diallers(job', b)) <= MaxFailures + Cardinality(Jobs)
      <3>1. Diallers(job', b) = Diallers(job, b) \ {j} /\ Diallers(job, b) \subseteq Jobs
        BY <1>1, <1>3 DEF Diallers
      <3>2. IsFiniteSet(Diallers(job, b)) /\ Cardinality(Diallers(job, b)) \in Nat
        BY <3>1, FS_Subset, FS_CardinalityType, OrdersAssumption
      <3>3. CASE b = a
        <4>1. j \in Diallers(job, b)
          BY <1>1, <3>3 DEF Diallers
        <4>2. Cardinality(Diallers(job', b)) = Cardinality(Diallers(job, b)) - 1
          BY <3>1, <3>2, <4>1, FS_RemoveElement
        <4>3. failures'[b] = failures[b] + 1 /\ failures[b] \in Nat
          BY <1>1, <2>1, <3>3
        <4>4. failures[b] + Cardinality(Diallers(job, b)) <= MaxFailures + Cardinality(Jobs)
          BY DEF EInv, FailuresFit
        <4> QED
          BY <3>2, <4>2, <4>3, <4>4
      <3>4. CASE b # a
        <4>1. j \notin Diallers(job, b)
          BY <3>4 DEF Diallers
        <4>2. Diallers(job', b) = Diallers(job, b) /\ failures'[b] = failures[b]
          BY <1>1, <2>1, <3>1, <3>4, <4>1
        <4> QED
          BY <4>2 DEF EInv, FailuresFit
      <3> QED
        BY <3>3, <3>4
    <2>3. ASSUME NEW b \in O!Acct \ disabled' PROVE failures'[b] <= MaxFailures
      <3>1. CASE b = a
        BY <1>1, <2>1, <3>1, OrdersAssumption
      <3>2. CASE b # a
        BY <1>1, <2>1, <3>2 DEF EInv, FailuresFit
      <3> QED
        BY <3>1, <3>2
    <2> QED
      BY <2>1, <2>2, <2>3 DEF FailuresFit
  <1> QED
    BY <1>2, <1>4, <1>5, <1>6, <1>7 DEF EInv

LEMMA SendStep == ASSUME EInv, NEW j \in Jobs, O!Send(j) PROVE EInv'
  <1> DEFINE a == job[j].acct
             r == [job[j] EXCEPT !.pc = "wait"]
             q == [ask |-> job[j].ask, by |-> j,
                   pos |-> IF job[j].ask = "amend" THEN openId[a] ELSE job[j].pos,
                   side |-> job[j].side, vol |-> job[j].vol]
  <1>1. /\ job[j].pc = "lock" /\ a \in O!Acct /\ sender[a] = NULL
        /\ sender' = [sender EXCEPT ![a] = j] /\ slot' = [slot EXCEPT ![a] = j]
        /\ job' = [job EXCEPT ![j].pc = "wait"]
        /\ wire' = IF client[a] = "authed" THEN [wire EXCEPT ![a] = Append(@, q)] ELSE wire
        /\ UNCHANGED <<client, failures, disabled, openId, cache, back, broker, taken,
                       parted, owed>>
    BY RunningFits DEF O!Send, O!MaySend
  <1>2. JobsFit' /\ Onward(job, job', broker, broker', taken, taken', parted, parted')
    BY <1>1, MovesOn
  <1>3. /\ job' = [job EXCEPT ![j] = r] /\ r.pc = "wait" /\ r.acct = a /\ r.ask = job[j].ask
        /\ job \in [Jobs -> JobRecord]
    BY <1>1, RunningFits DEF JobRecord
  <1> HIDE DEF r
  <1>4. \A b \in O!Acct : sender[b] # j /\ slot[b] # j
    BY <1>1, OutsideLocks
  <1>5. slot[a] = NULL /\ j # NULL
    BY <1>1, OrdersAssumption DEF EInv, LocksFit
  <1>6. /\ \A b \in O!Acct : wire[b] \in Seq(Request) /\ back[b] \in Seq(O!Answer)
        /\ \A b \in O!Acct : {sender[b], slot[b]} \subseteq Jobs \cup {NULL}
        /\ sender \in [O!Acct -> Jobs \cup {NULL}] /\ slot \in [O!Acct -> Jobs \cup {NULL}]
        /\ wire \in [O!Acct -> Seq(Request)] /\ openId[a] \in Ids \cup {NULL}
    BY <1>1 DEF EInv, TypesFit
  <1>7. q \in Request
    BY <1>1, <1>6, RunningFits DEF Request, JobRecord
  <1>8. Meant(q, job, broker, taken)
    BY <1>1, RunningFits DEF Meant, Fits, Decided
  <1>9. q.by = j /\ q.ask = job[j].ask
    OBVIOUS
  <1> HIDE DEF q
  <1>10. TypesFit'
    <2>1. wire' \in [O!Acct -> Seq(Request)]
      BY <1>1, <1>6, <1>7
    <2> QED
      BY <1>1, <1>6, <2>1 DEF EInv, TypesFit
  <1>11. LocksFit'
    <2>1. /\ \A k \in Jobs : job'[k] = IF k = j THEN r ELSE job[k]
          /\ \A b \in O!Acct : sender'[b] = IF b = a THEN j ELSE sender[b]
          /\ \A b \in O!Acct : slot'[b] = IF b = a THEN j ELSE slot[b]
          /\ \A b \in O!Acct : sender[b] \in Jobs \cup {NULL} /\ slot[b] \in Jobs \cup {NULL}
      BY <1>1, <1>3, <1>6
    <2>2. \A k \in Jobs : job[k].pc = "wait" => slot[job[k].acct] = k /\ job[k].acct \in O!Acct
      BY RunningFits DEF EInv, LocksFit
    <2>3. \A k \in Jobs : job'[k].pc = "wait" => slot'[job'[k].acct] = k
      BY <1>1, <1>3, <1>5, <2>1, <2>2, OrdersAssumption
    <2>4. /\ \A b \in O!Acct : sender[b] # NULL =>
               job[sender[b]].acct = b /\ job[sender[b]].pc \in {"wait", "got"}
          /\ \A b \in O!Acct : slot[b] # NULL => sender[b] = slot[b] /\ job[slot[b]].pc = "wait"
      BY DEF EInv, LocksFit
    <2>5. ASSUME NEW b \in O!Acct
          PROVE  /\ sender'[b] # NULL => job'[sender'[b]].acct = b
                                         /\ job'[sender'[b]].pc \in {"wait", "got"}
                 /\ slot'[b] # NULL => sender'[b] = slot'[b] /\ job'[slot'[b]].pc = "wait"
      <3>1. CASE b = a
        BY <1>3, <2>1, <3>1
      <3>2. CASE b # a
        BY <1>4, <2>1, <2>4, <3>2
      <3> QED
        BY <3>1, <3>2
    <2> QED
      BY <2>3, <2>5 DEF LocksFit
  <1>12. NothingStray'
    <2> SUFFICES ASSUME NEW b \in O!Acct \ owed
                 PROVE  OneUnderWay(wire'[b], back[b], slot'[b], job'[slot'[b]].ask)
      BY <1>1 DEF NothingStray
    <2>1. OneUnderWay(wire[b], back[b], slot[b], job[slot[b]].ask)
      BY DEF EInv, NothingStray
    <2>2. CASE b = a
      <3>1. wire[b] = <<>> /\ back[b] = <<>> /\ slot'[b] = j /\ job'[j].ask = job[j].ask
        BY <1>1, <1>3, <1>5, <1>6, <2>1, <2>2 DEF OneUnderWay
      <3>2. wire'[b] = <<q>> \/ wire'[b] = <<>>
        BY <1>1, <1>6, <2>2, <3>1
      <3>3. wire'[b] = <<q>> => Len(wire'[b]) = 1 /\ wire'[b][1] = q
        OBVIOUS
      <3> QED
        BY <1>5, <1>9, <3>1, <3>2, <3>3 DEF OneUnderWay
    <2>3. CASE b # a
      <3>1. wire'[b] = wire[b] /\ slot'[b] = slot[b]
        BY <1>1, <1>6, <2>3
      <3>2. slot[b] \in Jobs => job'[slot[b]] = job[slot[b]]
        BY <1>3, <1>4
      <3> QED
        BY <1>6, <2>1, <3>1, <3>2 DEF OneUnderWay
    <2> QED
      BY <2>2, <2>3
  <1>13. WireMeant'
    <2>1. \A p \in Request : Meant(p, job, broker, taken) => Meant(p, job', broker', taken')
      BY <1>2, MeantStays
    <2> SUFFICES ASSUME NEW b \in O!Acct, NEW i \in 1 .. Len(wire'[b])
                 PROVE  wire'[b][i] \in Request /\ Meant(wire'[b][i], job, broker, taken)
      BY <2>1 DEF WireMeant
    <2>2. wire'[b] = wire[b] \/ wire'[b] = Append(wire[b], q)
      BY <1>1, <1>6
    <2>3. CASE i <= Len(wire[b])
      <3>1. wire'[b][i] = wire[b][i] /\ i \in 1 .. Len(wire[b]) /\ wire[b][i] \in Request
        BY <1>6, <1>7, <2>2, <2>3
      <3> QED
        BY <3>1 DEF EInv, WireMeant
    <2>4. CASE i > Len(wire[b])
      BY <1>6, <1>7, <1>8, <2>2, <2>4
    <2> QED
      BY <1>6, <2>2, <2>3, <2>4
  <1>14. BackTruthful'
    BY <1>1, <1>2, MessagesStay
  <1>15. FailuresFit'
    BY <1>1, <1>3, DialsNoMore
  <1> QED
    BY <1>2, <1>10, <1>11, <1>12, <1>13, <1>14, <1>15 DEF EInv

\* The call in the slot stops waiting: its answer came, or its time ran out.
LEMMA LeavesSlot ==
  ASSUME EInv, NEW j \in Jobs, NEW r, job' = [job EXCEPT ![j] = r],
         job[j].pc = "wait", r.pc = "got", r.acct = job[j].acct,
         slot' = [slot EXCEPT ![job[j].acct] = NULL], UNCHANGED sender
  PROVE  /\ LocksFit' /\ slot[job[j].acct] = j
         /\ \A b \in O!Acct : slot[b] \in Jobs => slot[b] = j \/ job'[slot[b]] = job[slot[b]]
         /\ \A b \in O!Acct : b # job[j].acct => slot[b] # j /\ slot'[b] = slot[b]
  <1> DEFINE a == job[j].acct
  <1>1. /\ job \in [Jobs -> JobRecord] /\ a \in O!Acct /\ slot[a] = j /\ j # NULL
        /\ slot \in [O!Acct -> Jobs \cup {NULL}] /\ sender \in [O!Acct -> Jobs \cup {NULL}]
    BY RunningFits, OrdersAssumption DEF EInv, LocksFit, TypesFit
  <1>2. /\ \A k \in Jobs : job'[k] = IF k = j THEN r ELSE job[k]
        /\ \A b \in O!Acct : slot'[b] = IF b = a THEN NULL ELSE slot[b]
        /\ \A b \in O!Acct : sender[b] \in Jobs \cup {NULL} /\ slot[b] \in Jobs \cup {NULL}
    BY <1>1
  <1>3. /\ \A b \in O!Acct : sender[b] # NULL =>
             job[sender[b]].acct = b /\ job[sender[b]].pc \in {"wait", "got"}
        /\ \A b \in O!Acct : slot[b] # NULL => sender[b] = slot[b] /\ job[slot[b]].pc = "wait"
        /\ \A k \in Jobs : job[k].pc = "wait" => slot[job[k].acct] = k /\ job[k].acct \in O!Acct
    BY RunningFits DEF EInv, LocksFit
  <1>4. \A b \in O!Acct : b # a => slot[b] # j
    BY <1>1, <1>3
  <1>5. \A k \in Jobs : job'[k].pc = "wait" => slot'[job'[k].acct] = k
    BY <1>1, <1>2, <1>3
  <1>6. \A b \in O!Acct : sender[b] # NULL =>
          job'[sender[b]].acct = b /\ job'[sender[b]].pc \in {"wait", "got"}
    BY <1>2, <1>3
  <1>7. \A b \in O!Acct : slot'[b] # NULL => sender[b] = slot'[b] /\ job'[slot'[b]].pc = "wait"
    BY <1>2, <1>3, <1>4
  <1> QED
    BY <1>1, <1>2, <1>4, <1>5, <1>6, <1>7 DEF LocksFit

LEMMA TimeOutSteps == ASSUME EInv, NEW j \in Jobs, O!TimeOut(j) \/ O!TimeOutLost(j) PROVE EInv'
  <1> DEFINE a == job[j].acct
             r == O!Unanswered(j)
  <1>1. /\ job[j].pc = "wait" /\ a \in O!Acct
        /\ slot' = [slot EXCEPT ![a] = NULL] /\ job' = [job EXCEPT ![j] = r]
        /\ UNCHANGED <<client, failures, disabled, sender, openId, cache, wire, back, broker,
                       taken, parted>>
        /\ owed \subseteq owed' /\ owed' \subseteq owed \cup {a}
        /\ a \in owed' \/ (wire[a] = <<>> /\ back[a] = <<>>)
    BY RunningFits DEF O!TimeOut, O!TimeOutLost, O!world
  <1>2. JobsFit' /\ Onward(job, job', broker, broker', taken, taken', parted, parted')
    BY <1>1, GivesUp
  <1>3. /\ job \in [Jobs -> JobRecord] /\ r.pc = "got" /\ r.acct = a
    BY <1>1, RunningFits DEF JobRecord, O!Unanswered
  <1> HIDE DEF r
  <1>4. TypesFit'
    BY <1>1 DEF EInv, TypesFit
  <1>5. /\ LocksFit'
        /\ \A b \in O!Acct : slot[b] \in Jobs => slot[b] = j \/ job'[slot[b]] = job[slot[b]]
        /\ \A b \in O!Acct : b # a => slot[b] # j /\ slot'[b] = slot[b]
    BY <1>1, <1>3, LeavesSlot
  <1>6. NothingStray'
    <2> SUFFICES ASSUME NEW b \in O!Acct \ owed'
                 PROVE  OneUnderWay(wire[b], back[b], slot'[b], job'[slot'[b]].ask)
      BY <1>1 DEF NothingStray
    <2>1. CASE b = a
      BY <1>1, <2>1 DEF OneUnderWay
    <2>2. CASE b # a
      BY <1>1, <1>5, <2>2 DEF OneUnderWay, EInv, NothingStray, TypesFit
    <2> QED
      BY <2>1, <2>2
  <1>7. WireMeant' /\ BackTruthful'
    BY <1>1, <1>2, MessagesStay
  <1>8. FailuresFit'
    BY <1>1, <1>3, DialsNoMore
  <1> QED
    BY <1>2, <1>4, <1>5, <1>6, <1>7, <1>8 DEF EInv

\* The oldest answer arrives.
LEMMA DeliverStep == ASSUME EInv, NEW a \in O!Acct, O!Deliver(a) PROVE EInv'
  <1> DEFINE m == Head(back[a])
  <1>1. /\ back[a] # <<>> /\ back' = [back EXCEPT ![a] = Tail(@)]
        /\ openId' = IF m.kind = "filled" THEN [openId EXCEPT ![a] = m.id] ELSE openId
        /\ slot' = [slot EXCEPT ![a] = NULL]
        /\ UNCHANGED <<client, failures, disabled, sender, cache, wire, broker, taken,
                       parted, owed>>
    BY DEF O!Deliver
  <1>2. /\ \A b \in O!Acct : back[b] \in Seq(O!Answer) /\ wire[b] \in Seq(Request)
        /\ \A b \in O!Acct : slot[b] \in Jobs \cup {NULL}
        /\ back \in [O!Acct -> Seq(O!Answer)] /\ slot \in [O!Acct -> Jobs \cup {NULL}]
        /\ job \in [Jobs -> JobRecord]
    BY DEF EInv, TypesFit, JobsFit
  <1>3. m = back[a][1] /\ m \in O!Answer /\ m.id \in Ids \cup {NULL} /\ 1 \in 1 .. Len(back[a])
    <2>1. m = back[a][1] /\ m \in O!Answer /\ 1 \in 1 .. Len(back[a])
      BY <1>1, <1>2
    <2> HIDE DEF m
    <2> QED
      BY <2>1 DEF O!Answer
  <1>4. Truthful(a, m, job, broker, taken, parted)
    BY <1>3 DEF EInv, BackTruthful
  <1>5. /\ \A b \in O!Acct : b # a => back'[b] = back[b] /\ slot'[b] = slot[b]
        /\ back'[a] = Tail(back[a]) /\ back'[a] \in Seq(O!Answer) /\ slot'[a] = NULL
        /\ Len(back'[a]) = Len(back[a]) - 1 /\ \A i \in 1 .. Len(back'[a]) : back'[a][i] = back[a][i + 1]
    BY <1>1, <1>2
  <1> HIDE DEF m
  <1>6. TypesFit'
    <2>1. openId' \in [O!Acct -> Ids \cup {NULL}]
      BY <1>1, <1>3 DEF EInv, TypesFit
    <2>2. back' \in [O!Acct -> Seq(O!Answer)] /\ slot' \in [O!Acct -> Jobs \cup {NULL}]
      BY <1>1, <1>2, <1>5
    <2> QED
      BY <1>1, <2>1, <2>2 DEF EInv, TypesFit
  <1>7. ASSUME Onward(job, job', broker, broker', taken, taken', parted, parted')
        PROVE  WireMeant' /\ BackTruthful'
    <2>1. \A b, n : Truthful(b, n, job, broker, taken, parted)
               => Truthful(b, n, job', broker', taken', parted')
      BY <1>7, TruthStays
    <2>2. ASSUME NEW b \in O!Acct, NEW i \in 1 .. Len(back'[b])
          PROVE  Truthful(b, back'[b][i], job, broker, taken, parted)
      <3>1. CASE b = a
        <4>1. back'[b][i] = back[b][i + 1] /\ i + 1 \in 1 .. Len(back[b])
          <5>1. Len(back[a]) \in Nat /\ Len(back'[a]) = Len(back[a]) - 1 /\ i \in 1 .. Len(back'[a])
            BY <1>2, <1>5, <3>1
          <5>2. back'[a][i] = back[a][i + 1]
            BY <1>5, <5>1
          <5>3. i + 1 \in 1 .. Len(back[a])
            BY <5>1
          <5> QED
            BY <3>1, <5>2, <5>3
        <4> QED
          BY <4>1 DEF EInv, BackTruthful
      <3>2. CASE b # a
        BY <1>5, <3>2 DEF EInv, BackTruthful
      <3> QED
        BY <3>1, <3>2
    <2> QED
      BY <1>1, <1>7, <2>1, <2>2, MessagesStay DEF BackTruthful
  <1>8. ASSUME \A b \in O!Acct : b # a /\ slot[b] \in Jobs => job'[slot[b]] = job[slot[b]]
        PROVE  NothingStray'
    <2> SUFFICES ASSUME NEW b \in O!Acct \ owed
                 PROVE  OneUnderWay(wire[b], back'[b], slot'[b], job'[slot'[b]].ask)
      BY <1>1 DEF NothingStray
    <2>1. OneUnderWay(wire[b], back[b], slot[b], job[slot[b]].ask)
      BY DEF EInv, NothingStray
    <2>2. CASE b = a
      <3>1. wire[b] = <<>> /\ back'[b] = <<>>
        BY <1>1, <1>2, <1>5, <2>1, <2>2 DEF OneUnderWay
      <3> QED
        BY <3>1 DEF OneUnderWay
    <2>3. CASE b # a
      BY <1>2, <1>5, <1>8, <2>1, <2>3 DEF OneUnderWay
    <2> QED
      BY <2>2, <2>3
  <1>9. CASE slot[a] = NULL
    <2>1. job' = job
      BY <1>9 DEF O!Deliver
    <2>2. JobsFit' /\ LocksFit' /\ FailuresFit'
      BY <1>1, <1>2, <1>5, <1>9, <2>1 DEF EInv, JobsFit, LocksFit, FailuresFit
    <2>3. Onward(job, job', broker, broker', taken, taken', parted, parted')
      BY <1>1, <2>1, NothingNew, MovesOnward DEF EInv, TypesFit
    <2> QED
      BY <1>6, <1>7, <1>8, <2>1, <2>2, <2>3 DEF EInv
  <1>10. ASSUME NEW k \in Jobs, slot[a] = k PROVE EInv'
    <2> DEFINE lied == job[k].misled \/ m.to # <<k, job[k].ask>>
               r == [job[k] EXCEPT !.pc = "got", !.ans = m, !.misled = lied]
    <2>1. k \in Jobs /\ job[k].pc = "wait" /\ job[k].acct = a /\ Fits(job[k], broker, taken)
          /\ job[k].ask \in O!Asks
      BY <1>10, RunningFits, OrdersAssumption DEF EInv, LocksFit
    <2>2. job' = [job EXCEPT ![k] = r]
      BY <1>2, <1>10, <2>1, OrdersAssumption DEF O!Deliver, JobRecord, m
    <2> lied \in BOOLEAN
      BY <1>2, <2>1 DEF JobRecord
    <2> HIDE DEF lied
    <2>3. job[k] \in JobRecord
      BY <1>2
    <2>4. r \in JobRecord
      BY <1>3, <2>3, ZenonT(40) DEF JobRecord
    <2>5. /\ r \in JobRecord /\ r.pc = "got" /\ r.ans = m /\ r.acct = a /\ r.misled = lied
          /\ r.ask = job[k].ask /\ r.kind = job[k].kind /\ r.side = job[k].side
          /\ r.pos = job[k].pos /\ r.vol = job[k].vol /\ r.result = job[k].result
      BY <2>1, <2>3, <2>4 DEF JobRecord
    <2> HIDE DEF r
    <2>6. Fits(r, broker, taken)
      BY <2>1, <2>5 DEF Fits, Closing, Decided
    <2>7. Confirmed(k, r, broker, parted)
      BY <2>1, <2>5 DEF Confirmed, Fits, Closing
    <2>8. InHand(k, r, job, broker, taken, parted)
      BY <1>3, <1>4, <2>5 DEF InHand, lied
    <2>9. Decided(job[k], broker, taken) => Decided(r, broker, taken) /\ SameAim(r, job[k])
      BY <2>1, <2>5 DEF Decided, Closing, SameAim
    <2>10. JobsFit' /\ Onward(job, job', broker, broker', taken, taken', parted, parted')
      BY <1>1, <2>1, <2>2, <2>6, <2>7, <2>8, <2>9, OneTurns
    <2>11. slot' = [slot EXCEPT ![job[k].acct] = NULL] /\ r.acct = job[k].acct
      BY <1>1, <2>1, <2>5
    <2>12. /\ LocksFit'
           /\ \A b \in O!Acct : slot[b] \in Jobs => slot[b] = k \/ job'[slot[b]] = job[slot[b]]
           /\ \A b \in O!Acct : b # a => slot[b] # k
      BY <1>1, <2>1, <2>2, <2>5, <2>11, LeavesSlot
    <2>13. FailuresFit'
      BY <1>1, <2>1, <2>2, <2>5, DialsNoMore
    <2> QED
      BY <1>6, <1>7, <1>8, <2>10, <2>12, <2>13 DEF EInv
  <1> QED
    BY <1>2, <1>9, <1>10

-----------------------------------------------------------------------------
(* What a call does with an answer.                                        *)

\* The call goes on as r, and its lock is free.
LEMMA Resumes ==
  ASSUME EInv, NEW j \in Jobs, NEW r, job[j].pc = "got", O!Resume(j, r),
         r.pc \in {"idle", "connect"}, Fits(r, broker, taken), Confirmed(j, r, broker, parted),
         Decided(job[j], broker, taken) => Decided(r, broker, taken) /\ SameAim(r, job[j]),
         openId' \in [O!Acct -> Ids \cup {NULL}], cache' \in [O!Acct -> (SUBSET O!Position) \cup {NULL}]
  PROVE  EInv'
  <1> DEFINE a == job[j].acct
  <1>1. /\ job' = [job EXCEPT ![j] = r] /\ a \in O!Acct
        /\ sender' = IF sender[a] = j THEN [sender EXCEPT ![a] = NULL] ELSE sender
        /\ UNCHANGED <<client, failures, disabled, slot, wire, back, broker, taken, parted, owed, left>>
    BY RunningFits DEF O!Resume, O!Released, O!world
  <1>2. /\ job \in [Jobs -> JobRecord] /\ sender \in [O!Acct -> Jobs \cup {NULL}]
        /\ \A b \in O!Acct : sender[b] \in Jobs \cup {NULL} /\ slot[b] \in Jobs \cup {NULL}
    BY DEF EInv, JobsFit, TypesFit
  <1>3. InHand(j, r, job, broker, taken, parted)
    BY DEF InHand
  <1>4. JobsFit' /\ Onward(job, job', broker, broker', taken, taken', parted, parted')
    BY <1>1, <1>3, OneTurns
  <1>5. TypesFit'
    BY <1>1, <1>2 DEF EInv, TypesFit
  <1>6. \A b \in O!Acct : slot[b] # j
    BY OrdersAssumption DEF EInv, LocksFit
  <1>7. LocksFit'
    <2>1. /\ \A k \in Jobs : job'[k] = IF k = j THEN r ELSE job[k]
          /\ \A b \in O!Acct : sender'[b] = IF b = a /\ sender[a] = j THEN NULL ELSE sender[b]
      BY <1>1, <1>2
    <2>2. /\ \A b \in O!Acct : sender[b] # NULL =>
               job[sender[b]].acct = b /\ job[sender[b]].pc \in {"wait", "got"}
          /\ \A b \in O!Acct : slot[b] # NULL => sender[b] = slot[b] /\ job[slot[b]].pc = "wait"
          /\ \A k \in Jobs : job[k].pc = "wait" => slot[job[k].acct] = k /\ job[k].acct \in O!Acct
      BY RunningFits DEF EInv, LocksFit
    <2>3. \A b \in O!Acct : sender'[b] # NULL => sender'[b] = sender[b] /\ sender[b] # j
      BY <1>1, <2>1, <2>2
    <2>4. \A b \in O!Acct : sender'[b] # NULL =>
            job'[sender'[b]].acct = b /\ job'[sender'[b]].pc \in {"wait", "got"}
      BY <1>2, <2>1, <2>2, <2>3
    <2>5. \A b \in O!Acct : slot[b] # NULL => sender'[b] = slot[b] /\ job'[slot[b]].pc = "wait"
      BY <1>2, <1>6, <2>1, <2>2
    <2>6. \A k \in Jobs : job'[k].pc = "wait" => slot[job'[k].acct] = k
      BY <2>1, <2>2
    <2> QED
      BY <1>1, <2>4, <2>5, <2>6 DEF LocksFit
  <1>8. NothingStray'
    BY <1>1, <1>6, StrayStays
  <1>9. WireMeant' /\ BackTruthful'
    BY <1>1, <1>4, MessagesStay
  <1>10. FailuresFit'
    BY <1>1, DialsNoMore
  <1> QED
    BY <1>4, <1>5, <1>7, <1>8, <1>9, <1>10 DEF EInv

LEMMA AskingRecord ==
  ASSUME NEW r \in JobRecord, NEW what \in O!Asks
  PROVE  LET s == O!Asking(r, what) IN
         /\ s \in JobRecord /\ s.pc = "connect" /\ s.ask = what /\ s.kind = r.kind
         /\ s.acct = r.acct /\ s.side = r.side /\ s.pos = r.pos /\ s.vol = r.vol
         /\ s.result = r.result
  BY DEF JobRecord, O!Asking

LEMMA EndedRecord ==
  ASSUME NEW r \in JobRecord, NEW result \in {NULL, "ok", "closed", "failed", "raised"}
  PROVE  LET s == O!Ended(r, result) IN
         /\ s \in JobRecord /\ s.pc = "idle" /\ s.kind = r.kind /\ s.acct = r.acct
         /\ s.side = r.side /\ s.pos = r.pos /\ s.vol = r.vol /\ s.result = result
         /\ s.misled = r.misled
  BY DEF JobRecord, O!Ended

\* An entry goes on to its next request, or ends.
LEMMA EntryGoesOn ==
  ASSUME EInv, NEW j \in Jobs, job[j].pc = "got", job[j].kind = "enter", job[j].side \in Sides,
         job[j].vol \in O!Volumes, NEW r0 \in JobRecord, r0.kind = "enter", r0.side = job[j].side,
         r0.acct = job[j].acct, r0.vol = job[j].vol, NEW r,
         \/ \E what \in {"open", "checkOpen", "amend"} : r = O!Asking(r0, what)
         \/ \E result \in {NULL, "ok", "closed", "failed", "raised"} : r = O!Ended(r0, result)
  PROVE  /\ r.pc \in {"idle", "connect"} /\ Fits(r, broker, taken) /\ Confirmed(j, r, broker, parted)
         /\ Decided(job[j], broker, taken) => Decided(r, broker, taken) /\ SameAim(r, job[j])
  <1>1. ~Decided(job[j], broker, taken) /\ job[j].acct \in O!Acct
    BY RunningFits DEF Decided, Closing
  <1>2. CASE \E what \in {"open", "checkOpen", "amend"} : r = O!Asking(r0, what)
    <2>1. PICK what \in {"open", "checkOpen", "amend"} : r = O!Asking(r0, what)
      BY <1>2
    <2>2. what \in O!Asks
      BY DEF O!Asks
    <2>3. /\ r \in JobRecord /\ r.pc = "connect" /\ r.ask = what /\ r.kind = "enter"
          /\ r.acct = job[j].acct /\ r.side \in Sides /\ r.vol \in O!Volumes
      BY <2>1, <2>2, AskingRecord
    <2> QED
      BY <1>1, <2>2, <2>3 DEF Fits, Confirmed, Closing
  <1>3. CASE \E result \in {NULL, "ok", "closed", "failed", "raised"} : r = O!Ended(r0, result)
    <2>1. r \in JobRecord /\ r.pc = "idle" /\ r.kind = "enter"
      BY <1>3, EndedRecord
    <2> QED
      BY <1>1, <2>1 DEF Fits, Confirmed, Closing
  <1> QED
    BY <1>2, <1>3

\* What a call on the way to an answer has in hand.
LEMMA HasAnswer ==
  ASSUME EInv, NEW j \in Jobs, job[j].pc = "got"
  PROVE  /\ job[j] \in JobRecord /\ job[j].acct \in O!Acct /\ Fits(job[j], broker, taken)
         /\ job[j].ans \in O!Answer /\ job[j].ans.list \subseteq O!Position
         /\ Truthful(job[j].acct, job[j].ans, job, broker, taken, parted)
         /\ ~job[j].misled => job[j].ans.to = <<j, job[j].ask>>
         /\ openId \in [O!Acct -> Ids \cup {NULL}] /\ cache \in [O!Acct -> (SUBSET O!Position) \cup {NULL}]
  <1>1. job[j] \in JobRecord /\ job[j].acct \in O!Acct /\ Fits(job[j], broker, taken)
    BY RunningFits
  <1>2. InHand(j, job[j], job, broker, taken, parted)
    BY DEF EInv, JobsFit
  <1>3. job[j].ans \in O!Answer /\ Truthful(job[j].acct, job[j].ans, job, broker, taken, parted)
    BY <1>2 DEF InHand
  <1>4. job[j].ans.list \subseteq O!Position
    BY <1>3 DEF O!Answer
  <1> QED
    BY <1>1, <1>2, <1>3, <1>4 DEF InHand, EInv, TypesFit

LEMMA EntrySteps ==
  ASSUME EInv, NEW j \in Jobs, job[j].pc = "got", O!AfterSpec(j) \/ O!AfterOpen(j) \/ O!AfterAmend(j)
  PROVE  EInv'
  <1> DEFINE a == job[j].acct
             ok == [job[j] EXCEPT !.result = "ok"]
  <1>1. /\ job[j] \in JobRecord /\ a \in O!Acct /\ Fits(job[j], broker, taken)
        /\ openId \in [O!Acct -> Ids \cup {NULL}] /\ cache \in [O!Acct -> (SUBSET O!Position) \cup {NULL}]
    BY HasAnswer
  <1>2. job[j].kind = "enter" /\ job[j].side \in Sides /\ job[j].vol \in O!Volumes
    BY <1>1 DEF Fits, O!AfterSpec, O!AfterOpen, O!AfterAmend
  <1>3. /\ ok \in JobRecord /\ ok.kind = "enter" /\ ok.side = job[j].side /\ ok.acct = a
        /\ ok.vol = job[j].vol /\ ok.result = "ok"
        /\ job[j].result \in {NULL, "ok", "closed", "failed", "raised"}
    BY <1>1, <1>2 DEF JobRecord
  <1> HIDE DEF ok
  <1>4. PICK r0, r :
          /\ r0 \in {job[j], ok}
          /\ \/ \E what \in {"open", "checkOpen", "amend"} : r = O!Asking(r0, what)
             \/ \E result \in {NULL, "ok", "closed", "failed", "raised"} : r = O!Ended(r0, result)
          /\ O!Resume(j, r) /\ UNCHANGED openId
          /\ UNCHANGED cache \/ cache' = [cache EXCEPT ![a] = NULL]
    <2>1. CASE O!AfterSpec(j)
      BY <2>1 DEF O!AfterSpec
    <2>2. CASE O!AfterOpen(j)
      BY <1>3, <2>2 DEF O!AfterOpen, O!Placing, ok
    <2>3. CASE O!AfterAmend(j)
      BY <1>3, <2>3 DEF O!AfterAmend
    <2> QED
      BY <2>1, <2>2, <2>3
  <1>5. /\ r0 \in JobRecord /\ r0.kind = "enter" /\ r0.side = job[j].side /\ r0.acct = a
        /\ r0.vol = job[j].vol
    BY <1>1, <1>2, <1>3, <1>4
  <1>6. /\ r.pc \in {"idle", "connect"} /\ Fits(r, broker, taken) /\ Confirmed(j, r, broker, parted)
        /\ Decided(job[j], broker, taken) => Decided(r, broker, taken) /\ SameAim(r, job[j])
    BY <1>2, <1>4, <1>5, EntryGoesOn
  <1>7. openId' \in [O!Acct -> Ids \cup {NULL}] /\ cache' \in [O!Acct -> (SUBSET O!Position) \cup {NULL}]
    BY <1>1, <1>4
  <1> QED
    BY <1>4, <1>6, <1>7, Resumes

\* The list of positions decides whether there was an entry.
LEMMA CheckOpenStep ==
  ASSUME EInv, NEW j \in Jobs, job[j].pc = "got", O!AfterCheckOpen(j)
  PROVE  EInv'
  <1> DEFINE a == job[j].acct
             ok == [job[j] EXCEPT !.result = "ok"]
             failed == [job[j] EXCEPT !.result = "failed"]
  <1>1. /\ job[j] \in JobRecord /\ a \in O!Acct /\ Fits(job[j], broker, taken) /\ job[j].ans \in O!Answer
        /\ job[j].ans.list \subseteq O!Position
        /\ openId \in [O!Acct -> Ids \cup {NULL}] /\ cache \in [O!Acct -> (SUBSET O!Position) \cup {NULL}]
    BY HasAnswer
  <1>2. job[j].kind = "enter" /\ job[j].side \in Sides /\ job[j].vol \in O!Volumes
    BY <1>1 DEF Fits, O!AfterCheckOpen
  <1>3. /\ ok \in JobRecord /\ ok.kind = "enter" /\ ok.side = job[j].side /\ ok.acct = a
        /\ failed \in JobRecord /\ failed.kind = "enter" /\ failed.side = job[j].side
        /\ failed.acct = a /\ ok.result = "ok" /\ failed.result = "failed"
        /\ ok.vol = job[j].vol /\ failed.vol = job[j].vol
    BY <1>1, <1>2 DEF JobRecord
  <1> HIDE DEF ok, failed
  <1>4. PICK r0 \in {ok, failed}, id \in Ids \cup {NULL} :
          /\ O!Resume(j, O!Placing(r0, id))
          /\ UNCHANGED openId \/ openId' = [openId EXCEPT ![a] = id]
          /\ \/ UNCHANGED cache \/ cache' = [cache EXCEPT ![a] = NULL]
             \/ cache' = [cache EXCEPT ![a] = job[j].ans.list]
    <2>1. CASE O!OfSide(job[j].ans, job[j].side) = {}
      <3>1. openId[a] \in Ids \cup {NULL}
        BY <1>1
      <3> QED
        BY <2>1, <3>1 DEF O!AfterCheckOpen, failed
    <2>2. CASE O!OfSide(job[j].ans, job[j].side) # {}
      <3>1. PICK p \in O!OfSide(job[j].ans, job[j].side) :
              /\ cache' = [cache EXCEPT ![a] = NULL] /\ openId' = [openId EXCEPT ![a] = p.id]
              /\ O!Resume(j, O!Placing(ok, p.id))
        BY <2>2 DEF O!AfterCheckOpen, ok
      <3>2. p.id \in Ids
        BY <1>1 DEF O!OfSide, O!Position
      <3> QED
        BY <3>1, <3>2
    <2> QED
      BY <2>1, <2>2
  <1> DEFINE r == O!Placing(r0, id)
  <1>5. r = O!Asking(r0, "amend") \/ r = O!Ended(r0, r0.result)
    BY DEF O!Placing
  <1>6. /\ r0 \in JobRecord /\ r0.kind = "enter" /\ r0.side = job[j].side /\ r0.acct = a
        /\ r0.vol = job[j].vol /\ r0.result \in {NULL, "ok", "closed", "failed", "raised"}
    BY <1>3
  <1> HIDE DEF r
  <1>7. /\ r.pc \in {"idle", "connect"} /\ Fits(r, broker, taken) /\ Confirmed(j, r, broker, parted)
        /\ Decided(job[j], broker, taken) => Decided(r, broker, taken) /\ SameAim(r, job[j])
    BY <1>2, <1>5, <1>6, EntryGoesOn
  <1>8. openId' \in [O!Acct -> Ids \cup {NULL}] /\ cache' \in [O!Acct -> (SUBSET O!Position) \cup {NULL}]
    BY <1>1, <1>4
  <1>9. O!Resume(j, r)
    BY <1>4 DEF r
  <1> QED
    BY <1>7, <1>8, <1>9, Resumes

\* A close gives up; or it asks on, with a position in mind.
LEMMA CloserGoesOn ==
  ASSUME EInv, NEW j \in Jobs, job[j].pc = "got", Closing(job[j]),
         NEW r0 \in JobRecord, r0.kind = job[j].kind, r0.acct \in O!Acct,
         r0.result \notin {"ok", "closed"}, NEW r,
         \/ r0 = job[j] /\ \E result \in {"failed", "raised"} : r = O!Ended(r0, result)
         \/ /\ \E what \in {"close", "checkClose"} : r = O!Asking(r0, what)
            /\ r0.pos \in taken /\ r0.vol \in O!Volumes
            /\ r0.kind = "exit" => \A p \in broker : p.id = r0.pos => p.vol <= r0.vol
            /\ job[j].ask # "find" => SameAim(r0, job[j])
  PROVE  /\ r.pc \in {"idle", "connect"} /\ Fits(r, broker, taken)
         /\ Confirmed(j, r, broker, parted)
         /\ Decided(job[j], broker, taken) => Decided(r, broker, taken) /\ SameAim(r, job[j])
  <1>1. CASE r0 = job[j] /\ \E result \in {"failed", "raised"} : r = O!Ended(r0, result)
    <2>1. PICK result \in {"failed", "raised"} : r = O!Ended(r0, result)
      BY <1>1
    <2>2. /\ r \in JobRecord /\ r.pc = "idle" /\ SameAim(r, job[j]) /\ r.result = result
      BY <1>1, <2>1, EndedRecord DEF SameAim
    <2> QED
      BY <2>2 DEF Fits, Confirmed, Decided, Closing, SameAim
  <1>2. CASE /\ \E what \in {"close", "checkClose"} : r = O!Asking(r0, what)
             /\ r0.pos \in taken /\ r0.vol \in O!Volumes
             /\ r0.kind = "exit" => \A p \in broker : p.id = r0.pos => p.vol <= r0.vol
             /\ job[j].ask # "find" => SameAim(r0, job[j])
    <2>1. PICK what \in {"close", "checkClose"} : r = O!Asking(r0, what)
      BY <1>2
    <2>2. what \in O!Asks
      BY DEF O!Asks
    <2>3. /\ r \in JobRecord /\ r.pc = "connect" /\ r.ask = what /\ SameAim(r, r0)
          /\ r.result = r0.result /\ r.acct = r0.acct
      BY <2>1, <2>2, AskingRecord DEF SameAim
    <2>4. Decided(r, broker, taken)
      BY <1>2, <2>3 DEF Decided, Closing, SameAim
    <2>5. Fits(r, broker, taken) /\ Confirmed(j, r, broker, parted)
      BY <2>2, <2>3, <2>4 DEF Fits, Confirmed, Decided
    <2>6. Decided(job[j], broker, taken) => SameAim(r, job[j])
      BY <1>2, <2>3 DEF Decided, SameAim
    <2> QED
      BY <2>3, <2>4, <2>5, <2>6
  <1> QED
    BY <1>1, <1>2

\* The operators of the instance are the library's.
LEMMA SameCount == \A S : O!Cardinality(S) = Cardinality(S)
  BY DEF O!Cardinality, Cardinality
LEMMA AccountsAre == O!Acct = {Accounts[i] : i \in 1 .. Len(Accounts)} /\ O!Acct = ToSet(Accounts)
  BY OrdersAssumption DEF O!Acct, O!ToSet, ToSet

LEMMA FindStep == ASSUME EInv, NEW j \in Jobs, job[j].pc = "got", O!AfterFind(j) PROVE EInv'
  <1> DEFINE a == job[j].acct
             m == job[j].ans
             found == O!OfSide(m, job[j].side)
             p == CHOOSE q \in found : TRUE
             r0 == [job[j] EXCEPT !.pos = p.id, !.vol = p.vol]
  <1>1. /\ job[j] \in JobRecord /\ a \in O!Acct /\ Fits(job[j], broker, taken)
        /\ m \in O!Answer /\ m.list \subseteq O!Position /\ Truthful(a, m, job, broker, taken, parted)
        /\ openId \in [O!Acct -> Ids \cup {NULL}] /\ cache \in [O!Acct -> (SUBSET O!Position) \cup {NULL}]
    BY HasAnswer
  <1>2. Closing(job[j]) /\ job[j].result \notin {"ok", "closed"} /\ job[j].ask = "find"
    BY <1>1 DEF Fits, O!AfterFind, Closing
  <1>3. openId' \in [O!Acct -> Ids \cup {NULL}] /\ cache' \in [O!Acct -> (SUBSET O!Position) \cup {NULL}]
    BY <1>1 DEF O!AfterFind
  <1>4. PICK r :
          /\ O!Resume(j, r)
          /\ \/ \E result \in {"failed", "raised"} : r = O!Ended(job[j], result)
             \/ Cardinality(found) = 1 /\ r = O!Asking(r0, "close")
    BY SameCount DEF O!AfterFind, O!CloseVolume
  <1>5. CASE \E result \in {"failed", "raised"} : r = O!Ended(job[j], result)
    <2>1. /\ r.pc \in {"idle", "connect"} /\ Fits(r, broker, taken) /\ Confirmed(j, r, broker, parted)
          /\ Decided(job[j], broker, taken) => Decided(r, broker, taken) /\ SameAim(r, job[j])
      BY <1>1, <1>2, <1>5, CloserGoesOn
    <2> QED
      BY <1>3, <1>4, <2>1, Resumes
  <1>6. CASE Cardinality(found) = 1 /\ r = O!Asking(r0, "close")
    <2>1. found # {}
      BY <1>6, FS_EmptySet
    <2>2. p \in m.list
      BY <2>1 DEF O!OfSide
    <2>3. /\ p.id \in taken /\ p.id \in Ids /\ p.vol \in O!Volumes
          /\ \A q \in broker : q.id = p.id => q.vol <= p.vol
      BY <1>1, <2>2 DEF Truthful, EInv, TypesFit, O!Position
    <2> HIDE DEF p
    <2>4. r0 = [job[j] EXCEPT !.pos = p.id, !.vol = p.vol]
      OBVIOUS
    <2>5. /\ r0 \in JobRecord /\ r0.pos = p.id /\ r0.vol = p.vol /\ r0.kind = job[j].kind
          /\ r0.acct = a /\ r0.result = job[j].result
      BY <1>1, <2>3, <2>4 DEF JobRecord
    <2> HIDE DEF r0
    <2>6. /\ r.pc \in {"idle", "connect"} /\ Fits(r, broker, taken) /\ Confirmed(j, r, broker, parted)
          /\ Decided(job[j], broker, taken) => Decided(r, broker, taken) /\ SameAim(r, job[j])
      BY <1>1, <1>2, <1>6, <2>3, <2>5, CloserGoesOn DEF Closing
    <2> QED
      BY <1>3, <1>4, <2>6, Resumes
  <1> QED
    BY <1>4, <1>5, <1>6

\* The close counts as done.
LEMMA Succeeds ==
  ASSUME EInv, NEW j \in Jobs, job[j].pc = "got", Closing(job[j]), job[j].pos \in taken,
         job[j].vol \in O!Volumes, NEW result \in {"ok", "closed"}, O!Succeeded(j, result),
         ~job[j].misled =>
           /\ result = "closed" => GoneFrom(job[j].acct, job[j].pos, broker)
           /\ result = "ok" => j \in parted \/ Shrunk(job[j], broker)
  PROVE  EInv'
  <1> DEFINE a == job[j].acct
             r == O!Ended(job[j], result)
  <1>1. /\ job[j] \in JobRecord /\ a \in O!Acct
        /\ openId \in [O!Acct -> Ids \cup {NULL}] /\ cache \in [O!Acct -> (SUBSET O!Position) \cup {NULL}]
    BY HasAnswer
  <1>2. /\ r \in JobRecord /\ r.pc = "idle" /\ SameAim(r, job[j]) /\ r.result = result
        /\ r.acct = a /\ r.misled = job[j].misled
    BY <1>1, EndedRecord DEF SameAim
  <1>3. /\ O!Resume(j, r)
        /\ UNCHANGED openId \/ openId' = [openId EXCEPT ![a] = NULL]
        /\ cache' = [cache EXCEPT ![a] = NULL]
    BY DEF O!Succeeded
  <1> HIDE DEF r
  <1>4. Fits(r, broker, taken)
    BY <1>2 DEF Fits, SameAim
  <1>5. Decided(job[j], broker, taken) => Decided(r, broker, taken) /\ SameAim(r, job[j])
    BY <1>2 DEF Decided, Closing, SameAim
  <1>7. Confirmed(j, r, broker, parted)
    BY <1>2 DEF Confirmed, SameAim, Shrunk
  <1>6. openId' \in [O!Acct -> Ids \cup {NULL}] /\ cache' \in [O!Acct -> (SUBSET O!Position) \cup {NULL}]
    BY <1>1, <1>3
  <1> QED
    BY <1>2, <1>3, <1>4, <1>5, <1>6, <1>7, Resumes

LEMMA CloseStep == ASSUME EInv, NEW j \in Jobs, job[j].pc = "got", O!AfterClose(j) PROVE EInv'
  <1>1. /\ job[j] \in JobRecord /\ job[j].acct \in O!Acct /\ Fits(job[j], broker, taken)
        /\ Truthful(job[j].acct, job[j].ans, job, broker, taken, parted)
        /\ ~job[j].misled => job[j].ans.to = <<j, job[j].ask>>
        /\ openId \in [O!Acct -> Ids \cup {NULL}] /\ cache \in [O!Acct -> (SUBSET O!Position) \cup {NULL}]
    BY HasAnswer
  <1>2. /\ Closing(job[j]) /\ job[j].result \notin {"ok", "closed"} /\ job[j].ask = "close"
        /\ Decided(job[j], broker, taken)
    BY <1>1 DEF Fits, O!AfterClose, Decided
  <1>3. CASE O!Nothing(job[j].ans)
    <2> DEFINE r == O!Asking(job[j], "checkClose")
    <2>1. O!Resume(j, r) /\ UNCHANGED <<openId, cache>>
      BY <1>3 DEF O!AfterClose
    <2> HIDE DEF r
    <2>2. /\ r.pc \in {"idle", "connect"} /\ Fits(r, broker, taken) /\ Confirmed(j, r, broker, parted)
          /\ Decided(job[j], broker, taken) => Decided(r, broker, taken) /\ SameAim(r, job[j])
      BY <1>1, <1>2, CloserGoesOn DEF r, Decided, SameAim
    <2> QED
      BY <1>1, <2>1, <2>2, Resumes
  <1>4. CASE ~O!Nothing(job[j].ans)
    <2>1. ~job[j].misled => j \in parted \/ Shrunk(job[j], broker)
      BY <1>1, <1>2, <1>4 DEF Truthful
    <2> QED
      BY <1>2, <1>4, <2>1, Succeeds DEF O!AfterClose, Decided
  <1> QED
    BY <1>3, <1>4

LEMMA CheckCloseStep ==
  ASSUME EInv, NEW j \in Jobs, job[j].pc = "got", O!AfterCheckClose(j)
  PROVE  EInv'
  <1>1. /\ job[j] \in JobRecord /\ job[j].acct \in O!Acct /\ Fits(job[j], broker, taken)
        /\ job[j].ans \in O!Answer /\ job[j].ans.list \subseteq O!Position
        /\ Truthful(job[j].acct, job[j].ans, job, broker, taken, parted)
        /\ ~job[j].misled => job[j].ans.to = <<j, job[j].ask>>
        /\ openId \in [O!Acct -> Ids \cup {NULL}] /\ cache \in [O!Acct -> (SUBSET O!Position) \cup {NULL}]
    BY HasAnswer
  <1>2. /\ Closing(job[j]) /\ job[j].result \notin {"ok", "closed"} /\ job[j].ask = "checkClose"
        /\ Decided(job[j], broker, taken)
    BY <1>1 DEF Fits, O!AfterCheckClose, Decided
  <1>3. CASE O!Confirmed(j)
    <2>1. ~job[j].misled => GoneFrom(job[j].acct, job[j].pos, broker)
      BY <1>1, <1>2, <1>3 DEF Truthful, O!Confirmed
    <2> QED
      BY <1>2, <1>3, <2>1, Succeeds DEF O!AfterCheckClose, Decided
  <1>4. CASE ~O!Confirmed(j)
    <2> DEFINE i == CHOOSE k \in DOMAIN Accounts : Accounts[k] = job[j].acct
               r0 == [job[j] EXCEPT !.acct = Accounts[i + 1]]
               r == O!NextAccount(j, job[j])
    <2>1. /\ O!Resume(j, r) /\ UNCHANGED openId
          /\ UNCHANGED cache \/ cache' = [cache EXCEPT ![job[j].acct] = job[j].ans.list]
      BY <1>4 DEF O!AfterCheckClose
    <2>2. openId' \in [O!Acct -> Ids \cup {NULL}] /\ cache' \in [O!Acct -> (SUBSET O!Position) \cup {NULL}]
      BY <1>1, <2>1
    <2>3. CASE job[j].kind = "byId" /\ i < Len(Accounts)
      <3>1. i \in 1 .. Len(Accounts)
        <4>1. DOMAIN Accounts = 1 .. Len(Accounts)
          BY OrdersAssumption
        <4>2. \E k \in DOMAIN Accounts : Accounts[k] = job[j].acct
          BY <1>1, <4>1, AccountsAre
        <4> QED
          BY <4>1, <4>2
      <3>2. r = O!Asking(r0, "close")
        BY <2>3 DEF O!NextAccount
      <3> HIDE DEF i
      <3>3. Accounts[i + 1] \in O!Acct
        <4>1. i + 1 \in 1 .. Len(Accounts)
          BY <2>3, <3>1, OrdersAssumption
        <4> QED
          BY <4>1, AccountsAre
      <3>4. /\ r0 \in JobRecord /\ r0.acct = Accounts[i + 1] /\ r0.kind = job[j].kind
            /\ SameAim(r0, job[j]) /\ r0.result = job[j].result
        BY <1>1, <3>3 DEF JobRecord, SameAim
      <3> HIDE DEF r0, r
      <3>5. /\ r.pc \in {"idle", "connect"} /\ Fits(r, broker, taken) /\ Confirmed(j, r, broker, parted)
            /\ Decided(job[j], broker, taken) => Decided(r, broker, taken) /\ SameAim(r, job[j])
        BY <1>2, <3>2, <3>3, <3>4, CloserGoesOn DEF Closing, Decided, SameAim
      <3> QED
        BY <2>1, <2>2, <3>5, Resumes
    <2>4. CASE ~(job[j].kind = "byId" /\ i < Len(Accounts))
      <3>1. r = O!Ended(job[j], "failed")
        BY <2>4 DEF O!NextAccount
      <3> HIDE DEF r
      <3>2. /\ r.pc \in {"idle", "connect"} /\ Fits(r, broker, taken) /\ Confirmed(j, r, broker, parted)
            /\ Decided(job[j], broker, taken) => Decided(r, broker, taken) /\ SameAim(r, job[j])
        BY <1>1, <1>2, <3>1, CloserGoesOn
      <3> QED
        BY <2>1, <2>2, <3>2, Resumes
    <2> QED
      BY <2>3, <2>4
  <1> QED
    BY <1>3, <1>4

LEMMA GoStep == ASSUME EInv, NEW j \in Jobs, O!Go(j) PROVE EInv'
  BY EntrySteps, CheckOpenStep, FindStep, CloseStep, CheckCloseStep DEF O!Go

-----------------------------------------------------------------------------
(* A call comes in.                                                        *)

LEMMA NotDoneYet == NULL # "ok" /\ NULL # "closed"
  BY OrdersAssumption

LEMMA BeginStep ==
  ASSUME EInv, NEW j \in Jobs, NEW r0 \in JobRecord, NEW what \in O!Asks, O!Begin(j, r0, what),
         Fits(O!Asking(r0, what), broker, taken), r0.result = NULL
  PROVE  EInv'
  <1> DEFINE r == O!Asking(r0, what)
  <1>1. /\ job[j].pc = "idle" /\ job[j].kind = "none" /\ job' = [job EXCEPT ![j] = r]
        /\ UNCHANGED <<client, failures, disabled, sender, slot, openId, cache, wire, back, broker,
                       taken, parted, owed, left>>
    BY DEF O!Begin, O!Idle, O!world
  <1>2. r.pc = "connect" /\ r.result = NULL /\ r \in JobRecord
    BY AskingRecord
  <1> HIDE DEF r
  <1>3. Fits(r, broker, taken)
    BY DEF r
  <1>4. Confirmed(j, r, broker, parted) /\ InHand(j, r, job, broker, taken, parted)
    BY <1>2, NotDoneYet DEF Confirmed, InHand
  <1>5. ~Decided(job[j], broker, taken)
    BY <1>1 DEF Decided, Closing
  <1>6. JobsFit' /\ Onward(job, job', broker, broker', taken, taken', parted, parted')
    BY <1>1, <1>3, <1>4, <1>5, OneTurns
  <1>7. FailuresFit'
    BY <1>1, <1>2, DialsNoMore
  <1> QED
    BY <1>1, <1>2, <1>6, <1>7, QuietTurn

LEMMA StartsStep == ASSUME EInv, LeftFits, NEW j \in Jobs, O!Starts(j) PROVE EInv'
  <1>1. ASSUME NEW a \in Traded, NEW s \in Sides, NEW v \in OrderVolumes, O!Enter(j, a, s, v)
        PROVE  EInv'
    <2> DEFINE r0 == [O!Idle EXCEPT !.kind = "enter", !.acct = a, !.side = s, !.vol = v]
    <2>1. a \in O!Acct /\ v \in O!Volumes
      BY AccountsAre, OrdersAssumption DEF O!Volumes
    <2>2. /\ r0 \in JobRecord /\ r0.kind = "enter" /\ r0.acct = a /\ r0.side = s
          /\ r0.vol = v /\ r0.result = NULL
      BY <2>1 DEF JobRecord, O!Idle
    <2>3. PICK what \in {"spec", "open"} : O!Begin(j, r0, what)
      BY <1>1 DEF O!Enter
    <2>4. what \in O!Asks
      BY DEF O!Asks
    <2> HIDE DEF r0
    <2>5. Fits(O!Asking(r0, what), broker, taken)
      BY <2>1, <2>2, <2>4, AskingRecord DEF Fits, Closing
    <2> QED
      BY <2>2, <2>3, <2>4, <2>5, BeginStep
  <1>2. ASSUME NEW a \in Traded, NEW s \in Sides, O!Exit(j, a, s) PROVE EInv'
    <2> DEFINE r0 == [O!Idle EXCEPT !.kind = "exit", !.acct = a, !.side = s]
    <2>1. a \in O!Acct
      BY AccountsAre, OrdersAssumption
    <2>2. /\ r0 \in JobRecord /\ r0.kind = "exit" /\ r0.acct = a /\ r0.side = s
          /\ r0.result = NULL
      BY <2>1 DEF JobRecord, O!Idle
    <2>3. O!Begin(j, r0, "find") /\ "find" \in O!Asks
      BY <1>2 DEF O!Exit, O!Asks
    <2> HIDE DEF r0
    <2>4. Fits(O!Asking(r0, "find"), broker, taken)
      BY <2>1, <2>2, <2>3, AskingRecord, NotDoneYet DEF Fits, Closing
    <2> QED
      BY <2>2, <2>3, <2>4, BeginStep
  <1>3. ASSUME NEW p \in broker, NEW v \in left.closes, O!CloseById(j, p, v) PROVE EInv'
    <2> DEFINE r0 == [O!Idle EXCEPT !.kind = "byId", !.acct = Head(Accounts), !.pos = p.id,
                                    !.vol = v]
    <2>1. Head(Accounts) \in O!Acct
      BY AccountsAre, OrdersAssumption
    <2>2. p.id \in taken /\ p.id \in Ids /\ v \in O!Volumes
      BY DEF EInv, TypesFit, IdsFit, LeftFits
    <2>3. /\ r0 \in JobRecord /\ r0.kind = "byId" /\ r0.acct = Head(Accounts) /\ r0.pos = p.id
          /\ r0.vol = v /\ r0.result = NULL
      BY <2>1, <2>2 DEF JobRecord, O!Idle
    <2>4. O!Begin(j, r0, "close") /\ "close" \in O!Asks
      BY <1>3 DEF O!CloseById, O!Asks
    <2> HIDE DEF r0
    <2>5. LET r == O!Asking(r0, "close") IN Fits(r, broker, taken)
      BY <2>1, <2>2, <2>3, <2>4, AskingRecord, NotDoneYet DEF Fits, Closing, Decided
    <2> QED
      BY <2>3, <2>4, <2>5, BeginStep
  <1> QED
    BY <1>1, <1>2, <1>3 DEF O!Starts

-----------------------------------------------------------------------------
(* The connection and the broker.                                          *)

\* What a call has and knows stays true whatever the broker does.
LEMMA JobsRest ==
  ASSUME EInv, job' = job, Onward(job, job', broker, broker', taken, taken', parted, parted')
  PROVE  JobsFit'
  <1>1. \A a, m : Truthful(a, m, job, broker, taken, parted)
             => Truthful(a, m, job', broker', taken', parted')
    BY TruthStays
  <1>2. ASSUME NEW j \in Jobs
        PROVE  /\ Fits(job[j], broker', taken') /\ Confirmed(j, job[j], broker', parted')
               /\ InHand(j, job[j], job', broker', taken', parted')
    <2>1. /\ Fits(job[j], broker, taken) /\ Confirmed(j, job[j], broker, parted)
          /\ InHand(j, job[j], job, broker, taken, parted)
      BY DEF EInv, JobsFit
    <2>2. Fits(job[j], broker', taken')
      BY <2>1 DEF Fits, Onward, Decided, Closing
    <2>3. Confirmed(j, job[j], broker', parted')
      <3>1. ASSUME Closing(job[j]), ~job[j].misled, job[j].result = "closed"
            PROVE  GoneFrom(job[j].acct, job[j].pos, broker')
        BY <2>1, <3>1 DEF Confirmed, Fits, GoneFrom, Onward, NoneGrows
      <3>2. ASSUME Closing(job[j]), ~job[j].misled, job[j].result = "ok"
            PROVE  j \in parted' \/ Shrunk(job[j], broker')
        <4>1. j \in parted \/ Shrunk(job[j], broker)
          BY <2>1, <3>2 DEF Confirmed
        <4>2. job[j].pos \in taken /\ job[j].vol \in O!Volumes /\ SameAim(job[j], job[j])
          BY <2>1, <3>2 DEF Fits, SameAim
        <4>3. Shrunk(job[j], broker) => Shrunk(job[j], broker')
          BY <4>2, ShrunkStays DEF Onward
        <4> QED
          BY <4>1, <4>3 DEF Onward
      <3> QED
        BY <3>1, <3>2 DEF Confirmed
    <2>4. InHand(j, job[j], job', broker', taken', parted')
      BY <1>1, <2>1 DEF InHand
    <2> QED
      BY <2>2, <2>3, <2>4
  <1> QED
    BY <1>2 DEF EInv, JobsFit

LEMMA CutSteps ==
  ASSUME EInv, NEW a \in O!Acct, O!Drop(a) \/ O!IdleDisconnect(a)
  PROVE  EInv'
  <1>1. /\ client' \in [O!Acct -> {"none", "up", "authed"}] /\ O!Cut(a)
        /\ UNCHANGED <<failures, disabled, sender, slot, openId, cache, job, broker, taken, parted>>
    BY DEF O!Drop, O!IdleDisconnect, EInv, TypesFit
  <1>2. Onward(job, job', broker, broker', taken, taken', parted, parted')
    BY <1>1, NothingNew, MovesOnward DEF EInv, TypesFit
  <1>3. NothingStray' /\ WireMeant' /\ BackTruthful'
    BY <1>1, <1>2, CutStays
  <1>4. TypesFit'
    BY <1>1 DEF EInv, TypesFit, O!Cut
  <1>5. JobsFit'
    BY <1>1, <1>2, JobsRest
  <1>6. LocksFit' /\ FailuresFit'
    BY <1>1 DEF EInv, LocksFit, FailuresFit, Diallers
  <1> QED
    BY <1>3, <1>4, <1>5, <1>6 DEF EInv

LEMMA ReauthedStep == ASSUME EInv, NEW a \in O!Acct, O!Reauthed(a) PROVE EInv'
  <1>1. /\ client' = [client EXCEPT ![a] = "authed"]
        /\ UNCHANGED <<failures, disabled, sender, slot, openId, cache, job, wire, back, broker,
                       taken, parted, owed>>
    BY DEF O!Reauthed, O!world
  <1>2. TypesFit'
    BY <1>1 DEF EInv, TypesFit
  <1>3. JobsFit'
    BY <1>1, JobsRest, NothingNew, MovesOnward DEF EInv, TypesFit
  <1>4. LocksFit' /\ FailuresFit'
    BY <1>1 DEF EInv, LocksFit, FailuresFit, Diallers
  <1>5. NothingStray' /\ WireMeant' /\ BackTruthful'
    BY <1>1 DEF EInv, NothingStray, WireMeant, BackTruthful
  <1> QED
    BY <1>2, <1>3, <1>4, <1>5 DEF EInv

\* More to say, all of it true, goes on the way back.
LEMMA BackGrows ==
  ASSUME EInv, NEW a \in O!Acct, NEW says \in Seq(O!Answer), back' = [back EXCEPT ![a] = @ \o says],
         Onward(job, job', broker, broker', taken, taken', parted, parted'),
         \A i \in 1 .. Len(says) : Truthful(a, says[i], job', broker', taken', parted')
  PROVE  BackTruthful' /\ back' \in [O!Acct -> Seq(O!Answer)]
  <1>1. back \in [O!Acct -> Seq(O!Answer)] /\ back[a] \in Seq(O!Answer)
    BY DEF EInv, TypesFit
  <1>2. back' \in [O!Acct -> Seq(O!Answer)]
    BY <1>1
  <1>3. \A b, m : Truthful(b, m, job, broker, taken, parted)
             => Truthful(b, m, job', broker', taken', parted')
    BY TruthStays
  <1>4. ASSUME NEW b \in O!Acct, NEW i \in 1 .. Len(back'[b])
        PROVE  Truthful(b, back'[b][i], job', broker', taken', parted')
    <2>1. CASE b # a
      BY <1>1, <1>3, <2>1 DEF EInv, BackTruthful
    <2>2. CASE b = a
      <3>1. back'[b] = back[a] \o says
        BY <1>1, <2>2
      <3>2. CASE i <= Len(back[a])
        <4>1. back'[b][i] = back[a][i] /\ i \in 1 .. Len(back[a])
          BY <1>1, <3>1, <3>2
        <4> QED
          BY <1>3, <2>2, <4>1 DEF EInv, BackTruthful
      <3>3. CASE i > Len(back[a])
        <4>1. back'[b][i] = says[i - Len(back[a])] /\ i - Len(back[a]) \in 1 .. Len(says)
          BY <1>1, <3>1, <3>3
        <4> QED
          BY <2>2, <4>1
      <3> QED
        BY <1>1, <3>2, <3>3
    <2> QED
      BY <2>1, <2>2
  <1> QED
    BY <1>2, <1>4 DEF BackTruthful

\* The broker answers the oldest request with says.
LEMMA AnswerStep ==
  ASSUME EInv, NEW a \in O!Acct, wire[a] # <<>>, wire' = [wire EXCEPT ![a] = Tail(@)],
         NEW says \in Seq(O!Answer), back' = [back EXCEPT ![a] = @ \o says], Len(says) \in {1, 2},
         \A i \in 1 .. Len(says) : /\ Truthful(a, says[i], job', broker', taken', parted')
                                   /\ says[i].to = <<Head(wire[a]).by, Head(wire[a]).ask>>,
         owed' = IF Len(says) > 1 THEN owed \cup {a} ELSE owed,
         UNCHANGED <<client, failures, disabled, sender, slot, openId, cache, job>>,
         Onward(job, job', broker, broker', taken, taken', parted, parted'),
         taken' \subseteq Ids, parted' \subseteq Jobs, IdsFit(broker', taken')
  PROVE  EInv'
  <1>1. /\ wire \in [O!Acct -> Seq(Request)] /\ wire[a] \in Seq(Request)
        /\ back \in [O!Acct -> Seq(O!Answer)] /\ back[a] \in Seq(O!Answer)
    BY DEF EInv, TypesFit
  <1>2. BackTruthful' /\ back' \in [O!Acct -> Seq(O!Answer)]
    BY BackGrows
  <1>3. wire' \in [O!Acct -> Seq(Request)]
    BY <1>1
  <1>4. TypesFit'
    BY <1>2, <1>3 DEF EInv, TypesFit, Onward, NoneGrows
  <1>5. JobsFit'
    BY JobsRest
  <1>6. LocksFit' /\ FailuresFit'
    BY DEF EInv, LocksFit, FailuresFit, Diallers
  <1>7. WireMeant'
    <2>1. \A q \in Request : Meant(q, job, broker, taken) => Meant(q, job', broker', taken')
      BY MeantStays
    <2> SUFFICES ASSUME NEW b \in O!Acct, NEW i \in 1 .. Len(wire'[b])
                 PROVE  Meant(wire'[b][i], job', broker', taken')
      BY DEF WireMeant
    <2>2. CASE b = a
      <3>1. /\ wire'[b] = Tail(wire[a]) /\ Len(wire'[b]) = Len(wire[a]) - 1
            /\ Len(wire[a]) \in Nat
        BY <1>1, <2>2
      <3>2. i + 1 \in 1 .. Len(wire[a]) /\ wire'[b][i] = wire[a][i + 1]
        <4>1. i + 1 \in 1 .. Len(wire[a]) /\ i \in 1 .. (Len(wire[a]) - 1)
          BY <3>1
        <4>2. Tail(wire[a])[i] = wire[a][i + 1]
          BY <1>1, <4>1
        <4> QED
          BY <3>1, <4>1, <4>2
      <3>3. wire[a][i + 1] \in Request
        BY <1>1, <3>2
      <3> QED
        BY <2>1, <3>2, <3>3 DEF EInv, WireMeant
    <2>3. CASE b # a
      <3>1. wire'[b] = wire[b] /\ wire[b][i] \in Request
        BY <1>1, <2>3
      <3> QED
        BY <2>1, <3>1 DEF EInv, WireMeant
    <2> QED
      BY <2>2, <2>3
  <1>8. NothingStray'
    <2> SUFFICES ASSUME NEW b \in O!Acct \ owed'
                 PROVE  OneUnderWay(wire'[b], back'[b], slot[b], job[slot[b]].ask)
      BY DEF NothingStray
    <2>1. b \notin owed /\ OneUnderWay(wire[b], back[b], slot[b], job[slot[b]].ask)
      BY DEF EInv, NothingStray
    <2>2. CASE b = a
      <3>1. Len(says) = 1
        BY <2>2
      <3>2. /\ Len(wire[a]) = 1 /\ back[a] = <<>> /\ slot[a] # NULL
            /\ wire[a][1].by = slot[a] /\ wire[a][1].ask = job[slot[a]].ask
        BY <2>1, <2>2 DEF OneUnderWay
      <3>3. wire'[a] = <<>> /\ back'[a] = says
        BY <1>1, <3>2
      <3>4. says[1].to = <<slot[a], job[slot[a]].ask>>
        BY <1>1, <3>1, <3>2
      <3> QED
        BY <2>2, <3>1, <3>2, <3>3, <3>4 DEF OneUnderWay
    <2>3. CASE b # a
      BY <1>1, <2>1, <2>3
    <2> QED
      BY <2>2, <2>3
  <1> QED
    BY <1>2, <1>4, <1>5, <1>6, <1>7, <1>8 DEF EInv

\* What is said of an order: one or two answers with the request's tag.
LEMMA TellsAre ==
  ASSUME NEW q \in Request, NEW id \in Ids, NEW w, NEW v, NEW says \in O!Tells(q, id, w, v)
  PROVE  /\ says \in Seq(O!Answer) /\ Len(says) \in {1, 2}
         /\ \A i \in 1 .. Len(says) : says[i].to = <<q.by, q.ask>> /\ says[i].list = {}
  <1> DEFINE tag == <<q.by, q.ask>>
             filled == [kind |-> "filled", id |-> id, list |-> {}, to |-> tag]
             event == [kind |-> "event", id |-> NULL, list |-> {}, to |-> tag]
  <1>1. tag \in O!Tag
    BY DEF O!Tag, Request
  <1> HIDE DEF tag
  <1>2. filled \in O!Answer /\ event \in O!Answer
    BY <1>1 DEF O!Answer
  <1>3. \E x, y \in {filled, event} : says = <<x>> \/ says = <<x, y>>
    BY DEF O!Tells, O!Told, tag
  <1>4. filled.to = tag /\ filled.list = {} /\ event.to = tag /\ event.list = {}
    OBVIOUS
  <1> HIDE DEF filled, event
  <1>5. PICK x, y \in {filled, event} : says = <<x>> \/ says = <<x, y>>
    BY <1>3
  <1>6. CASE says = <<x>>
    BY <1>2, <1>4, <1>6 DEF tag
  <1>7. CASE says = <<x, y>>
    <2>1. says \in Seq(O!Answer) /\ Len(says) = 2 /\ says[1] = x /\ says[2] = y
      BY <1>2, <1>7
    <2>2. \A i \in 1 .. Len(says) : i = 1 \/ i = 2
      BY <2>1
    <2> QED
      BY <1>4, <2>1, <2>2 DEF tag
  <1> QED
    BY <1>5, <1>6, <1>7

\* An order is carried out, a position is closed, or nothing changes: what the broker says
\* of it is true, and it uses no id twice.
LEMMA SaysTheTruth ==
  ASSUME EInv, NEW a \in O!Acct, wire[a] # <<>>, job' = job, NEW says,
         \/ O!Opens(a, Head(wire[a]), says) \/ O!Closes(a, Head(wire[a]), says)
         \/ O!Replies(a, Head(wire[a]), says)
  PROVE  /\ says \in Seq(O!Answer) /\ Len(says) \in {1, 2}
         /\ \A i \in 1 .. Len(says) : /\ Truthful(a, says[i], job', broker', taken', parted')
                                      /\ says[i].to = <<Head(wire[a]).by, Head(wire[a]).ask>>
         /\ Onward(job, job', broker, broker', taken, taken', parted, parted')
         /\ taken' \subseteq Ids /\ parted' \subseteq Jobs /\ IdsFit(broker', taken')
  <1> DEFINE q == Head(wire[a])
  <1>1. q \in Request /\ Meant(q, job, broker, taken)
    <2>1. wire[a] \in Seq(Request) /\ q = wire[a][1] /\ 1 \in 1 .. Len(wire[a])
      BY DEF EInv, TypesFit
    <2> QED
      BY <2>1 DEF EInv, WireMeant
  <1>2. /\ broker \subseteq O!Position /\ taken \subseteq Ids /\ parted \subseteq Jobs
        /\ IdsFit(broker, taken)
        /\ \A p \in O!Position : p.vol \in Nat /\ p.full \in Nat
    BY OrdersAssumption DEF EInv, TypesFit, O!Position, O!Volumes
  <1>3. q.by \in Jobs /\ q.ask \in O!Asks
    BY <1>1 DEF Request
  <1> HIDE DEF q
  <1>4. CASE O!Opens(a, q, says)
    <2>1. PICK id \in O!NextId, w \in 0 .. q.vol :
            /\ q.ask = "open" /\ says \in O!Tells(q, id, w, q.vol) /\ parted' = parted
            /\ IF w = 0 THEN UNCHANGED <<broker, taken>>
               ELSE /\ broker' = broker \cup
                         {[id |-> id, acct |-> a, side |-> q.side, vol |-> w, full |-> w]}
                    /\ taken' = taken \cup {id}
      BY <1>4 DEF O!Opens
    <2>2. id \in Ids /\ id \notin taken
      BY DEF O!NextId
    <2>3. /\ says \in Seq(O!Answer) /\ Len(says) \in {1, 2}
          /\ \A i \in 1 .. Len(says) : says[i].to = <<q.by, q.ask>> /\ says[i].list = {}
      BY <1>1, <2>1, <2>2, TellsAre
    <2>4. \A i \in 1 .. Len(says) : Truthful(a, says[i], job', broker', taken', parted')
      BY <2>1, <2>3 DEF Truthful
    <2>5. /\ NoneGrows(broker, broker', taken) /\ taken \subseteq taken' /\ taken' \subseteq Ids
          /\ IdsFit(broker', taken')
      <3>1. CASE w = 0
        BY <1>2, <2>1, <3>1, NothingNew
      <3>2. CASE w # 0
        <4> DEFINE new == [id |-> id, acct |-> a, side |-> q.side, vol |-> w, full |-> w]
        <4>1. new \in O!Position
          BY <1>1, <2>1, <2>2, <3>2, OrdersAssumption DEF Meant, O!Position, O!Volumes
        <4>2. new.id = id /\ new.vol = new.full
          OBVIOUS
        <4> HIDE DEF new
        <4>3. broker' = broker \cup {new} /\ taken' = taken \cup {id}
          BY <2>1, <3>2 DEF new
        <4>4. NoneGrows(broker, broker', taken)
          BY <1>2, <2>2, <4>1, <4>2, <4>3 DEF NoneGrows
        <4>5. IdsFit(broker', taken')
          BY <1>2, <2>2, <4>1, <4>2, <4>3 DEF IdsFit
        <4> QED
          BY <1>2, <2>2, <4>3, <4>4, <4>5
      <3> QED
        BY <3>1, <3>2
    <2>6. Onward(job, job', broker, broker', taken, taken', parted, parted')
      BY <2>1, <2>5, MovesOnward
    <2> QED
      BY <1>2, <2>1, <2>3, <2>4, <2>5, <2>6 DEF q
  <1>5. CASE O!Closes(a, q, says)
    <2>1. PICK p, w :
            /\ p \in O!Mine(a) /\ w \in 0 .. O!Least(q.vol, p.vol) /\ q.ask = "close"
            /\ p.id = q.pos
            /\ says \in O!Tells(q, q.pos, w, O!Least(q.vol, p.vol))
            /\ broker' = (broker \ {p}) \cup {n \in {[p EXCEPT !.vol = @ - w]} : n.vol > 0}
            /\ parted' = IF w < O!Least(q.vol, p.vol) THEN parted \cup {q.by} ELSE parted
            /\ taken' = taken
      BY <1>5 DEF O!Closes
    <2> DEFINE due == O!Least(q.vol, p.vol)
               rest == [p EXCEPT !.vol = p.vol - w]
    <2>2. /\ p \in broker /\ p \in O!Position /\ q.pos \in Ids
          /\ Decided(job[q.by], broker, taken) /\ q.pos = job[q.by].pos /\ q.vol = job[q.by].vol
      BY <1>1, <1>2, <2>1 DEF O!Mine, Meant, O!Position
    <2>3. /\ q.vol \in Nat /\ p.vol \in Nat /\ due \in Nat /\ w \in 0 .. due
          /\ due <= p.vol /\ due <= q.vol /\ (due = p.vol \/ due = q.vol)
      BY <1>2, <2>1, <2>2, OrdersAssumption DEF O!Least, Decided, O!Volumes
    <2>4. /\ rest.id = p.id /\ rest.acct = p.acct /\ rest.full = p.full /\ rest.vol = p.vol - w
          /\ rest.vol > 0 => rest \in O!Position
      <3>1. p \in [id : Ids, acct : O!Acct, side : Sides, vol : O!Volumes, full : O!Volumes]
        BY <2>2 DEF O!Position
      <3>2. p.vol - w > 0 => p.vol - w \in O!Volumes
        BY <2>3, <3>1, OrdersAssumption DEF O!Volumes
      <3> QED
        BY <3>1, <3>2 DEF O!Position
    <2>5. broker' = (broker \ {p}) \cup {n \in {rest} : n.vol > 0}
      BY <2>1
    <2> HIDE DEF rest, due
    <2>6. NoneGrows(broker, broker', taken)
      BY <1>2, <2>2, <2>3, <2>4, <2>5 DEF NoneGrows
    <2>7. IdsFit(broker', taken')
      <3>1. \A n \in broker' : n.id \in taken' /\ n.vol <= n.full
        BY <1>2, <2>1, <2>2, <2>3, <2>4, <2>5 DEF IdsFit
      <3>2. \A n, o \in broker' : n.id = o.id => n = o
        BY <1>2, <2>2, <2>4, <2>5 DEF IdsFit
      <3> QED
        BY <3>1, <3>2 DEF IdsFit
    <2>8. q.by \in parted' \/ Shrunk(job[q.by], broker')
      <3>1. CASE w < due
        BY <2>1, <3>1 DEF due
      <3>2. CASE w = due
        <4> SUFFICES ASSUME NEW n \in broker', n.id = job[q.by].pos
                     PROVE  job[q.by].kind = "byId" /\ n.vol + job[q.by].vol <= n.full
          BY DEF Shrunk
        <4>1. n = rest /\ rest.vol > 0
          BY <1>2, <2>1, <2>2, <2>5 DEF IdsFit
        <4>2. due = q.vol /\ q.vol < p.vol
          BY <2>3, <2>4, <3>2, <4>1
        <4>3. job[q.by].kind # "exit"
          BY <2>1, <2>2, <2>3, <4>2 DEF Decided
        <4>4. p.vol <= p.full /\ p.full \in Nat
          BY <1>2, <2>2 DEF IdsFit
        <4> QED
          BY <2>2, <2>3, <2>4, <3>2, <4>1, <4>2, <4>3, <4>4 DEF Decided, Closing
      <3> QED
        BY <2>3, <3>1, <3>2
    <2>9. /\ says \in Seq(O!Answer) /\ Len(says) \in {1, 2}
          /\ \A i \in 1 .. Len(says) : says[i].to = <<q.by, q.ask>> /\ says[i].list = {}
      BY <1>1, <2>1, <2>2, TellsAre
    <2>10. /\ Onward(job, job', broker, broker', taken, taken', parted, parted')
           /\ parted' \subseteq Jobs
      BY <1>2, <1>3, <2>1, <2>6, MovesOnward
    <2>11. Decided(job[q.by], broker', taken')
      BY <2>1, <2>2, <2>6, DecidedStays
    <2>12. ASSUME NEW i \in 1 .. Len(says)
           PROVE  Truthful(a, says[i], job', broker', taken', parted')
      <3>1. says[i].to = <<q.by, "close">> /\ says[i].list = {}
        BY <2>1, <2>9
      <3>2. \A j \in Jobs : says[i].to # <<j, "checkClose">>
        BY <3>1
      <3>3. \A j \in Jobs : says[i].to = <<j, "close">> => j = q.by
        BY <3>1
      <3> QED
        BY <2>8, <2>11, <3>1, <3>2, <3>3 DEF Truthful
    <2> QED
      BY <1>2, <2>1, <2>7, <2>9, <2>10, <2>12 DEF q
  <1>6. CASE O!Replies(a, q, says)
    <2> DEFINE m == O!Reply(a, q)
    <2>1. /\ says = <<m>> /\ UNCHANGED <<broker, taken, parted>>
          /\ ~(q.ask = "close" /\ \E p \in O!Mine(a) : p.id = q.pos)
      BY <1>6 DEF O!Replies
    <2>2. /\ m.to = <<q.by, q.ask>> /\ m.id = NULL
          /\ m.kind \in {"event", "error", "list", "spec"}
          /\ m.list = {} \/ m.list = O!Mine(a)
          /\ q.ask = "close" => m.kind = "error"
          /\ q.ask = "checkClose" => m.list = O!Mine(a)
      BY <2>1 DEF O!Reply, O!Told
    <2>3. m \in O!Answer
      <3>1. m = [kind |-> m.kind, id |-> m.id, list |-> m.list, to |-> m.to]
        BY DEF O!Reply, O!Told
      <3>2. m.to \in O!Tag
        BY <1>3, <2>2 DEF O!Tag
      <3>3. m.list \in SUBSET O!Position
        BY <1>2, <2>2 DEF O!Mine
      <3> HIDE DEF m
      <3> QED
        BY <2>2, <3>1, <3>2, <3>3 DEF O!Answer
    <2> HIDE DEF m
    <2>4. /\ m.list \subseteq O!Position
          /\ \A p \in m.list : p.id \in taken /\ \A o \in broker : o.id = p.id => o.vol <= p.vol
      BY <1>2, <2>2 DEF O!Mine, IdsFit
    <2>5. ASSUME NEW j \in Jobs, m.to = <<j, "close">>
          PROVE  Decided(job[j], broker, taken) /\ O!Nothing(m)
      BY <1>1, <2>2, <2>5 DEF Meant, O!Nothing
    <2>6. ASSUME NEW j \in Jobs, m.to = <<j, "checkClose">>
          PROVE  /\ Decided(job[j], broker, taken)
                 /\ \/ O!Nothing(m) \/ \E p \in m.list : p.id = job[j].pos
                    \/ GoneFrom(a, job[j].pos, broker)
      BY <1>1, <2>2, <2>6 DEF Meant, GoneFrom, O!Mine
    <2>7. Truthful(a, m, job', broker', taken', parted')
      BY <2>1, <2>4, <2>5, <2>6 DEF Truthful
    <2>8. says \in Seq(O!Answer) /\ Len(says) = 1 /\ says[1] = m
      BY <2>1, <2>3
    <2>9. Onward(job, job', broker, broker', taken, taken', parted, parted')
      BY <1>2, <2>1, NothingNew, MovesOnward
    <2> QED
      BY <1>2, <2>1, <2>2, <2>7, <2>8, <2>9 DEF q
  <1> QED
    BY <1>4, <1>5, <1>6 DEF q

LEMMA ServeStep == ASSUME EInv, NEW a \in O!Acct, O!Serve(a) PROVE EInv'
  <1>1. /\ wire[a] # <<>> /\ wire' = [wire EXCEPT ![a] = Tail(@)]
        /\ UNCHANGED <<client, failures, disabled, sender, slot, openId, cache, job>>
    BY DEF O!Serve, O!code
  <1>2. PICK says \in O!Said(a, Head(wire[a])) :
          /\ \/ O!Opens(a, Head(wire[a]), says) \/ O!Closes(a, Head(wire[a]), says)
             \/ O!Replies(a, Head(wire[a]), says)
          /\ back' = [back EXCEPT ![a] = @ \o says]
          /\ owed' = IF Len(says) > 1 THEN owed \cup {a} ELSE owed
    BY DEF O!Serve
  <1>3. /\ says \in Seq(O!Answer) /\ Len(says) \in {1, 2}
        /\ \A i \in 1 .. Len(says) : /\ Truthful(a, says[i], job', broker', taken', parted')
                                     /\ says[i].to = <<Head(wire[a]).by, Head(wire[a]).ask>>
        /\ Onward(job, job', broker, broker', taken, taken', parted, parted')
        /\ taken' \subseteq Ids /\ parted' \subseteq Jobs /\ IdsFit(broker', taken')
    BY <1>1, <1>2, SaysTheTruth
  <1> QED
    BY <1>1, <1>2, <1>3, AnswerStep

LEMMA RejectStep == ASSUME EInv, NEW a \in O!Acct, O!Reject(a) PROVE EInv'
  <1> DEFINE q == Head(wire[a])
             m == [kind |-> "error", id |-> NULL, list |-> {}, to |-> <<q.by, q.ask>>]
             says == <<m>>
  <1>1. /\ wire[a] # <<>> /\ wire' = [wire EXCEPT ![a] = Tail(@)]
        /\ back' = [back EXCEPT ![a] = Append(@, m)]
        /\ UNCHANGED <<client, failures, disabled, sender, slot, openId, cache, job, broker, taken,
                       parted, owed>>
    BY DEF O!Reject, O!code, O!Told
  <1>2. q \in Request /\ Meant(q, job, broker, taken)
    <2>1. wire[a] \in Seq(Request) /\ q = wire[a][1] /\ 1 \in 1 .. Len(wire[a])
      BY <1>1 DEF EInv, TypesFit
    <2> QED
      BY <2>1 DEF EInv, WireMeant
  <1>3. m \in O!Answer
    <2>1. <<q.by, q.ask>> \in O!Tag
      BY <1>2 DEF Request, O!Tag
    <2> HIDE DEF q
    <2> QED
      BY <2>1 DEF O!Answer
  <1>4. Truthful(a, m, job', broker', taken', parted')
    <2>1. \A j \in Jobs : m.to = <<j, "close">> \/ m.to = <<j, "checkClose">>
                            => Decided(job[j], broker, taken)
      BY <1>2 DEF Meant, Request
    <2> QED
      BY <1>1, <2>1 DEF Truthful, O!Nothing
  <1>5. m.to = <<q.by, q.ask>>
    OBVIOUS
  <1> HIDE DEF m
  <1>6. says \in Seq(O!Answer) /\ Len(says) = 1 /\ says[1] = m
    BY <1>3
  <1>7. back' = [back EXCEPT ![a] = @ \o says]
    <2>1. back[a] \in Seq(O!Answer)
      BY DEF EInv, TypesFit
    <2>2. Append(back[a], m) = back[a] \o says
      BY <1>3, <2>1
    <2> QED
      BY <1>1, <2>2
  <1> HIDE DEF says
  <1>8. Onward(job, job', broker, broker', taken, taken', parted, parted')
    BY <1>1, NothingNew, MovesOnward DEF EInv, TypesFit
  <1>9. /\ \A i \in 1 .. Len(says) : /\ Truthful(a, says[i], job', broker', taken', parted')
                                     /\ says[i].to = <<Head(wire[a]).by, Head(wire[a]).ask>>
        /\ taken' \subseteq Ids /\ parted' \subseteq Jobs /\ IdsFit(broker', taken')
        /\ owed' = IF Len(says) > 1 THEN owed \cup {a} ELSE owed
    BY <1>1, <1>4, <1>5, <1>6 DEF EInv, TypesFit
  <1> QED
    BY <1>1, <1>6, <1>7, <1>8, <1>9, AnswerStep

LEMMA BrokerClosesStep == ASSUME EInv, NEW p \in broker, O!BrokerCloses(p) PROVE EInv'
  <1> DEFINE a == p.acct
             m == [kind |-> "filled", id |-> p.id, list |-> {}, to |-> <<NULL, "event">>]
             says == <<m>>
  <1>1. /\ broker' = broker \ {p}
        /\ UNCHANGED <<client, failures, disabled, sender, slot, openId, cache, job, wire,
                       taken, parted>>
    BY DEF O!BrokerCloses, O!code
  <1>2. a \in O!Acct /\ p.id \in Ids
    BY DEF EInv, TypesFit, O!Position
  <1>3. Onward(job, job', broker, broker', taken, taken', parted, parted')
    BY <1>1, NothingNew, MovesOnward DEF EInv, TypesFit
  <1>4. JobsFit'
    BY <1>1, <1>3, JobsRest
  <1>5. LocksFit' /\ FailuresFit'
    BY <1>1 DEF EInv, LocksFit, FailuresFit, Diallers
  <1>6. WireMeant'
    BY <1>1, <1>3, MessagesStay
  <1>7. CASE client[a] = "authed"
    <2>1. back' = [back EXCEPT ![a] = Append(@, m)] /\ owed' = owed \cup {a}
      <3>1. [O!Told("filled", <<NULL, "event">>) EXCEPT !.id = p.id] = m
        BY DEF O!Told
      <3> HIDE DEF m
      <3> QED
        BY <1>7, <3>1 DEF O!BrokerCloses
    <2>2. m \in O!Answer /\ m.list = {} /\ m.to = <<NULL, "event">>
      BY <1>2 DEF O!Answer, O!Tag
    <2> HIDE DEF m
    <2>3. Truthful(a, m, job', broker', taken', parted')
      BY <2>2 DEF Truthful
    <2>4. says \in Seq(O!Answer) /\ Len(says) = 1 /\ says[1] = m
      BY <2>2
    <2>5. back' = [back EXCEPT ![a] = @ \o says]
      <3>1. back[a] \in Seq(O!Answer)
        BY <1>2 DEF EInv, TypesFit
      <3>2. Append(back[a], m) = back[a] \o says
        BY <2>2, <3>1
      <3> QED
        BY <2>1, <3>2
    <2> HIDE DEF says
    <2>6. BackTruthful' /\ back' \in [O!Acct -> Seq(O!Answer)]
      <3>1. \A i \in 1 .. Len(says) : Truthful(a, says[i], job', broker', taken', parted')
        BY <2>3, <2>4
      <3> QED
        BY <1>2, <1>3, <2>4, <2>5, <3>1, BackGrows
    <2>7. TypesFit'
      BY <1>1, <1>2, <2>1, <2>6 DEF EInv, TypesFit, IdsFit
    <2>8. NothingStray'
      BY <1>1, <1>2, <2>1 DEF EInv, NothingStray, TypesFit
    <2> QED
      BY <1>4, <1>5, <1>6, <2>6, <2>7, <2>8 DEF EInv
  <1>8. CASE client[a] # "authed"
    <2>1. UNCHANGED <<back, owed>>
      BY <1>8 DEF O!BrokerCloses
    <2>2. BackTruthful'
      BY <1>3, <2>1, MessagesStay
    <2>3. TypesFit' /\ NothingStray'
      BY <1>1, <2>1 DEF EInv, TypesFit, IdsFit, NothingStray
    <2> QED
      BY <1>4, <1>5, <1>6, <2>2, <2>3 DEF EInv
  <1> QED
    BY <1>7, <1>8

-----------------------------------------------------------------------------
(* The invariant, and what it says of a call.                              *)

LEMMA OrdersInit == O!Init => EInv /\ LeftFits
  <1> SUFFICES ASSUME O!Init PROVE EInv /\ LeftFits
    OBVIOUS
  <1>1. O!Idle \in JobRecord /\ O!Idle.kind = "none" /\ O!Idle.pc = "idle"
    BY DEF O!Idle, JobRecord
  <1>2. /\ client = [a \in O!Acct |-> "none"] /\ failures = [a \in O!Acct |-> 0] /\ disabled = {}
        /\ sender = [a \in O!Acct |-> NULL] /\ slot = [a \in O!Acct |-> NULL]
        /\ openId = [a \in O!Acct |-> NULL] /\ cache = [a \in O!Acct |-> NULL]
        /\ job = [j \in Jobs |-> O!Idle]
        /\ wire = [a \in O!Acct |-> <<>>] /\ back = [a \in O!Acct |-> <<>>]
        /\ taken = {p.id : p \in broker} /\ parted = {} /\ owed = {}
    BY DEF O!Init
  <1>3. /\ broker \subseteq O!Position /\ \A p \in broker : p.vol = p.full
        /\ \A p, q \in broker : p = q
    BY DEF O!Init
  <1>4. taken \subseteq Ids /\ IdsFit(broker, taken)
    <2>1. \A p \in broker : p.id \in Ids /\ p.vol \in Nat
      BY <1>3, OrdersAssumption DEF O!Position, O!Volumes
    <2> QED
      BY <1>2, <1>3, <2>1 DEF IdsFit
  <1>5. TypesFit
    BY <1>2, <1>3, <1>4 DEF TypesFit
  <1>6. JobsFit
    <2>1. \A j \in Jobs : job[j] = O!Idle
      BY <1>2
    <2> QED
      BY <1>1, <1>2, <2>1 DEF JobsFit, Fits, Confirmed, InHand, Closing
  <1>7. LocksFit
    BY <1>1, <1>2 DEF LocksFit
  <1>8. NothingStray /\ WireMeant /\ BackTruthful
    BY <1>2 DEF NothingStray, OneUnderWay, WireMeant, BackTruthful
  <1>9. FailuresFit
    <2>1. \A a \in O!Acct : Diallers(job, a) = {}
      BY <1>1, <1>2 DEF Diallers
    <2>2. Cardinality(Jobs) \in Nat /\ MaxFailures \in Nat
      BY OrdersAssumption, FS_CardinalityType
    <2>3. ASSUME NEW a \in O!Acct
          PROVE  /\ failures[a] + Cardinality(Diallers(job, a)) <= MaxFailures + Cardinality(Jobs)
                 /\ failures[a] <= MaxFailures
      <3>1. failures[a] = 0 /\ Cardinality(Diallers(job, a)) = 0
        BY <1>2, <2>1, FS_EmptySet
      <3> QED
        BY <2>2, <3>1
    <2>4. failures \in [O!Acct -> Nat]
      BY <1>2
    <2> QED
      BY <2>3, <2>4 DEF FailuresFit
  <1>10. LeftFits
    BY OrdersAssumption DEF O!Init, LeftFits, O!Volumes
  <1> QED
    BY <1>5, <1>6, <1>7, <1>8, <1>9, <1>10 DEF EInv

\* A fault counts one off, and so does an order in parts; nothing else touches the bounds.
LEMMA LeftStep == ASSUME LeftFits, [O!Next]_orders PROVE LeftFits'
  <1>1. ASSUME NEW j \in Jobs, O!Starts(j) PROVE UNCHANGED left
    BY <1>1 DEF O!Starts, O!Enter, O!Exit, O!CloseById, O!Begin, O!world
  <1>2. ASSUME NEW j \in Jobs, O!Go(j) PROVE UNCHANGED left
    <2>1. \E r : O!Resume(j, r)
      BY <1>2, ZenonT(30)
         DEF O!Go, O!AfterSpec, O!AfterOpen, O!AfterCheckOpen, O!AfterAmend, O!AfterFind,
             O!AfterClose, O!AfterCheckClose, O!Succeeded
    <2> QED
      BY <2>1 DEF O!Resume, O!world
  <1>3. ASSUME NEW j \in Jobs, O!Steps(j) \/ O!Failing(j) PROVE UNCHANGED left \/ O!Fault
    BY <1>2, <1>3 DEF O!Steps, O!Connected, O!Dialled, O!Send, O!TimeOutLost, O!Failing,
                      O!DialFails, O!TimeOut, O!world
  <1>4. ASSUME NEW a \in O!Acct, O!World(a) \/ O!Breaks(a) PROVE UNCHANGED left \/ O!Fault \/ O!InParts
    BY <1>4 DEF O!World, O!Deliver, O!Serve, O!Opens, O!Closes, O!Replies, O!CarriedOut,
                O!Reauthed, O!Breaks, O!Drop, O!IdleDisconnect, O!Reject, O!world
  <1>5. ASSUME NEW p \in broker, O!BrokerCloses(p) PROVE O!Fault
    BY <1>5 DEF O!BrokerCloses
  <1>6. UNCHANGED left \/ O!Fault \/ O!InParts
    BY <1>1, <1>3, <1>4, <1>5 DEF O!Next, orders
  <1> QED
    BY <1>6 DEF LeftFits, O!Fault, O!InParts

LEMMA OrdersStep == ASSUME EInv, LeftFits, [O!Next]_orders PROVE EInv'
  <1>1. CASE UNCHANGED orders
    <2>1. /\ job' = job /\ broker' = broker /\ taken' = taken /\ wire' = wire /\ back' = back
          /\ UNCHANGED <<client, failures, disabled, sender, slot, openId, cache, parted, owed>>
      BY <1>1 DEF orders
    <2>2. JobsFit'
      BY <2>1, JobsRest, NothingNew, MovesOnward DEF EInv, TypesFit
    <2>3. TypesFit' /\ LocksFit'
      BY <2>1 DEF EInv, TypesFit, LocksFit
    <2>4. NothingStray' /\ WireMeant' /\ BackTruthful'
      BY <2>1 DEF EInv, NothingStray, WireMeant, BackTruthful
    <2>5. FailuresFit'
      <3>1. failures' = failures
        BY <1>1 DEF orders
      <3> QED
        BY <2>1, <3>1 DEF EInv, FailuresFit, Diallers
    <2> QED
      BY <2>2, <2>3, <2>4, <2>5 DEF EInv
  <1>2. ASSUME NEW j \in Jobs, O!Starts(j) \/ O!Steps(j) \/ O!Failing(j) PROVE EInv'
    BY <1>2, StartsStep, ConnectedStep, DialledStep, SendStep, TimeOutSteps, GoStep, DialFailsStep
       DEF O!Steps, O!Failing
  <1>3. ASSUME NEW a \in O!Acct, O!World(a) \/ O!Breaks(a) PROVE EInv'
    BY <1>3, DeliverStep, ServeStep, ReauthedStep, CutSteps, RejectStep DEF O!World, O!Breaks
  <1>4. ASSUME NEW p \in broker, O!BrokerCloses(p) PROVE EInv'
    BY <1>4, BrokerClosesStep
  <1> QED
    BY <1>1, <1>2, <1>3, <1>4 DEF O!Next

LEMMA OrdersTypes == EInv => O!TypeOK
  <1> SUFFICES ASSUME EInv PROVE O!TypeOK
    OBVIOUS
  <1>1. ASSUME NEW a \in O!Acct PROVE failures[a] \in 0 .. MaxFailures + Cardinality(Jobs)
    <2>1. Diallers(job, a) \subseteq Jobs
      BY DEF Diallers
    <2>2. Cardinality(Diallers(job, a)) \in Nat /\ Cardinality(Jobs) \in Nat
      BY <2>1, FS_Subset, FS_CardinalityType, OrdersAssumption
    <2> QED
      BY <2>2, OrdersAssumption DEF EInv, FailuresFit
  <1>2. failures \in [O!Acct -> 0 .. MaxFailures + O!Cardinality(Jobs)]
    BY <1>1, SameCount DEF EInv, FailuresFit
  <1>3. \A a \in O!Acct : /\ back[a] \in Seq(O!Answer)
                          /\ slot[a] # NULL => sender[a] = slot[a] /\ job[slot[a]].pc = "wait"
    BY DEF EInv, TypesFit, LocksFit
  <1>4. \A j \in Jobs : job[j].pc = "wait" => slot[job[j].acct] = j
    BY DEF EInv, LocksFit
  <1> QED
    BY <1>2, <1>3, <1>4 DEF O!TypeOK, EInv, TypesFit

LEMMA OrdersClosed == EInv => O!ClosedAsAsked
  BY DEF EInv, JobsFit, Confirmed, GoneFrom, Shrunk, Closing, O!ClosedAsAsked

\* What a call does with an answer does not change whether it was misled.
LEMMA GoKeepsMisled ==
  ASSUME EInv, NEW j \in Jobs, O!Go(j)
  PROVE  \E r : job' = [job EXCEPT ![j] = r] /\ r.misled = job[j].misled
  <1> DEFINE Kept(r) == "misled" \in DOMAIN r /\ r.misled = job[j].misled
  <1>1. Kept(job[j])
    BY HasAnswer DEF O!Go, JobRecord
  <1>2. \A r, v : Kept(r) => /\ Kept([r EXCEPT !.result = v]) /\ Kept([r EXCEPT !.pos = v])
                            /\ Kept([r EXCEPT !.vol = v])
                            /\ Kept([r EXCEPT !.acct = v]) /\ Kept(O!Asking(r, v))
                            /\ Kept(O!Ended(r, v))
    BY DEF O!Asking, O!Ended
  <1> HIDE DEF Kept
  <1>3. \A r, id : Kept(r) => Kept(O!Placing(r, id))
    BY <1>2 DEF O!Placing
  <1>4. \A r : Kept(r) => Kept(O!NextAccount(j, r))
    BY <1>2 DEF O!NextAccount
  <1>5. \E r : O!Resume(j, r) /\ Kept(r)
    <2>1. CASE O!AfterSpec(j) \/ O!AfterAmend(j)
      BY <1>1, <1>2, <2>1 DEF O!AfterSpec, O!AfterAmend
    <2>2. CASE O!AfterOpen(j) \/ O!AfterCheckOpen(j)
      BY <1>1, <1>2, <1>3, <2>2 DEF O!AfterOpen, O!AfterCheckOpen
    <2>3. CASE O!AfterFind(j)
      BY <1>1, <1>2, <2>3 DEF O!AfterFind
    <2>4. CASE O!AfterClose(j) \/ O!AfterCheckClose(j)
      BY <1>1, <1>2, <1>4, <2>4 DEF O!AfterClose, O!AfterCheckClose, O!Succeeded
    <2> QED
      BY <2>1, <2>2, <2>3, <2>4 DEF O!Go
  <1> QED
    BY <1>5 DEF O!Resume, Kept

\* An answer that belongs to another request comes only where one is owed to nobody.
LEMMA OwnAnswers ==
  ASSUME EInv, [O!Next]_orders, NEW j \in Jobs, job'[j].misled, ~job[j].misled
  PROVE  job[j].acct \in owed
  <1>1. job \in [Jobs -> JobRecord] /\ slot \in [O!Acct -> Jobs \cup {NULL}]
    BY DEF EInv, JobsFit, TypesFit
  <1>2. ASSUME NEW a \in O!Acct, O!Deliver(a) PROVE job[j].acct \in owed
    <2>1. slot[a] = j /\ Head(back[a]).to # <<j, job[j].ask>> /\ back[a] # <<>>
      BY <1>1, <1>2 DEF O!Deliver, JobRecord
    <2>2. job[j].acct = a /\ Head(back[a]) = back[a][1]
      <3>1. back[a] \in Seq(O!Answer) /\ j # NULL
        BY OrdersAssumption DEF EInv, TypesFit
      <3>2. Head(back[a]) = back[a][1]
        BY <2>1, <3>1
      <3> QED
        BY <2>1, <3>1, <3>2 DEF EInv, LocksFit
    <2> QED
      BY <2>1, <2>2 DEF EInv, NothingStray, OneUnderWay
  <1>3. ASSUME NEW k \in Jobs, NEW r, job' = [job EXCEPT ![k] = r], r.misled = job[k].misled
        PROVE  FALSE
    BY <1>1, <1>3
  <1>4. CASE job' = job
    BY <1>4
  <1>5. ASSUME NEW k \in Jobs, O!Go(k) PROVE FALSE
    BY <1>3, <1>5, GoKeepsMisled
  <1>6. ASSUME NEW k \in Jobs, NEW r0, NEW what, O!Begin(k, r0, what), r0.misled = FALSE,
               "misled" \in DOMAIN r0
        PROVE  FALSE
    <2>1. job' = [job EXCEPT ![k] = O!Asking(r0, what)] /\ job[k].misled = FALSE
      BY <1>6 DEF O!Begin, O!Idle
    <2>2. O!Asking(r0, what).misled = FALSE
      BY <1>6 DEF O!Asking
    <2> QED
      BY <1>3, <2>1, <2>2
  <1>7. ASSUME NEW k \in Jobs, O!Starts(k) PROVE FALSE
    <2> DEFINE Fresh(r) == r.misled = FALSE /\ "misled" \in DOMAIN r
    <2>1. /\ \A kind, a, s : Fresh([O!Idle EXCEPT !.kind = kind, !.acct = a, !.side = s])
          /\ \A kind, a, s, v :
               Fresh([O!Idle EXCEPT !.kind = kind, !.acct = a, !.side = s, !.vol = v])
      BY DEF O!Idle
    <2>2. \A kind, a, id, v :
            Fresh([O!Idle EXCEPT !.kind = kind, !.acct = a, !.pos = id, !.vol = v])
      BY DEF O!Idle
    <2> HIDE DEF Fresh
    <2>3. \E r, what : O!Begin(k, r, what) /\ Fresh(r)
      <3>1. CASE \E a \in Traded, s \in Sides : O!Exit(k, a, s)
        BY <2>1, <3>1 DEF O!Exit
      <3>2. CASE \E a \in Traded, s \in Sides, v \in OrderVolumes : O!Enter(k, a, s, v)
        BY <2>1, <3>2 DEF O!Enter
      <3>3. CASE \E p \in broker, v \in left.closes : O!CloseById(k, p, v)
        <4>1. PICK p \in broker, v \in left.closes : O!CloseById(k, p, v)
          BY <3>3
        <4>2. Fresh([O!Idle EXCEPT !.kind = "byId", !.acct = Head(Accounts), !.pos = p.id,
                                   !.vol = v])
          BY <2>2
        <4> QED
          BY <4>1, <4>2 DEF O!CloseById
      <3> QED
        BY <1>7, <3>1, <3>2, <3>3 DEF O!Starts
    <2> QED
      BY <1>6, <2>3 DEF Fresh
  <1>8. ASSUME NEW k \in Jobs, job' = [job EXCEPT ![k] = O!Unanswered(k)] PROVE FALSE
    <2>1. O!Unanswered(k).misled = job[k].misled
      BY <1>1 DEF O!Unanswered, JobRecord
    <2> QED
      BY <1>3, <1>8, <2>1
  <1>9. ASSUME NEW k \in Jobs, NEW at, job' = [job EXCEPT ![k].pc = at] PROVE FALSE
    BY <1>1, <1>9 DEF JobRecord
  <1>10. ASSUME NEW k \in Jobs, O!Steps(k) \/ O!Failing(k) PROVE FALSE
    BY <1>5, <1>8, <1>9, <1>10
       DEF O!Steps, O!Failing, O!Connected, O!Dialled, O!Send, O!TimeOut, O!TimeOutLost, O!DialFails
  <1>11. ASSUME NEW a \in O!Acct, O!World(a) \/ O!Breaks(a), ~O!Deliver(a) PROVE job' = job
    BY <1>11 DEF O!World, O!Breaks, O!Serve, O!Reauthed, O!Drop, O!IdleDisconnect, O!Reject, O!code
  <1>12. ASSUME NEW p \in broker, O!BrokerCloses(p) PROVE job' = job
    BY <1>12 DEF O!BrokerCloses, O!code
  <1>13. CASE UNCHANGED orders
    BY <1>4, <1>13 DEF orders
  <1> QED
    BY <1>2, <1>4, <1>7, <1>10, <1>11, <1>12, <1>13 DEF O!Next

\* Nobody trades while the run is about the tokens.
LEMMA OrdersMove == [MCNext]_mcVars => [O!Next]_orders
  BY DEF MCNext, mcVars, orders

LEMMA InvHolds == MCSpec => []EInv
  <1>1. MCInit => EInv /\ LeftFits
    BY OrdersInit DEF MCInit
  <1>2. EInv /\ LeftFits /\ [MCNext]_mcVars => (EInv /\ LeftFits)'
    BY OrdersMove, OrdersStep, LeftStep
  <1> QED
    BY <1>1, <1>2, PTL DEF MCSpec

\* The types of both parts; the slot belongs to the one call that waits and has the lock.
THEOREM TypesHold == MCSpec => []TypesOK
  <1>1. EInv /\ TokensTypeOK => TypesOK
    BY OrdersTypes DEF TypesOK
  <1> QED
    BY <1>1, InvHolds, TokenChainHolds, PTL

\* A close that was not misled and says it succeeded closed what it asked for.  Confirmed by
\* the list, its position is gone from the account, and none comes back; told so by an
\* answer, it left at most what its volume leaves, and nothing when a strategy closed,
\* unless the broker itself closed less than it was asked to.
THEOREM ClosedAsAskedHolds == MCSpec => []ClosedAsAsked
  <1>1. EInv => ClosedAsAsked
    BY OrdersClosed DEF ClosedAsAsked
  <1> QED
    BY <1>1, InvHolds, PTL

\* A call takes the answer to another request for its own only on an account where an
\* answer is owed to nobody, however many calls share the executor.
THEOREM AnswersHold == MCSpec => AnswersAreOwn
  <1> DEFINE A == \A j \in Jobs : job'[j].misled /\ ~job[j].misled => job[j].acct \in owed
  <1>1. EInv /\ [MCNext]_mcVars => [A]_(O!vars)
    BY OrdersMove, OwnAnswers DEF O!vars, orders
  <1> QED
    BY <1>1, InvHolds, PTL DEF MCSpec, AnswersAreOwn, O!AnswersAreOwn
=============================================================================
