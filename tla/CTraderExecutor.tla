--------------------------- MODULE CTraderExecutor ---------------------------
(***************************************************************************)
(* The cTrader executors: one per account, each with one TCP client, one   *)
(* slot for the answer it waits for, and jobs of the strategies and of the *)
(* dashboard that share it (common/ctrader_executor.py).                   *)
(*                                                                         *)
(* A request travels over wire[a] to the broker, what the broker says over *)
(* back[a] to the reactor thread.  The protocol matches an answer with a   *)
(* request by nothing: whatever arrives resolves the slot.  The tag of an  *)
(* answer (to) is known to the model only, never to the code.              *)
(*                                                                         *)
(* A broken token shows here as an answer that never comes; CTraderTokens  *)
(* has the refresh.  All positions are of the one symbol of the account,   *)
(* and an order never adds to a position that is open.                     *)
(***************************************************************************)
EXTENDS Naturals, Sequences, FiniteSets, SequencesExt

CONSTANTS
  Accounts,      \* the order in which the router tries the executors: a sequence
  Traded,        \* accounts the strategies trade on; the others hold what they held
  Jobs,          \* the calls that may come, of a strategy or the dashboard: one thread each
  Sides,         \* long and short
  MaxFailures,   \* CTRADER_MAX_CONSECUTIVE_FAILURES
  Announces,     \* TRUE: the broker may tell of an order in several events (accepted,
                 \* filled in parts, cancelled or rejected), not in one fill only
  Ids,           \* bound: ids of positions, 1 .. n
  MaxVolume,     \* bound: volumes, in steps of the symbol
  OrderVolumes,  \* volumes of orders: given, of the lot size or of the notional
  Bounds,        \* bounds of a behaviour, of which it takes one: the number of faults (time-outs,
                 \* drops, failed connects, rejections), of orders carried out in parts, and the
                 \* volumes of a close by id (given, or of the lot size)
  NULL

VARIABLES
  client,     \* per account: "none", "up" (a client, not authenticated) or "authed"
  failures,   \* per account: _consecutive_failures
  disabled,   \* accounts that have given up: _disabled
  sender,     \* per account: the job that holds _send_lock
  slot,       \* per account: the job whose future is in _pending
  openId,     \* per account: _open_position_id
  cache,      \* per account: _position_cache, the positions it lists
  job,        \* per call: what it is doing, and its result
  wire, back, \* per account: requests and answers in flight
  broker,     \* positions at the broker
  taken,      \* ids the broker has given out
  parted,     \* calls of which the broker closed less than they asked for
  owed,       \* accounts where an answer can come that nobody waits for
  left        \* what is left of the bounds

code == <<client, failures, disabled, sender, slot, openId, cache, job>>
world == <<wire, back, broker, taken, parted, owed, left>>
vars == <<client, failures, disabled, sender, slot, openId, cache, job, wire, back,
          broker, taken, parted, owed, left>>

Acct == ToSet(Accounts)
Volumes == 1 .. MaxVolume
\* full is what it was opened with, known to the model only
Position == [id : Ids, acct : Acct, side : Sides, vol : Volumes, full : Volumes]
Asks == {"spec", "open", "checkOpen", "amend", "find", "close", "checkClose"}
Tag == (Jobs \X Asks) \cup {<<NULL, "event">>}
\* one answer; id is the position a fill names, list what a reconcile shows
Answer == [kind : {"filled", "event", "error", "list", "spec", "silence"},
           id : Ids \cup {NULL}, list : SUBSET Position, to : Tag]

Idle == [kind |-> "none", acct |-> NULL, side |-> NULL, ask |-> NULL, pc |-> "idle",
         pos |-> NULL, vol |-> NULL, ans |-> NULL, misled |-> FALSE, result |-> NULL]
Running(j) == job[j].pc # "idle"

-----------------------------------------------------------------------------
(* One request of a job: connect, take the lock, send, wait.                *)

\* _send_and_wait, from its top
Asking(r, what) == [r EXCEPT !.ask = what, !.pc = "connect", !.ans = NULL]

Ended(r, result) == [r EXCEPT !.ask = NULL, !.pc = "idle", !.ans = NULL, !.result = result]

Told(kind, tag) == [kind |-> kind, id |-> NULL, list |-> {}, to |-> tag]
Silence(j) == Told("silence", <<j, job[j].ask>>)

\* a request that ends without an answer: _send_and_wait returns None
Unanswered(j) == [job[j] EXCEPT !.pc = "got", !.ans = Silence(j)]

\* one of the bounds is counted off
Fault == left.faults > 0 /\ left' = [left EXCEPT !.faults = @ - 1]
InParts == left.parts > 0 /\ left' = [left EXCEPT !.parts = @ - 1]

\* the client is stopped; what was on its connection is lost
Cut(a) ==
  /\ wire' = [wire EXCEPT ![a] = <<>>]
  /\ back' = [back EXCEPT ![a] = <<>>]
  /\ owed' = owed \ {a}

\* _ensure_connected: refused when disabled, at once when authenticated
Connected(j) ==
  LET a == job[j].acct IN
  /\ job[j].pc = "connect"
  /\ \/ /\ a \in disabled
        /\ job' = [job EXCEPT ![j] = Unanswered(j)]
     \/ /\ a \notin disabled /\ client[a] = "authed"
        /\ job' = [job EXCEPT ![j].pc = "lock"]
     \/ /\ a \notin disabled /\ client[a] # "authed"
        /\ job' = [job EXCEPT ![j].pc = "dial"]
  /\ UNCHANGED <<client, failures, disabled, sender, slot, openId, cache, world>>

\* under _connect_lock: a new client authenticates in time, or another job's did
Dialled(j) ==
  LET a == job[j].acct IN
  /\ job[j].pc = "dial"
  /\ job' = [job EXCEPT ![j].pc = "lock"]
  /\ IF client[a] = "authed"
     THEN UNCHANGED <<client, failures, wire, back, owed>>
     ELSE /\ client' = [client EXCEPT ![a] = "authed"]
          /\ failures' = [failures EXCEPT ![a] = 0]
          /\ Cut(a)
  /\ UNCHANGED <<disabled, sender, slot, openId, cache, broker, taken, parted, left>>

\* it does not: counted, the client is torn down, and the last failure disables
DialFails(j) ==
  LET a == job[j].acct IN
  /\ job[j].pc = "dial" /\ client[a] # "authed" /\ Fault
  /\ failures' = [failures EXCEPT ![a] = @ + 1]
  /\ disabled' = IF failures'[a] >= MaxFailures THEN disabled \cup {a} ELSE disabled
  /\ client' = [client EXCEPT ![a] = "none"]
  /\ Cut(a)
  /\ job' = [job EXCEPT ![j] = Unanswered(j)]
  /\ UNCHANGED <<sender, slot, openId, cache, broker, taken, parted>>

\* a faulty variant: nobody waits for the lock
MaySendAtOnce(j) == TRUE

\* the lock, the slot, and the request on the wire if there is a connection
MaySend(j) == sender[job[j].acct] = NULL
Send(j) ==
  LET a == job[j].acct IN
  /\ job[j].pc = "lock" /\ MaySend(j)
  /\ sender' = [sender EXCEPT ![a] = j]
  /\ slot' = [slot EXCEPT ![a] = j]
  /\ job' = [job EXCEPT ![j].pc = "wait"]
  /\ wire' = IF client[a] = "authed"
             THEN [wire EXCEPT ![a] = Append(@, [ask |-> job[j].ask, by |-> j, pos |->
                     IF job[j].ask = "amend" THEN openId[a] ELSE job[j].pos,
                     side |-> job[j].side, vol |-> job[j].vol])]
             ELSE wire
  /\ UNCHANGED <<client, failures, disabled, openId, cache, back, broker, taken, parted, owed, left>>

\* loop.result(timeout) gives up; request and answer may still be under way
TimeOut(j) ==
  LET a == job[j].acct IN
  /\ job[j].pc = "wait" /\ Fault
  /\ slot' = [slot EXCEPT ![a] = NULL]
  /\ job' = [job EXCEPT ![j] = Unanswered(j)]
  /\ owed' = IF wire[a] = <<>> /\ back[a] = <<>> THEN owed ELSE owed \cup {a}
  /\ UNCHANGED <<client, failures, disabled, sender, openId, cache, wire, back, broker, taken, parted>>

\* nothing is under way any more: the time-out is certain to come
TimeOutLost(j) ==
  LET a == job[j].acct IN
  /\ job[j].pc = "wait" /\ slot[a] = j /\ wire[a] = <<>> /\ back[a] = <<>>
  /\ slot' = [slot EXCEPT ![a] = NULL]
  /\ job' = [job EXCEPT ![j] = Unanswered(j)]
  /\ UNCHANGED <<client, failures, disabled, sender, openId, cache, world>>

\* on_message: a fill notes its position, and whatever came resolves the slot
Deliver(a) ==
  LET m == Head(back[a]) IN
  /\ back[a] # <<>>
  /\ back' = [back EXCEPT ![a] = Tail(@)]
  /\ openId' = IF m.kind = "filled" THEN [openId EXCEPT ![a] = m.id] ELSE openId
  /\ slot' = [slot EXCEPT ![a] = NULL]
  /\ job' = IF slot[a] = NULL THEN job
            ELSE [job EXCEPT ![slot[a]].pc = "got", ![slot[a]].ans = m,
                             ![slot[a]].misled = @ \/ m.to # <<slot[a], job[slot[a]].ask>>]
  /\ UNCHANGED <<client, failures, disabled, sender, cache, wire, broker, taken, parted, owed, left>>

-----------------------------------------------------------------------------
(* What a job does with an answer.  An error and silence both arrive as None. *)

Nothing(m) == m.kind \in {"silence", "error"}
OfSide(m, side) == {p \in m.list : p.side = side}

\* a faulty variant: a time-out keeps the send lock
ReleasedOnAnswer(j) ==
  IF job[j].ans.kind = "silence" THEN sender ELSE [sender EXCEPT ![job[j].acct] = NULL]

\* the end of the with block frees the lock; a job that never connected does not hold it
Released(j) ==
  IF sender[job[j].acct] = j THEN [sender EXCEPT ![job[j].acct] = NULL] ELSE sender

\* the job goes on as r, the lock is free
Resume(j, r) ==
  /\ job' = [job EXCEPT ![j] = r]
  /\ sender' = Released(j)
  /\ UNCHANGED <<client, failures, disabled, slot, world>>

\* place_tp_sl is called whatever became of the order, and needs a position to amend
Placing(r, id) == IF id = NULL THEN Ended(r, r.result) ELSE Asking(r, "amend")

\* the size needs the symbol; any other answer raises a KeyError
AfterSpec(j) ==
  /\ job[j].ask = "spec"
  /\ Resume(j, IF job[j].ans.kind = "spec" THEN Asking(job[j], "open") ELSE Ended(job[j], "raised"))
  /\ UNCHANGED <<openId, cache>>

\* any answer counts as an entry; none at all sends it to the list of positions
AfterOpen(j) ==
  LET a == job[j].acct IN
  /\ job[j].ask = "open"
  /\ IF Nothing(job[j].ans)
     THEN Resume(j, Asking(job[j], "checkOpen")) /\ UNCHANGED cache
     ELSE /\ Resume(j, Placing([job[j] EXCEPT !.result = "ok"], openId[a]))
          /\ cache' = [cache EXCEPT ![a] = NULL]
  /\ UNCHANGED openId

\* _reconcile_open: a position of the side is the entry; something that is no list shows none
AfterCheckOpen(j) ==
  LET a == job[j].acct
      m == job[j].ans
      found == OfSide(m, job[j].side) IN
  /\ job[j].ask = "checkOpen"
  /\ IF found = {}
     THEN /\ cache' = IF Nothing(m) THEN cache ELSE [cache EXCEPT ![a] = m.list]
          /\ Resume(j, Placing([job[j] EXCEPT !.result = "failed"], openId[a]))
          /\ UNCHANGED openId
     ELSE \E p \in found :
          /\ cache' = [cache EXCEPT ![a] = NULL]
          /\ openId' = [openId EXCEPT ![a] = p.id]
          /\ Resume(j, Placing([job[j] EXCEPT !.result = "ok"], p.id))

AfterAmend(j) ==
  /\ job[j].ask = "amend"
  /\ Resume(j, Ended(job[j], job[j].result))
  /\ UNCHANGED <<openId, cache>>

\* a faulty variant: a close of the size of an order
OneLot(p) == 1

\* close_position closes all that the list shows of the position
CloseVolume(p) == p.vol

\* _find_open_position: exactly one position of the side, or the close is skipped
AfterFind(j) ==
  LET a == job[j].acct
      m == job[j].ans
      found == OfSide(m, job[j].side) IN
  /\ job[j].ask = "find"
  /\ cache' = IF Nothing(m) THEN cache ELSE [cache EXCEPT ![a] = m.list]
  /\ Resume(j, IF Nothing(m) THEN Ended(job[j], "failed")
               ELSE IF m.kind # "list" THEN Ended(job[j], "raised")
               ELSE IF Cardinality(found) # 1 THEN Ended(job[j], "failed")
               ELSE LET p == CHOOSE q \in found : TRUE
                    IN Asking([job[j] EXCEPT !.pos = p.id, !.vol = CloseVolume(p)], "close"))
  /\ UNCHANGED openId

\* close_position forgets the position it knew, close_position_by_id only the one it closed
Forgets(j) == job[j].kind = "exit" \/ openId[job[j].acct] = job[j].pos

\* the router asks the next account after one that could not close
NextAccount(j, r) ==
  LET i == CHOOSE k \in DOMAIN Accounts : Accounts[k] = job[j].acct IN
  IF job[j].kind = "byId" /\ i < Len(Accounts)
  THEN Asking([r EXCEPT !.acct = Accounts[i + 1]], "close")
  ELSE Ended(r, "failed")

\* the result tells whether an answer or the list of positions was taken for the close
Succeeded(j, result) ==
  LET a == job[j].acct IN
  /\ Resume(j, Ended(job[j], result))
  /\ openId' = IF Forgets(j) THEN [openId EXCEPT ![a] = NULL] ELSE openId
  /\ cache' = [cache EXCEPT ![a] = NULL]

AfterClose(j) ==
  /\ job[j].ask = "close"
  /\ IF Nothing(job[j].ans)
     THEN Resume(j, Asking(job[j], "checkClose")) /\ UNCHANGED <<openId, cache>>
     ELSE Succeeded(j, "ok")      \* a fill, of a part too, or any other event

\* a faulty variant: silence is taken for a position that is gone
ConfirmedBySilence(j) == \A p \in job[j].ans.list : p.id # job[j].pos

\* _reconcile_close: a position that is not in the answer has been closed
Confirmed(j) == ~Nothing(job[j].ans) /\ \A p \in job[j].ans.list : p.id # job[j].pos
AfterCheckClose(j) ==
  LET a == job[j].acct
      m == job[j].ans IN
  /\ job[j].ask = "checkClose"
  /\ IF Confirmed(j) THEN Succeeded(j, "closed")
     ELSE /\ Resume(j, NextAccount(j, job[j]))
          /\ cache' = IF Nothing(m) THEN cache ELSE [cache EXCEPT ![a] = m.list]
          /\ UNCHANGED openId

Go(j) ==
  /\ job[j].pc = "got"
  /\ \/ AfterSpec(j) \/ AfterOpen(j) \/ AfterCheckOpen(j) \/ AfterAmend(j)
     \/ AfterFind(j) \/ AfterClose(j) \/ AfterCheckClose(j)

-----------------------------------------------------------------------------
(* Jobs begin.                                                              *)

Begin(j, r, what) ==
  /\ job[j] = Idle
  /\ job' = [job EXCEPT ![j] = Asking(r, what)]
  /\ UNCHANGED <<client, failures, disabled, sender, slot, openId, cache, world>>

\* an entry of volume v; one sized by the notional needs the symbol first
Enter(j, a, s, v) ==
  \E what \in {"spec", "open"} :
    Begin(j, [Idle EXCEPT !.kind = "enter", !.acct = a, !.side = s, !.vol = v], what)
Exit(j, a, s) == Begin(j, [Idle EXCEPT !.kind = "exit", !.acct = a, !.side = s], "find")
\* POST /positions/{id}/close: the account is found by trying, and the volume v, given or of
\* the lot size there, need not be that of the position (an account without it ignores v)
CloseById(j, p, v) ==
  Begin(j, [Idle EXCEPT !.kind = "byId", !.acct = Head(Accounts), !.pos = p.id, !.vol = v], "close")

-----------------------------------------------------------------------------
(* The connection and the broker.                                           *)

\* on_disconnected; the service of the library dials again by itself
Drop(a) ==
  /\ client[a] = "authed" /\ Fault
  /\ client' = [client EXCEPT ![a] = "up"]
  /\ Cut(a)
  /\ UNCHANGED <<failures, disabled, sender, slot, openId, cache, job, broker, taken, parted>>

Reauthed(a) ==
  /\ client[a] = "up"
  /\ client' = [client EXCEPT ![a] = "authed"]
  /\ UNCHANGED <<failures, disabled, sender, slot, openId, cache, job, world>>

\* _idle_disconnect: a minute without a request
IdleDisconnect(a) ==
  /\ client[a] = "authed"
  /\ \A j \in Jobs : job[j].acct = a => job[j].pc = "idle"
  /\ client' = [client EXCEPT ![a] = "none"]
  /\ Cut(a)
  /\ UNCHANGED <<failures, disabled, sender, slot, openId, cache, job, broker, taken, parted, left>>

\* what the broker may say of the order of request q, of which it carried out w of v
Tells(q, id, w, v) ==
  LET event == Told("event", <<q.by, q.ask>>)
      filled == [Told("filled", <<q.by, q.ask>>) EXCEPT !.id = id]
  IN  {says \in {<<filled>>} : w = v}
        \cup {says \in {<<event, filled>>, <<filled, filled>>} : Announces /\ w = v}
        \cup {says \in {<<filled, event>>} : Announces /\ 0 < w /\ w < v}
        \cup {says \in {<<event>>} : Announces /\ w = 0}

Mine(a) == {p \in broker : p.acct = a}
Least(v, w) == IF v <= w THEN v ELSE w
NextId == {n \in Ids \ taken : \A k \in Ids \ taken : n <= k}

\* w of v is carried out: all of it in one fill, or else in parts
CarriedOut(w, v, says) ==
  IF w = v /\ (Len(says) = 1 \/ Head(says).kind = "event") THEN UNCHANGED left
  ELSE InParts

\* an order of which w is carried out; the ids are given out one after the other
Opens(a, q, says) ==
  /\ q.ask = "open"
  /\ \E id \in NextId, w \in 0 .. q.vol :
       /\ says \in Tells(q, id, w, q.vol) /\ CarriedOut(w, q.vol, says)
       /\ IF w = 0 THEN UNCHANGED <<broker, taken>>
          ELSE /\ broker' = broker \cup {[id |-> id, acct |-> a, side |-> q.side, vol |-> w, full |-> w]}
               /\ taken' = taken \cup {id}
  /\ UNCHANGED parted

\* a position is closed as far as the volume goes that was asked for, or less far
Closes(a, q, says) ==
  /\ q.ask = "close"
  /\ \E p \in Mine(a) : LET due == Least(q.vol, p.vol) IN
       /\ p.id = q.pos
       /\ \E w \in 0 .. due :
            /\ says \in Tells(q, q.pos, w, due) /\ CarriedOut(w, due, says)
            /\ broker' = (broker \ {p}) \cup {r \in {[p EXCEPT !.vol = @ - w]} : r.vol > 0}
            /\ parted' = IF w < due THEN parted \cup {q.by} ELSE parted
  /\ UNCHANGED taken

\* any other request changes no position; one that cannot be carried out is an error
Reply(a, q) ==
  LET tag == <<q.by, q.ask>> IN
  CASE q.ask = "amend" /\ (\E p \in Mine(a) : p.id = q.pos) -> Told("event", tag)
    [] q.ask \in {"find", "checkOpen", "checkClose"} -> [Told("list", tag) EXCEPT !.list = Mine(a)]
    [] q.ask = "spec" -> Told("spec", tag)
    [] OTHER -> Told("error", tag)
Replies(a, q, says) ==
  /\ ~(q.ask = "open" /\ NextId # {}) /\ ~(q.ask = "close" /\ \E p \in Mine(a) : p.id = q.pos)
  /\ says = <<Reply(a, q)>>
  /\ UNCHANGED <<broker, taken, parted, left>>

\* whatever may be said of a request
Said(a, q) ==
  {<<Reply(a, q)>>} \cup
    UNION {Tells(q, id, w, v) : id \in Ids, w \in 0 .. MaxVolume, v \in Volumes}
Serve(a) ==
  LET q == Head(wire[a]) IN
  /\ wire[a] # <<>>
  /\ wire' = [wire EXCEPT ![a] = Tail(@)]
  /\ \E says \in Said(a, q) :
       /\ Opens(a, q, says) \/ Closes(a, q, says) \/ Replies(a, q, says)
       /\ back' = [back EXCEPT ![a] = @ \o says]
       /\ owed' = IF Len(says) > 1 THEN owed \cup {a} ELSE owed
  /\ UNCHANGED code

\* the broker turns an order down
Reject(a) ==
  /\ wire[a] # <<>> /\ Fault
  /\ wire' = [wire EXCEPT ![a] = Tail(@)]
  /\ back' = [back EXCEPT ![a] = Append(@, Told("error", <<Head(wire[a]).by, Head(wire[a]).ask>>))]
  /\ UNCHANGED <<code, broker, taken, parted, owed>>

\* a target or stop is met: the broker closes the position and says so if someone listens
BrokerCloses(p) ==
  /\ broker' = broker \ {p}
  /\ Fault
  /\ IF client[p.acct] = "authed"
     THEN /\ back' = [back EXCEPT ![p.acct] = Append(@, [Told("filled", <<NULL, "event">>) EXCEPT !.id = p.id])]
          /\ owed' = owed \cup {p.acct}
     ELSE UNCHANGED <<back, owed>>
  /\ UNCHANGED <<code, wire, taken, parted>>

Init ==
  /\ client = [a \in Acct |-> "none"] /\ failures = [a \in Acct |-> 0] /\ disabled = {}
  /\ sender = [a \in Acct |-> NULL] /\ slot = [a \in Acct |-> NULL]
  /\ openId = [a \in Acct |-> NULL] /\ cache = [a \in Acct |-> NULL]
  /\ job = [j \in Jobs |-> Idle]
  /\ wire = [a \in Acct |-> <<>>] /\ back = [a \in Acct |-> <<>>]
  \* an earlier process may have left a position
  /\ broker \in {{}} \cup
       {{p} : p \in {q \in Position : q.id = 1 /\ q.vol = q.full /\ q.full \in OrderVolumes}}
  /\ taken = {p.id : p \in broker} /\ parted = {} /\ owed = {} /\ left \in Bounds

Starts(j) ==
  \/ \E a \in Traded, s \in Sides : Exit(j, a, s) \/ \E v \in OrderVolumes : Enter(j, a, s, v)
  \/ \E p \in broker, v \in left.closes : CloseById(j, p, v)
Steps(j) == Connected(j) \/ Dialled(j) \/ Send(j) \/ TimeOutLost(j) \/ Go(j)
Failing(j) == DialFails(j) \/ TimeOut(j)
World(a) == Deliver(a) \/ Serve(a) \/ Reauthed(a)
Breaks(a) == Drop(a) \/ IdleDisconnect(a) \/ Reject(a)

Next ==
  \/ \E j \in Jobs : Starts(j) \/ Steps(j) \/ Failing(j)
  \/ \E a \in Acct : World(a) \/ Breaks(a)
  \/ \E p \in broker : BrokerCloses(p)

Spec == Init /\ [][Next]_vars

-----------------------------------------------------------------------------
(* Properties.                                                              *)

\* Types; and the slot belongs to the one job that waits and holds the send lock.
TypeOK ==
  /\ client \in [Acct -> {"none", "up", "authed"}]
  /\ failures \in [Acct -> 0 .. MaxFailures + Cardinality(Jobs)]
  /\ disabled \subseteq Acct
  /\ sender \in [Acct -> Jobs \cup {NULL}]
  /\ openId \in [Acct -> Ids \cup {NULL}]
  /\ \A a \in Acct : cache[a] = NULL \/ cache[a] \subseteq Position
  /\ broker \subseteq Position /\ taken \subseteq Ids /\ parted \subseteq Jobs /\ owed \subseteq Acct
  /\ \A a \in Acct : /\ back[a] \in Seq(Answer)
                     /\ slot[a] # NULL => sender[a] = slot[a] /\ job[slot[a]].pc = "wait"
  /\ \A j \in Jobs : job[j].pc = "wait" => slot[job[j].acct] = j

\* A job is resolved by the answer to another request only on an account where an answer
\* is owed to nobody: after a time-out, an announced order or a fill the broker made on its
\* own.  Locks and slot alone never mix answers up, however many jobs share an executor.
AnswersAreOwn ==
  [][\A j \in Jobs : job'[j].misled /\ ~job[j].misled => job[j].acct \in owed]_vars

\* A close that was not misled by such an answer and reports success has closed what it
\* asked for.  When the list of positions confirmed it, the position is gone from the account
\* it asked.  When an answer did, and the broker did not close less than it was told to (of a
\* part, too, the code reports success), a strategy's close has left nothing of the position,
\* and a close by id at most what its volume, given or of the lot size, leaves of it.
ClosedAsAsked ==
  \A j \in Jobs : job[j].kind \in {"exit", "byId"} /\ ~job[j].misled =>
    \A p \in broker : p.id = job[j].pos /\ p.acct = job[j].acct =>
      /\ job[j].result # "closed"
      /\ job[j].result = "ok" /\ j \notin parted
           => job[j].kind = "byId" /\ p.vol + job[j].vol <= p.full

\* No job is stuck: while one runs, a job can go on or the broker has something to do.
\* The lock, the slot and the time-out never leave everyone waiting for everyone.
NoJobIsStuck ==
  (\E j \in Jobs : Running(j)) =>
    \/ \E j \in Jobs : ENABLED Steps(j)
    \/ \E a \in Acct : wire[a] # <<>> \/ back[a] # <<>>
=============================================================================
