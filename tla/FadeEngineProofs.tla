-------------------------- MODULE FadeEngineProofs --------------------------
(***************************************************************************)
(* Theorems about the fade engine.                                         *)
(*                                                                         *)
(* The invariant comes in two parts.  The first, LInv, is about the tasks: *)
(* the lock has the holder and the waiter the tasks take it to have, and a *)
(* job carries what its stage needs.  The second, Books, is about one      *)
(* market, and relates its rows, its shares in the wallet and what the two *)
(* tasks are doing to it.  The predicates are on a table of rows rs, a job *)
(* k of one task and the job l of the other, so that the lemmas that carry *)
(* the argument are free of the machine: the two tasks are two records.    *)
(***************************************************************************)
EXTENDS FadeEngine, SequenceTheorems, FiniteSetTheorems, WellFoundedInduction, TLAPS

-----------------------------------------------------------------------------
(* The tasks. *)

\* The stages at which a task holds the lock, and those at which it is in its queue.
InLock(k) ==
    k.at \in {"balance", "held", "rebalance"} \/ k.order \in {"buy", "cash"} \/ k.then = "cash"

Needs(k) == InLock(k) \/ k.at = "lock"

\* The lock is free, or has a holder, and perhaps the other task waits.
LockIs(q, a, k, b, l) ==
    \/ q = <<>> /\ ~Needs(k) /\ ~Needs(l)
    \/ q = <<a>> /\ Needs(k) /\ ~Needs(l)
    \/ q = <<b>> /\ Needs(l) /\ ~Needs(k)
    \/ q = <<a, b>> /\ Needs(k) /\ l.at = "lock"
    \/ q = <<b, a>> /\ Needs(l) /\ k.at = "lock"

LockKept == \A a, b \in Actor : a # b => LockIs(lock, a, job[a], b, job[b])

\* The row to close is in the table, and never has fewer shares than were read.
HasRow(k, rs) == k.row \in DOMAIN rs /\ k.sh # 0 /\ k.sh <= rs[k.row].sh

\* What a job says at each of its stages.
Fits(k, rs) ==
    /\ k.at \in {"idle", "lock", "balance", "held", "rebalance"} =>
            k.order = "none" /\ k.then = "none"
    /\ k.at = "look" => k.order = "none" /\ k.then # "none"
    /\ k.at \in {"order", "filled", "refused"} =>
            /\ k.order # "none" /\ k.x \in Market /\ k.qty # 0
            /\ k.order = "exit" <=> k.then # "none"
    /\ k.at # "idle" => k.m \in Market
    /\ k.leg # 0 => k.leg \in DOMAIN rs /\ rs[k.leg].m = k.m
    /\ k.then # "none" => HasRow(k, rs)
    /\ k.order = "exit" => k.x = rs[k.row].m
    /\ k.order = "buy" => k.x = k.m
    /\ k.then = "slot" => k.leg = 0
    /\ k.leg = 0 => /\ k.then \in {"slot", "cash"} => rs[k.row].m # k.m
                    /\ k.order = "cash" => k.x # k.m
                    /\ \A c \in k.cands : c[1] # k.m
    /\ k.cands # {} => k.order = "cash" \/ k.then = "cash"

\* A seller of other positions has a candidate once, and none that failed too often.
SaleFits(k, f) ==
    /\ \A c, d \in k.cands : c[1] = d[1] => c = d
    /\ \A c \in k.cands : f[c[1]] < SellFailMax
    /\ k.order = "cash" => f[k.x] < SellFailMax /\ \A c \in k.cands : c[1] # k.x

\* Under the lock the row that is added to has legs left.
AddFits(k, rs) == InLock(k) /\ k.leg # 0 => rs[k.leg].legs < MaxAddOns

JobsFit ==
    \A a \in Actor : Fits(job[a], rows) /\ SaleFits(job[a], fails) /\ AddFits(job[a], rows)

\* The rows the sweep has still to look at: each once, none the one it is closing.
TodoFits ==
    /\ stage = "poll" => todo \subseteq Market
    /\ stage = "timeouts" =>
        /\ job["sweep"] = Idle \/ job["sweep"].then = "timeout"
        /\ \A c \in todo : /\ c \in Nat \X Nat /\ c[1] \in DOMAIN rows
                           /\ c[2] # 0 /\ c[2] <= rows[c[1]].sh
                           /\ c[1] # job["sweep"].row
                           /\ \A d \in todo : d[1] = c[1] => d = c

Quiet == {"faults", "restarts"} \cap seen = {} => resting = <<>>

LInv == TypeOK /\ LockKept /\ JobsFit /\ TodoFits /\ Quiet /\ OrdersAreFunded

-----------------------------------------------------------------------------
(* The books of a market. *)

\* Filled and not handled yet: a buy, an exit of an open row, a cash sale (until the row
\* is closed), and a buy that adds to a row closed meanwhile.
BoughtBy(k, m) == IF k.at = "filled" /\ k.order = "buy" /\ k.x = m THEN k.qty ELSE 0

SoldBy(k, m, rs) ==
    IF k.at = "filled" /\ k.order = "exit" /\ k.x = m /\ rs[k.row].open THEN k.qty ELSE 0

CashedBy(k, m, rs) ==
    \/ k.at = "filled" /\ k.order = "cash" /\ k.x = m
    \/ k.then = "cash" /\ rs[k.row].m = m

DoomedBy(k, m, rs) ==
    k.at = "filled" /\ k.order = "buy" /\ k.x = m /\ k.leg # 0 /\ ~rs[k.leg].open

\* On the way to a new entry, to the sale of a row.
EntryBy(k, m) ==
    /\ k.m = m /\ k.leg = 0
    /\ \/ k.at \in {"lock", "balance", "held", "rebalance"}
       \/ k.order \in {"buy", "cash"} \/ k.then \in {"slot", "cash"}

Closing(k, m, rs) == k.at \in {"look", "order"} /\ k.then # "none" /\ rs[k.row].m = m

OneRow(m, rs) == \A i, j \in OpenIn(rs, m) : i = j

\* The wallet w and the row differ by what is filled and not handled yet.
Balanced(m, rs, w, k, l) ==
    \/ CashedBy(k, m, rs) \/ CashedBy(l, m, rs) \/ DoomedBy(k, m, rs) \/ DoomedBy(l, m, rs)
    \/ /\ OpenIn(rs, m) = {} => w = BoughtBy(k, m) + BoughtBy(l, m)
       /\ \A i \in OpenIn(rs, m) :
              w + SoldBy(k, m, rs) + SoldBy(l, m, rs) = rs[i].sh + BoughtBy(k, m) + BoughtBy(l, m)

\* After a cash sale the wallet is empty, and its row is not entered again.
Cashed(m, rs, w, cool, k) ==
    /\ CashedBy(k, m, rs) => w = 0
    /\ k.then = "cash" /\ rs[k.row].m = m => cool /\ OpenIn(rs, m) \subseteq {k.row}

\* A cash sale sells all there is.
Covers(m, w, k) ==
    /\ k.at = "order" /\ k.order = "cash" /\ k.x = m => w <= k.qty
    /\ \A c \in k.cands : c[1] = m => w <= c[2]

LegIsOpen(m, rs, k) == InLock(k) /\ k.leg # 0 /\ k.m = m => OpenIn(rs, m) \subseteq {k.leg}

\* The exit of a row that was not added to meanwhile sells all there is.
ExitsWhole(m, rs, w, k, l) ==
    k.order = "exit" /\ k.x = m /\ rs[k.row].open /\ rs[k.row].sh = k.sh =>
        /\ k.at = "order" => k.qty <= k.sh /\ w <= k.qty + BoughtBy(l, m)
        /\ k.at = "filled" => w = BoughtBy(l, m)

\* Whoever is late to close a row that is closed finds the market cooling down.
NoReentry(m, rs, cool, k, l) ==
    Closing(k, m, rs) /\ ~rs[k.row].open => cool /\ OpenIn(rs, m) = {} /\ ~EntryBy(l, m)

Half(m, rs, w, cool, k, l) ==
    /\ Cashed(m, rs, w, cool, k) /\ Covers(m, w, k) /\ LegIsOpen(m, rs, k)
    /\ ExitsWhole(m, rs, w, k, l) /\ NoReentry(m, rs, cool, k, l)

Pair(m, rs, w, cool, k, l) ==
    /\ OneRow(m, rs) /\ Balanced(m, rs, w, k, l)
    /\ Half(m, rs, w, cool, k, l) /\ Half(m, rs, w, cool, l, k)

\* The same of the rows the sweep has still to look at.
Late(m, rs, cool, td, l) ==
    \A c \in td : rs[c[1]].m = m /\ ~rs[c[1]].open => cool /\ OpenIn(rs, m) = {} /\ ~EntryBy(l, m)

Books(m) ==
    /\ Pair(m, rows, wallet[m], m \in cooling, job["ws"], job["sweep"])
    /\ stage = "timeouts" => Late(m, rows, m \in cooling, todo, job["ws"])

BooksKept == \A m \in Market \ excused : Books(m)

FInv == LInv /\ BooksKept

-----------------------------------------------------------------------------
(* Numbers, sequences, and the records of the jobs. *)

LEMMA LeastIn ==
  ASSUME NEW S, S \subseteq Nat, S # {}
  PROVE  Min(S) \in S /\ \A y \in S : Min(S) <= y
<1>1. \E x \in S : \A y \in S : <<y, x>> \notin OpToRel(<, Nat)
  BY NatLessThanWellFounded, WFMin
<1>2. PICK x \in S : \A y \in S : <<y, x>> \notin OpToRel(<, Nat)
  BY <1>1
<1>3. \A y \in S : x <= y
  <2> TAKE y \in S
  <2>1. <<y, x>> \in Nat \X Nat /\ <<y, x>>[1] = y /\ <<y, x>>[2] = x
    OBVIOUS
  <2>2. ~(y < x)
    BY <1>2, <2>1 DEF OpToRel
  <2> QED
    BY <2>2
<1> QED
  BY <1>3 DEF Min

LEMMA LeastOfTwo ==
  ASSUME NEW x \in Nat, NEW y \in Nat
  PROVE  Min({x, y}) = IF x <= y THEN x ELSE y
<1>1. Min({x, y}) \in {x, y} /\ Min({x, y}) <= x /\ Min({x, y}) <= y
  BY LeastIn
<1> QED
  BY <1>1

LEMMA MostOfOne ==
  ASSUME NEW n \in Int
  PROVE  Max({1, n}) \in Nat /\ Max({1, n}) > 0
<1>1. \E x \in {1, n} : \A y \in {1, n} : x >= y
  <2>1. CASE n <= 1
    BY <2>1
  <2>2. CASE n > 1
    BY <2>2
  <2> QED
    BY <2>1, <2>2
<1>2. Max({1, n}) \in {1, n} /\ \A y \in {1, n} : Max({1, n}) >= y
  BY <1>1 DEF Max
<1> QED
  BY <1>2

\* A job's order is never larger than the balance it is sized from.
LEMMA SizesFit ==
  ASSUME openCids \subseteq Market, NEW bal \in Nat
  PROVE  SizeOf(bal) \in Nat /\ SizeOf(bal) <= bal
<1>1. Cardinality(openCids) \in Nat
  BY FadeAssumption, FS_Subset, FS_CardinalityType
<1> DEFINE n == Limit - Cardinality(openCids)
           d == Max({1, n})
<1>2. n \in Int
  BY <1>1, FadeAssumption
<1>3. d \in Nat /\ d > 0
  BY <1>2, MostOfOne
<1>4. SizeOf(bal) = bal \div d
  BY DEF SizeOf
<1> HIDE DEF d
<1>5. bal \div d \in Nat /\ bal \div d <= bal
  BY <1>3
<1> QED
  BY <1>4, <1>5

\* The shapes of the jobs that a step leads to.
Waiting(n, at, m, leg) ==
    /\ n.at = at /\ n.m = m /\ n.leg = leg
    /\ n.order = "none" /\ n.then = "none" /\ n.cands = {}

AtStage(n, k, at) ==
    /\ n.at = at /\ n.m = k.m /\ n.leg = k.leg /\ n.cands = k.cands /\ n.row = k.row
    /\ n.sh = k.sh /\ n.then = k.then /\ n.order = k.order /\ n.x = k.x /\ n.qty = k.qty

Sends(n, j, order, x, qty) ==
    /\ n.at = "order" /\ n.order = order /\ n.x = x /\ n.qty = qty
    /\ n.m = j.m /\ n.leg = j.leg /\ n.cands = j.cands
    /\ n.row = j.row /\ n.sh = j.sh /\ n.then = j.then

Closes(n, j, i, sh, then) ==
    /\ n.at = "look" /\ n.order = "none" /\ n.row = i /\ n.sh = sh /\ n.then = then
    /\ n.m = j.m /\ n.leg = j.leg /\ n.cands = j.cands

LEMMA IdleFields ==
  /\ Idle \in JobType
  /\ Idle.at = "idle" /\ Idle.order = "none" /\ Idle.then = "none" /\ Idle.cands = {}
  /\ Idle.m = "none" /\ Idle.leg = 0 /\ Idle.row = 0 /\ Idle.x = "none"
BY DEF Idle, JobType

LEMMA SignalFields ==
  ASSUME NEW m \in Market, NEW leg \in Nat
  PROVE  /\ Signal(m, leg) \in JobType
         /\ Waiting(Signal(m, leg), "lock", m, leg)
         /\ Signal(m, leg).row = 0 /\ Signal(m, leg).sh = 0
BY DEF Signal, Idle, JobType, Waiting

LEMMA AtFields ==
  ASSUME NEW j \in JobType,
         NEW at \in {"idle", "lock", "balance", "held", "rebalance", "look", "order",
                     "filled", "refused"}
  PROVE  LET n == [j EXCEPT !.at = at] IN n \in JobType /\ AtStage(n, j, at)
<1> DEFINE n == [j EXCEPT !.at = at]
<1>1. n \in JobType
  BY DEF JobType
<1>2. AtStage(n, j, at)
  BY DEF JobType, AtStage
<1> QED
  BY <1>1, <1>2

LEMMA BalanceFields ==
  ASSUME NEW j \in JobType, j.order = "none", j.then = "none", j.cands = {}, NEW leg \in Nat
  PROVE  LET n == [j EXCEPT !.at = "balance", !.leg = leg]
         IN  n \in JobType /\ Waiting(n, "balance", j.m, leg)
<1> DEFINE n == [j EXCEPT !.at = "balance", !.leg = leg]
<1>1. n \in JobType
  BY DEF JobType
<1>2. Waiting(n, "balance", j.m, leg)
  BY DEF JobType, Waiting
<1> QED
  BY <1>1, <1>2

LEMMA SendFields ==
  ASSUME NEW j \in JobType, NEW order \in {"buy", "cash", "exit"}, NEW x \in Market,
         NEW qty \in Nat
  PROVE  LET n == [j EXCEPT !.at = "order", !.order = order, !.x = x, !.qty = qty]
         IN  n \in JobType /\ Sends(n, j, order, x, qty)
<1> DEFINE n == [j EXCEPT !.at = "order", !.order = order, !.x = x, !.qty = qty]
<1>1. n \in JobType
  BY DEF JobType
<1>2. Sends(n, j, order, x, qty)
  BY DEF JobType, Sends
<1> QED
  BY <1>1, <1>2

LEMMA CloseFields ==
  ASSUME NEW j \in JobType, j.m \in Market, NEW i \in Nat, NEW sh \in Nat,
         NEW then \in {"tick", "slot", "timeout", "cash"}
  PROVE  LET n == [Signal(j.m, j.leg) EXCEPT !.at = "look", !.cands = j.cands, !.got = j.got,
                                             !.row = i, !.sh = sh, !.then = then]
         IN  n \in JobType /\ Closes(n, j, i, sh, then)
<1> DEFINE s == Signal(j.m, j.leg)
           n == [s EXCEPT !.at = "look", !.cands = j.cands, !.got = j.got,
                          !.row = i, !.sh = sh, !.then = then]
<1>0. j.leg \in Nat /\ j.cands \in SUBSET (Market \X (Nat \ {0})) /\ j.got \in Nat
  BY DEF JobType
<1>1. s \in JobType /\ s.m = j.m /\ s.leg = j.leg /\ s.order = "none"
  BY <1>0, SignalFields DEF Waiting
<1> HIDE DEF s
<1>2. n \in JobType
  BY <1>0, <1>1 DEF JobType
<1>3. Closes(n, j, i, sh, then)
  BY <1>1 DEF JobType, Closes
<1> QED
  BY <1>2, <1>3 DEF s

LEMMA SaleFields ==
  ASSUME NEW j \in JobType, j.m \in Market, NEW c \in j.cands
  PROVE  LET n == [Signal(j.m, j.leg) EXCEPT !.got = j.got, !.cands = j.cands \ {c}]
         IN  /\ n \in JobType /\ n.m = j.m /\ n.leg = j.leg /\ n.cands = j.cands \ {c}
             /\ n.then = "none"
<1> DEFINE s == Signal(j.m, j.leg)
<1>0. j.leg \in Nat /\ j.cands \in SUBSET (Market \X (Nat \ {0})) /\ j.got \in Nat
  BY DEF JobType
<1>1. s \in JobType /\ s.m = j.m /\ s.leg = j.leg /\ s.then = "none"
  BY <1>0, SignalFields DEF Waiting
<1> HIDE DEF s
<1> QED
  BY <1>0, <1>1 DEF JobType, s

-----------------------------------------------------------------------------
(* The lock. *)

LEMMA QueueFacts ==
  ASSUME NEW a, NEW b
  PROVE  /\ <<a>> # <<>> /\ Head(<<a>>) = a /\ Tail(<<a>>) = <<>>
         /\ <<a, b>> # <<>> /\ Head(<<a, b>>) = a /\ Tail(<<a, b>>) = <<b>>
         /\ Append(<<>>, a) = <<a>> /\ Append(<<a>>, b) = <<a, b>>
<1>1. <<a>> # <<>> /\ Head(<<a>>) = a
  OBVIOUS
<1>2. Tail(<<a>>) = <<>>
  OBVIOUS
<1>3. <<a, b>> # <<>> /\ Head(<<a, b>>) = a
  OBVIOUS
<1>4. Tail(<<a, b>>) = <<b>>
  OBVIOUS
<1>5. Append(<<>>, a) = <<a>>
  OBVIOUS
<1>6. Append(<<a>>, b) = <<a, b>>
  <2> DEFINE s == Append(<<a>>, b)
             t == <<a, b>>
  <2>1. <<a>> \in Seq({a, b}) /\ t \in Seq({a, b}) /\ Len(<<a>>) = 1 /\ Len(t) = 2
    OBVIOUS
  <2>2. t[1] = a /\ t[2] = b /\ <<a>>[1] = a
    OBVIOUS
  <2>3. s \in Seq({a, b}) /\ Len(s) = 2 /\ s[1] = a /\ s[2] = b
    BY <2>1, <2>2, AppendProperties
  <2> HIDE DEF s, t
  <2>4. \A i \in 1 .. Len(s) : s[i] = t[i]
    BY <2>2, <2>3
  <2>5. s = t
    BY <2>1, <2>3, <2>4, SeqEqual
  <2> QED
    BY <2>5 DEF s, t
<1> QED
  BY <1>1, <1>2, <1>3, <1>4, <1>5, <1>6

LEMMA IdleIsOut == ~InLock(Idle) /\ ~Needs(Idle)
BY IdleFields DEF InLock, Needs

LEMMA WaitersAreOut ==
  ASSUME NEW k, NEW rs, Fits(k, rs), k.at \in {"idle", "lock"}
  PROVE  ~InLock(k) /\ k.order = "none" /\ k.then = "none" /\ k.cands = {}
BY DEF Fits, InLock

LEMMA OneHolder ==
  ASSUME NEW q, NEW a, NEW b, NEW k, NEW l, NEW rs, Fits(k, rs), Fits(l, rs),
         LockIs(q, a, k, b, l), InLock(k)
  PROVE  /\ ~InLock(l) /\ l.order \notin {"buy", "cash"} /\ l.then # "cash" /\ l.cands = {}
         /\ k.at # "lock" /\ q # <<>> /\ Head(q) = a
<1>1. k.at # "lock" /\ Needs(k)
  BY WaitersAreOut DEF Needs
<1>2. ~InLock(l) /\ q # <<>> /\ Head(q) = a
  BY <1>1, QueueFacts, WaitersAreOut DEF LockIs, Needs
<1> QED
  BY <1>1, <1>2 DEF InLock, Fits

\* A task that is done, or goes on outside the lock, under it, or into its queue.
LEMMA LockFreed ==
  ASSUME NEW q, NEW a, NEW b, a # b, NEW k, NEW l,
         LockIs(q, a, k, b, l), k.at = "lock" => q # <<>> /\ Head(q) = a
  PROVE  LockIs(IF q # <<>> /\ Head(q) = a THEN Tail(q) ELSE q, a, Idle, b, l)
<1> DEFINE r == IF q # <<>> /\ Head(q) = a THEN Tail(q) ELSE q
<1>1. l.at = "lock" => Needs(l)
  BY DEF Needs
<1>2. CASE q = <<>> /\ ~Needs(k) /\ ~Needs(l)
  BY <1>2, IdleIsOut DEF LockIs
<1>3. CASE q = <<a>> /\ Needs(k) /\ ~Needs(l)
  <2>1. r = <<>>
    BY <1>3, QueueFacts
  <2> QED
    BY <1>3, <2>1, IdleIsOut DEF LockIs
<1>4. CASE q = <<b>> /\ Needs(l) /\ ~Needs(k)
  <2>1. r = <<b>>
    BY <1>4, QueueFacts
  <2> QED
    BY <1>4, <2>1, IdleIsOut DEF LockIs
<1>5. CASE q = <<a, b>> /\ Needs(k) /\ l.at = "lock"
  <2>1. r = <<b>>
    BY <1>5, QueueFacts
  <2> QED
    BY <1>1, <1>5, <2>1, IdleIsOut DEF LockIs
<1>6. CASE q = <<b, a>> /\ Needs(l) /\ k.at = "lock"
  BY <1>6, QueueFacts
<1> QED
  BY <1>2, <1>3, <1>4, <1>5, <1>6 DEF LockIs

LEMMA LockHeld ==
  ASSUME NEW q, NEW a, NEW b, a # b, NEW k, NEW l, NEW n, NEW rs, Fits(k, rs),
         LockIs(q, a, k, b, l), InLock(k), InLock(n)
  PROVE  LockIs(q, a, n, b, l)
<1>1. k.at # "lock" /\ Needs(k) /\ Needs(n)
  BY WaitersAreOut DEF Needs
<1> QED
  BY <1>1 DEF LockIs

LEMMA LockLeftAlone ==
  ASSUME NEW q, NEW a, NEW b, a # b, NEW k, NEW l, NEW n,
         LockIs(q, a, k, b, l), ~Needs(k), ~Needs(n)
  PROVE  LockIs(q, a, n, b, l)
<1>1. k.at # "lock"
  BY DEF Needs
<1> QED
  BY <1>1 DEF LockIs

LEMMA LockTaken ==
  ASSUME NEW a, NEW b, a # b, NEW k, NEW l, NEW n,
         LockIs(<<>>, a, k, b, l), InLock(n)
  PROVE  LockIs(<<a>>, a, n, b, l)
BY QueueFacts DEF LockIs, Needs

LEMMA LockQueued ==
  ASSUME NEW q, NEW a, NEW b, a # b, NEW k, NEW l, NEW n,
         LockIs(q, a, k, b, l), ~Needs(k), q # <<>>, n.at = "lock"
  PROVE  LockIs(Append(q, a), a, n, b, l)
<1>1. k.at # "lock"
  BY DEF Needs
<1>2. q = <<b>> /\ Needs(l)
  BY <1>1 DEF LockIs
<1> QED
  BY <1>2, QueueFacts DEF LockIs

LEMMA LockPassed ==
  ASSUME NEW q, NEW a, NEW b, a # b, NEW k, NEW l, NEW n,
         LockIs(q, a, k, b, l), k.at = "lock", q # <<>>, Head(q) = a, InLock(n)
  PROVE  LockIs(q, a, n, b, l)
<1>1. Needs(k) /\ Needs(n)
  BY DEF Needs
<1> QED
  BY <1>1, QueueFacts DEF LockIs

-----------------------------------------------------------------------------
(* What a step does to the task that takes it. *)

TaskStep(a) ==
    /\ job' \in [Actor -> JobType]
    /\ \A b \in Actor : b # a => job'[b] = job[b] /\ LockIs(lock', a, job'[a], b, job[b])

\* n has entered the lock for market m (leg 0), or for an add-on in the table rs.
AtBalance(n, m, leg, rs) ==
    /\ Waiting(n, "balance", m, n.leg)
    /\ leg = 0 => n.leg = 0
    /\ leg # 0 => n.leg \in OpenIn(rs, m) /\ rs[n.leg].legs < MaxAddOns

Entered(n, m, leg, rs) ==
    n = Idle \/ Waiting(n, "lock", m, leg) \/ AtBalance(n, m, leg, rs)

\* n has a candidate c of j at the exchange.
Sells(n, j, c) ==
    /\ n.at = "order" /\ n.order = "cash" /\ n.x = c[1] /\ n.qty = c[2] /\ n.then = "none"
    /\ n.m = j.m /\ n.leg = j.leg /\ n.cands = j.cands \ {c}

Sold(n, j) ==
    n = Idle \/ Waiting(n, "rebalance", j.m, j.leg) \/ \E c \in j.cands : Sells(n, j, c)

\* n is what follows the close of the row of j, rs being the table by then.
After(n, j, rs) ==
    \/ n = Idle /\ j.then # "cash"
    \/ j.then = "cash" /\ Sold(n, j)
    \/ j.then = "slot" /\ Entered(n, j.m, 0, rs)
    \/ j.then = "tick" /\ Entered(n, rs[j.row].m, j.row, rs)

LEMMA Actors == /\ "ws" \in Actor /\ "sweep" \in Actor
                /\ \A a \in Actor : a = "ws" \/ a = "sweep"
                /\ \A a \in Actor : \E b \in Actor : a # b
                /\ \A a, b, c \in Actor : a # b => c = a \/ c = b
BY DEF Actor

LEMMA JobFacts ==
  ASSUME LInv, NEW a \in Actor
  PROVE  /\ job \in [Actor -> JobType] /\ job[a] \in JobType
         /\ Fits(job[a], rows) /\ SaleFits(job[a], fails) /\ AddFits(job[a], rows)
         /\ \A b \in Actor : a # b => LockIs(lock, a, job[a], b, job[b])
BY DEF LInv, TypeOK, LockKept, JobsFit

LEMMA JobTypes ==
  ASSUME NEW k \in JobType
  PROVE  /\ k.leg \in Nat /\ k.row \in Nat /\ k.sh \in Nat /\ k.qty \in Nat /\ k.got \in Nat
         /\ k.cands \in SUBSET (Market \X (Nat \ {0}))
         /\ k.m \in Market \cup {"none"} /\ k.x \in Market \cup {"none"}
         /\ k.then \in {"none", "tick", "slot", "timeout", "cash"}
         /\ k.order \in {"none", "buy", "cash", "exit"}
         /\ k.at \in {"idle", "lock", "balance", "held", "rebalance", "look", "order",
                      "filled", "refused"}
BY DEF JobType

LEMMA Going ==
  ASSUME job \in [Actor -> JobType], NEW a \in Actor, NEW n \in JobType, Goto(a, n)
  PROVE  /\ job' \in [Actor -> JobType] /\ job'[a] = n
         /\ \A b \in Actor : b # a => job'[b] = job[b]
BY DEF Goto

LEMMA FinishLeads ==
  ASSUME LInv, NEW a \in Actor, Finish(a),
         job[a].at = "lock" => lock # <<>> /\ Head(lock) = a
  PROVE  TaskStep(a) /\ job'[a] = Idle
<1>1. /\ job' \in [Actor -> JobType] /\ job'[a] = Idle
      /\ \A b \in Actor : b # a => job'[b] = job[b]
  BY JobFacts, Going, IdleFields DEF Finish
<1>2. ASSUME NEW b \in Actor, b # a
      PROVE  LockIs(lock', a, Idle, b, job[b])
  <2>1. LockIs(lock, a, job[a], b, job[b])
    BY <1>2, JobFacts
  <2>2. LockIs(IF lock # <<>> /\ Head(lock) = a THEN Tail(lock) ELSE lock, a, Idle, b, job[b])
    BY <1>2, <2>1, LockFreed
  <2> QED
    BY <2>2 DEF Finish
<1> QED
  BY <1>1, <1>2 DEF TaskStep

\* A task goes on under the lock.
LEMMA HoldLeads ==
  ASSUME LInv, NEW a \in Actor, InLock(job[a]), NEW n \in JobType, InLock(n),
         Goto(a, n), lock' = lock
  PROVE  TaskStep(a) /\ job'[a] = n
<1>1. /\ job' \in [Actor -> JobType] /\ job'[a] = n
      /\ \A b \in Actor : b # a => job'[b] = job[b]
  BY JobFacts, Going
<1>2. ASSUME NEW b \in Actor, b # a
      PROVE  LockIs(lock', a, n, b, job[b])
  BY <1>2, JobFacts, LockHeld
<1> QED
  BY <1>1, <1>2 DEF TaskStep

\* ... or outside of it.
LEMMA OutsideLeads ==
  ASSUME LInv, NEW a \in Actor, ~Needs(job[a]), NEW n \in JobType, ~Needs(n),
         Goto(a, n), lock' = lock
  PROVE  TaskStep(a) /\ job'[a] = n
<1>1. /\ job' \in [Actor -> JobType] /\ job'[a] = n
      /\ \A b \in Actor : b # a => job'[b] = job[b]
  BY JobFacts, Going
<1>2. ASSUME NEW b \in Actor, b # a
      PROVE  LockIs(lock', a, n, b, job[b])
  BY <1>2, JobFacts, LockLeftAlone
<1> QED
  BY <1>1, <1>2 DEF TaskStep

\* A table of rows, and the row an add-on reads in it.
Table(rs) == DOMAIN rs \subseteq Nat \ {0} /\ \A i \in DOMAIN rs : rs[i] \in Row

LEMMA RowsAreTable == LInv => Table(rows)
<1> SUFFICES ASSUME LInv PROVE Table(rows)
  OBVIOUS
<1>1. rows \in Seq(Row)
  BY DEF LInv, TypeOK
<1>2. DOMAIN rows = 1 .. Len(rows) /\ Len(rows) \in Nat /\ rows \in [1 .. Len(rows) -> Row]
  BY <1>1, LenProperties
<1> QED
  BY <1>2 DEF Table

LEMMA FirstOpen ==
  ASSUME NEW rs, Table(rs), NEW m, OpenIn(rs, m) # {}
  PROVE  /\ OpenPosition(rs, m) \in OpenIn(rs, m) /\ OpenPosition(rs, m) \in DOMAIN rs
         /\ OpenPosition(rs, m) \in Nat \ {0}
         /\ rs[OpenPosition(rs, m)] \in Row /\ rs[OpenPosition(rs, m)].m = m
         /\ rs[OpenPosition(rs, m)].open
<1>1. OpenIn(rs, m) \subseteq DOMAIN rs /\ OpenIn(rs, m) \subseteq Nat
  BY DEF OpenIn, Table
<1>2. OpenPosition(rs, m) \in OpenIn(rs, m)
  BY <1>1, LeastIn DEF OpenPosition
<1> QED
  BY <1>1, <1>2 DEF OpenIn, Table

LEMMA LockedLeads ==
  ASSUME LInv, NEW a \in Actor, NEW j \in JobType, NEW rs, Table(rs),
         j.m \in Market, Waiting(j, "lock", j.m, j.leg), Locked(a, j, rs),
         \/ lock = <<>> /\ ~Needs(job[a])
         \/ job[a].at = "lock" /\ lock # <<>> /\ Head(lock) = a
  PROVE  TaskStep(a) /\ (job'[a] = Idle \/ AtBalance(job'[a], j.m, j.leg, rs))
<1>1. CASE j.leg > 0 /\ ~MayAdd(rs, j.m)
  <2>1. job[a].at = "lock" => lock # <<>> /\ Head(lock) = a
    BY DEF Needs
  <2> QED
    BY <1>1, <2>1, FinishLeads DEF Locked
<1>2. CASE ~(j.leg > 0 /\ ~MayAdd(rs, j.m))
  <2> DEFINE leg == IF j.leg > 0 THEN OpenPosition(rs, j.m) ELSE 0
             n == [j EXCEPT !.at = "balance", !.leg = leg]
  <2>0. j.leg \in Nat
    BY JobTypes
  <2>1. leg \in Nat /\ (j.leg = 0 => leg = 0)
        /\ (j.leg # 0 => leg \in OpenIn(rs, j.m) /\ rs[leg].legs < MaxAddOns)
    BY <1>2, <2>0, FirstOpen DEF MayAdd
  <2>2. Goto(a, n) /\ lock' = IF lock = <<>> THEN <<a>> ELSE lock
    BY <1>2 DEF Locked
  <2> HIDE DEF leg
  <2>3. n \in JobType /\ AtBalance(n, j.m, j.leg, rs)
    <3>1. n \in JobType /\ Waiting(n, "balance", j.m, leg)
      BY <2>1, BalanceFields DEF Waiting
    <3> QED
      BY <2>1, <3>1 DEF Waiting, AtBalance
  <2>4. InLock(n)
    BY <2>3 DEF AtBalance, Waiting, InLock
  <2> HIDE DEF n
  <2>5. /\ job' \in [Actor -> JobType] /\ job'[a] = n
        /\ \A b \in Actor : b # a => job'[b] = job[b]
    BY <2>2, <2>3, JobFacts, Going
  <2>6. ASSUME NEW b \in Actor, b # a
        PROVE  LockIs(lock', a, n, b, job[b])
    <3>1. LockIs(lock, a, job[a], b, job[b])
      BY <2>6, JobFacts
    <3>2. CASE lock = <<>>
      BY <2>2, <2>4, <2>6, <3>1, <3>2, LockTaken
    <3>3. CASE lock # <<>>
      BY <2>2, <2>4, <2>6, <3>1, <3>3, LockPassed
    <3> QED
      BY <3>2, <3>3
  <2> QED
    BY <2>3, <2>5, <2>6 DEF TaskStep
<1> QED
  BY <1>1, <1>2

LEMMA EnterLeads ==
  ASSUME LInv, NEW a \in Actor, NEW m \in Market, NEW leg \in Nat, NEW rs, Table(rs),
         ~Needs(job[a]), Enter(a, Signal(m, leg), rs)
  PROVE  TaskStep(a) /\ Entered(job'[a], m, leg, rs)
<1> DEFINE j == Signal(m, leg)
<1>1. j \in JobType /\ Waiting(j, "lock", m, leg)
  BY SignalFields
<1> HIDE DEF j
<1>2. j.m = m /\ j.leg = leg /\ j.at = "lock" /\ Waiting(j, "lock", j.m, j.leg)
  BY <1>1 DEF Waiting
<1>3. CASE lock = <<>>
  <2>1. Locked(a, j, rs)
    BY <1>3 DEF Enter, j
  <2> QED
    BY <1>1, <1>2, <1>3, <2>1, LockedLeads DEF Entered
<1>4. CASE lock # <<>>
  <2>1. Goto(a, j) /\ lock' = Append(lock, a)
    BY <1>4 DEF Enter, j
  <2>2. /\ job' \in [Actor -> JobType] /\ job'[a] = j
        /\ \A b \in Actor : b # a => job'[b] = job[b]
    BY <1>1, <2>1, JobFacts, Going
  <2>3. ASSUME NEW b \in Actor, b # a
        PROVE  LockIs(lock', a, j, b, job[b])
    BY <1>2, <1>4, <2>1, <2>3, JobFacts, LockQueued
  <2> QED
    BY <1>1, <2>2, <2>3 DEF TaskStep, Entered
<1> QED
  BY <1>3, <1>4

LEMMA AfterSaleLeads ==
  ASSUME LInv, NEW a \in Actor, InLock(job[a]), NEW j \in JobType, j.m \in Market,
         AfterSale(a, j)
  PROVE  TaskStep(a) /\ Sold(job'[a], j) /\ inflight' \subseteq Market
<1>0. /\ inflight \subseteq Market /\ j.leg \in Nat
      /\ j.cands \subseteq Market \X (Nat \ {0})
  BY JobTypes DEF LInv, TypeOK
<1>1. job[a].at # "lock"
  BY JobFacts, WaitersAreOut
<1>2. CASE Finish(a) /\ UNCHANGED inflight
  BY <1>0, <1>1, <1>2, FinishLeads DEF Sold
<1>3. CASE /\ Goto(a, [Signal(j.m, j.leg) EXCEPT !.at = "rebalance"])
           /\ UNCHANGED <<lock, inflight>>
  <2> DEFINE s == Signal(j.m, j.leg)
             n == [s EXCEPT !.at = "rebalance"]
  <2>1. s \in JobType /\ Waiting(s, "lock", j.m, j.leg)
    BY <1>0, SignalFields
  <2>2. n \in JobType /\ AtStage(n, s, "rebalance")
    <3> HIDE DEF s
    <3> QED
      BY <2>1, AtFields
  <2>3. Waiting(n, "rebalance", j.m, j.leg) /\ InLock(n)
    <3> HIDE DEF s, n
    <3> QED
      BY <2>1, <2>2 DEF AtStage, Waiting, InLock
  <2>4. Goto(a, n) /\ lock' = lock
    BY <1>3
  <2> HIDE DEF n
  <2> QED
    BY <1>0, <1>3, <2>2, <2>3, <2>4, HoldLeads DEF Sold
<1>4. ASSUME NEW c \in j.cands,
             Send(a, [Signal(j.m, j.leg) EXCEPT !.got = j.got, !.cands = j.cands \ {c}],
                  "cash", c[1], c[2]),
             inflight' = inflight \cup {c[1]}, UNCHANGED lock
      PROVE  TaskStep(a) /\ Sold(job'[a], j) /\ inflight' \subseteq Market
  <2> DEFINE s == [Signal(j.m, j.leg) EXCEPT !.got = j.got, !.cands = j.cands \ {c}]
             n == [s EXCEPT !.at = "order", !.order = "cash", !.x = c[1], !.qty = c[2]]
  <2>1. c[1] \in Market /\ c[2] \in Nat
    BY <1>0
  <2>2. /\ s \in JobType /\ s.m = j.m /\ s.leg = j.leg /\ s.cands = j.cands \ {c}
        /\ s.then = "none"
    BY SaleFields
  <2>3. n \in JobType /\ Sends(n, s, "cash", c[1], c[2])
    <3> HIDE DEF s
    <3> QED
      BY <2>1, <2>2, SendFields
  <2>4. Sells(n, j, c) /\ InLock(n)
    <3> HIDE DEF s, n
    <3> QED
      BY <2>2, <2>3 DEF Sends, Sells, InLock
  <2>5. Goto(a, n) /\ lock' = lock
    BY <1>4 DEF Send
  <2> HIDE DEF n
  <2> QED
    BY <1>0, <1>4, <2>1, <2>3, <2>4, <2>5, HoldLeads DEF Sold
<1> QED
  BY <1>2, <1>3, <1>4 DEF AfterSale

\* What is known of a task that closes a row.
ClosesRow(k) ==
    k.at \in {"look", "filled", "refused"} /\ k.then # "none"

LEMMA AfterCloseLeads ==
  ASSUME LInv, NEW a \in Actor, ClosesRow(job[a]), NEW oc, AfterClose(a, job[a], oc),
         Table(rows'), job[a].row \in DOMAIN rows',
         rows'[job[a].row].m = rows[job[a].row].m
  PROVE  TaskStep(a) /\ After(job'[a], job[a], rows') /\ inflight' \subseteq Market
<1> DEFINE j == job[a]
           m == rows[j.row].m
<1>0. /\ inflight \subseteq Market /\ j \in JobType /\ j.m \in Market
      /\ j.order \notin {"buy", "cash"} /\ j.at \notin {"lock", "balance", "held", "rebalance"}
      /\ j.row \in Nat /\ j.then \in {"tick", "slot", "timeout", "cash"}
  BY JobFacts, JobTypes DEF LInv, TypeOK, ClosesRow, Fits
<1>1. m \in Market
  BY RowsAreTable, JobFacts DEF ClosesRow, Fits, HasRow, Table, Row
<1>2. CASE j.then = "cash" /\ AfterSale(a, j)
  <2>1. InLock(j)
    BY <1>2 DEF InLock
  <2> QED
    BY <1>0, <1>2, <2>1, AfterSaleLeads DEF After
<1>3. j.then # "cash" => ~Needs(j)
  BY <1>0 DEF Needs, InLock
<1>4. CASE j.then = "slot" /\ Enter(a, Signal(j.m, 0), rows') /\ UNCHANGED inflight
  BY <1>0, <1>3, <1>4, EnterLeads DEF After
<1>5. CASE j.then = "tick" /\ Enter(a, Signal(m, j.row), rows') /\ UNCHANGED inflight
  BY <1>0, <1>1, <1>3, <1>5, EnterLeads DEF After
<1>6. CASE j.then # "cash" /\ Finish(a) /\ UNCHANGED inflight
  BY <1>0, <1>6, FinishLeads DEF After
<1> QED
  BY <1>2, <1>4, <1>5, <1>6 DEF AfterClose

-----------------------------------------------------------------------------
(* Jobs carry what their stages need. *)

\* The table rt has the rows of rs, none of which changed its market or lost shares.
Grows(rs, rt) ==
    /\ Table(rs) /\ Table(rt) /\ DOMAIN rs \subseteq DOMAIN rt
    /\ \A i \in DOMAIN rs : rt[i].m = rs[i].m /\ rs[i].sh <= rt[i].sh

LEMMA FitsLater ==
  ASSUME NEW k \in JobType, NEW rs, NEW rt, Grows(rs, rt), Fits(k, rs)
  PROVE  Fits(k, rt)
<1>1. k.then # "none" => HasRow(k, rt) /\ rt[k.row].m = rs[k.row].m
  <2> SUFFICES ASSUME k.then # "none" PROVE HasRow(k, rt) /\ rt[k.row].m = rs[k.row].m
    OBVIOUS
  <2>1. k.row \in DOMAIN rs /\ k.sh <= rs[k.row].sh /\ k.sh # 0 /\ k.sh \in Nat
    BY JobTypes DEF Fits, HasRow
  <2>2. rs[k.row].sh \in Nat /\ rt[k.row].sh \in Nat
    BY <2>1 DEF Grows, Table, Row
  <2> QED
    BY <2>1, <2>2 DEF HasRow, Grows
<1>2. k.leg # 0 => k.leg \in DOMAIN rt /\ rt[k.leg].m = k.m
  BY DEF Grows, Fits
<1>3. k.order = "exit" => k.then # "none"
  BY JobTypes DEF Fits
<1> QED
  BY <1>1, <1>2, <1>3 DEF Fits

LEMMA IdleFits ==
  ASSUME NEW rs, NEW f
  PROVE  Fits(Idle, rs) /\ SaleFits(Idle, f) /\ AddFits(Idle, rs)
BY IdleFields DEF Fits, SaleFits, AddFits, InLock

LEMMA WaitingFits ==
  ASSUME NEW n, NEW at \in {"lock", "balance", "held", "rebalance"}, NEW m \in Market, NEW leg,
         NEW rs, NEW f, Waiting(n, at, m, leg),
         leg # 0 => leg \in DOMAIN rs /\ rs[leg].m = m,
         at # "lock" /\ leg # 0 => rs[leg].legs < MaxAddOns
  PROVE  Fits(n, rs) /\ SaleFits(n, f) /\ AddFits(n, rs)
BY DEF Waiting, Fits, SaleFits, AddFits, InLock

LEMMA EnteredFits ==
  ASSUME NEW n, NEW m \in Market, NEW leg, NEW rs, NEW f, Entered(n, m, leg, rs),
         leg # 0 => leg \in DOMAIN rs /\ rs[leg].m = m
  PROVE  Fits(n, rs) /\ SaleFits(n, f) /\ AddFits(n, rs)
<1>1. CASE n = Idle
  BY <1>1, IdleFits
<1>2. CASE Waiting(n, "lock", m, leg)
  BY <1>2, WaitingFits
<1>3. CASE AtBalance(n, m, leg, rs)
  BY <1>3, WaitingFits DEF AtBalance, OpenIn
<1> QED
  BY <1>1, <1>2, <1>3 DEF Entered

\* What a seller of other positions knows.
Seller(j, rs, f) ==
    /\ j.m \in Market /\ j.cands \subseteq Market \X (Nat \ {0})
    /\ j.leg # 0 => j.leg \in DOMAIN rs /\ rs[j.leg].m = j.m /\ rs[j.leg].legs < MaxAddOns
    /\ j.leg = 0 => \A c \in j.cands : c[1] # j.m
    /\ \A c, d \in j.cands : c[1] = d[1] => c = d
    /\ \A c \in j.cands : f[c[1]] < SellFailMax

LEMMA SoldFits ==
  ASSUME NEW n, NEW j, NEW rs, NEW f, Sold(n, j), Seller(j, rs, f)
  PROVE  Fits(n, rs) /\ SaleFits(n, f) /\ AddFits(n, rs)
<1>1. CASE n = Idle
  BY <1>1, IdleFits
<1>2. CASE Waiting(n, "rebalance", j.m, j.leg)
  BY <1>2, WaitingFits DEF Seller
<1>3. ASSUME NEW c \in j.cands, Sells(n, j, c)
      PROVE  Fits(n, rs) /\ SaleFits(n, f) /\ AddFits(n, rs)
  <2>1. c[1] \in Market /\ c[2] \in Nat \ {0}
    BY DEF Seller
  <2>2. Fits(n, rs)
    BY <1>3, <2>1 DEF Sells, Seller, Fits
  <2>3. SaleFits(n, f)
    BY <1>3, <2>1 DEF Sells, Seller, SaleFits
  <2>4. AddFits(n, rs)
    BY <1>3, <2>1 DEF Sells, Seller, AddFits
  <2> QED
    BY <2>2, <2>3, <2>4
<1> QED
  BY <1>1, <1>2, <1>3 DEF Sold

LEMMA CashCloserSells ==
  ASSUME NEW k \in JobType, NEW rs, NEW f, Fits(k, rs), SaleFits(k, f), AddFits(k, rs),
         k.then = "cash" \/ k.order = "cash"
  PROVE  Seller(k, rs, f)
BY JobTypes DEF Fits, SaleFits, AddFits, InLock, Seller

LEMMA AfterFits ==
  ASSUME NEW n, NEW k \in JobType, NEW rs, NEW f, After(n, k, rs), Table(rs),
         Fits(k, rs), SaleFits(k, f), AddFits(k, rs), k.then # "none"
  PROVE  Fits(n, rs) /\ SaleFits(n, f) /\ AddFits(n, rs)
<1>1. /\ k.m \in Market /\ k.row \in DOMAIN rs /\ rs[k.row].m \in Market
  BY DEF Fits, HasRow, Table, Row
<1>2. CASE n = Idle
  BY <1>2, IdleFits
<1>3. CASE k.then = "cash" /\ Sold(n, k)
  BY <1>3, CashCloserSells, SoldFits
<1>4. CASE k.then = "slot" /\ Entered(n, k.m, 0, rs)
  BY <1>1, <1>4, EnteredFits
<1>5. CASE k.then = "tick" /\ Entered(n, rs[k.row].m, k.row, rs)
  BY <1>1, <1>5, EnteredFits
<1> QED
  BY <1>2, <1>3, <1>4, <1>5 DEF After

-----------------------------------------------------------------------------
(* Steps of one task. *)

Kinds == {"signals", "adds", "faults", "restarts", "screens", "edits"}

LEMMA Spending ==
  ASSUME LInv, NEW k \in Kinds, Spend(k) \/ UNCHANGED bounds
  PROVE  /\ left' \in [Kinds -> Nat] /\ seen \subseteq seen'
         /\ Spend(k) => k \in seen' /\ left'[k] < left[k]
BY DEF LInv, TypeOK, Spend, bounds, Kinds

LEMMA LockTypes ==
  ASSUME NEW q, NEW j, \A a, b \in Actor : a # b => LockIs(q, a, j[a], b, j[b])
  PROVE  \/ q = <<>>
         \/ \E a \in Actor : q = <<a>>
         \/ \E a, b \in Actor : a # b /\ q = <<a, b>>
<1>1. LockIs(q, "ws", j["ws"], "sweep", j["sweep"])
  BY DEF Actor
<1> QED
  BY <1>1, Actors DEF LockIs

\* A task that waits for the lock or holds it is not sweeping the rows.
LEMMA SweepIsOut ==
  ASSUME LInv, stage = "timeouts"
  PROVE  ~Needs(job["sweep"]) /\ (job["sweep"] = Idle \/ job["sweep"].then = "timeout")
<1>1. job["sweep"] = Idle \/ job["sweep"].then = "timeout"
  BY DEF LInv, TodoFits
<1>2. CASE job["sweep"] = Idle
  BY <1>2, IdleIsOut
<1>3. CASE job["sweep"].then = "timeout"
  BY <1>3, Actors, JobFacts, JobTypes DEF Needs, InLock, Fits
<1> QED
  BY <1>1, <1>2, <1>3

LEMMA TodoKept ==
  ASSUME LInv, NEW a \in Actor, TaskStep(a), Grows(rows, rows'), UNCHANGED <<stage, todo>>,
         a = "sweep" /\ stage = "timeouts" =>
            job'[a] = Idle \/ (job'[a].then = "timeout" /\ job'[a].row = job[a].row)
  PROVE  TodoFits'
<1>1. TodoFits
  BY DEF LInv
<1>2. stage' = "poll" => todo' \subseteq Market
  BY <1>1 DEF TodoFits
<1>3. ASSUME stage' = "timeouts"
      PROVE  job'["sweep"] = Idle \/ job'["sweep"].then = "timeout"
  BY <1>1, <1>3, Actors DEF TodoFits, TaskStep
<1>4. ASSUME stage' = "timeouts", NEW c \in todo'
      PROVE  /\ c \in Nat \X Nat /\ c[1] \in DOMAIN rows'
             /\ c[2] # 0 /\ c[2] <= rows'[c[1]].sh
             /\ c[1] # job'["sweep"].row
             /\ \A d \in todo' : d[1] = c[1] => d = c
  <2>1. /\ c \in Nat \X Nat /\ c[1] \in DOMAIN rows /\ c[2] # 0 /\ c[2] <= rows[c[1]].sh
        /\ c[1] # job["sweep"].row /\ \A d \in todo : d[1] = c[1] => d = c
    BY <1>1, <1>4 DEF TodoFits
  <2>2. rows[c[1]].sh \in Nat /\ rows'[c[1]].sh \in Nat /\ rows[c[1]].sh <= rows'[c[1]].sh
        /\ c[1] \in DOMAIN rows' /\ c[1] # 0 /\ c[2] \in Nat
    BY <2>1 DEF Grows, Table, Row
  <2>3. job'["sweep"].row = job["sweep"].row \/ job'["sweep"].row = 0
    BY <1>4, Actors, IdleFields DEF TaskStep
  <2> QED
    BY <2>1, <2>2, <2>3
<1> QED
  BY <1>2, <1>3, <1>4 DEF TodoFits

LEMMA TaskKeeps ==
  ASSUME LInv, NEW a \in Actor, TaskStep(a), Grows(rows, rows'),
         Fits(job'[a], rows'), SaleFits(job'[a], fails'), AddFits(job'[a], rows'),
         \A b \in Actor : b # a => SaleFits(job[b], fails') /\ AddFits(job[b], rows'),
         TodoFits', UNCHANGED <<watch, manual, stage, wallet, cash, resting>>,
         rows' \in Seq(Row), fails' \in [Market -> 0..SellFailMax],
         openCids' \subseteq Market, yesMap' \subseteq Market, cooling' \subseteq Market,
         inflight' \subseteq Market, excused' \subseteq Market,
         left' \in [Kinds -> Nat], seen \subseteq seen',
         {"faults", "restarts"} \cap seen' = {} =>
             (job'[a].at = "order" /\ job'[a].order = "buy" => job'[a].qty <= cash)
  PROVE  LInv'
<1>1. LockKept'
  <2>1. ASSUME NEW b \in Actor, NEW c \in Actor, b # c
        PROVE  LockIs(lock', b, job'[b], c, job'[c])
    <3>1. CASE b = a
      BY <2>1, <3>1 DEF TaskStep
    <3>2. CASE c = a
      BY <2>1, <3>2 DEF TaskStep, LockIs
    <3>3. CASE b # a /\ c # a
      BY <2>1, <3>3, Actors DEF LInv, LockKept, TaskStep
    <3> QED
      BY <3>1, <3>2, <3>3
  <2> QED
    BY <2>1 DEF LockKept
<1>2. JobsFit'
  <2>1. ASSUME NEW b \in Actor
        PROVE  Fits(job'[b], rows') /\ SaleFits(job'[b], fails') /\ AddFits(job'[b], rows')
    <3>1. CASE b = a
      BY <3>1
    <3>2. CASE b # a
      <4>1. job[b] \in JobType /\ Fits(job[b], rows) /\ job'[b] = job[b]
        BY <3>2, JobFacts DEF TaskStep
      <4>2. Fits(job[b], rows')
        BY <4>1, FitsLater
      <4> QED
        BY <3>2, <4>1, <4>2
    <3> QED
      BY <3>1, <3>2
  <2> QED
    BY <2>1 DEF JobsFit
<1>3. TypeOK'
  <2>1. \/ lock' = <<>>
        \/ \E c \in Actor : lock' = <<c>>
        \/ \E c, b \in Actor : c # b /\ lock' = <<c, b>>
    BY <1>1, LockTypes DEF LockKept
  <2>2. job' \in [Actor -> JobType]
    BY DEF TaskStep
  <2> QED
    BY <2>1, <2>2 DEF LInv, TypeOK, Kinds
<1>4. Quiet'
  BY DEF LInv, Quiet
<1>5. OrdersAreFunded'
  <2>1. ASSUME {"faults", "restarts"} \cap seen' = {}, NEW b \in Actor,
               job'[b].at = "order", job'[b].order = "buy"
        PROVE  job'[b].qty <= cash'
    <3>1. CASE b = a
      BY <2>1, <3>1
    <3>2. CASE b # a
      <4>1. {"faults", "restarts"} \cap seen = {} /\ job'[b] = job[b]
        BY <2>1, <3>2 DEF TaskStep
      <4> QED
        BY <2>1, <4>1 DEF LInv, OrdersAreFunded, Replied
    <3> QED
      BY <3>1, <3>2
  <2> QED
    BY <2>1 DEF OrdersAreFunded, Replied
<1> QED
  BY <1>1, <1>2, <1>3, <1>4, <1>5 DEF LInv

LEMMA SameRowsGrow == LInv /\ UNCHANGED rows => Grows(rows, rows')
<1> SUFFICES ASSUME LInv, UNCHANGED rows PROVE Grows(rows, rows')
  OBVIOUS
<1>1. Table(rows)
  BY RowsAreTable
<1>2. \A i \in DOMAIN rows : rows[i].sh \in Nat
  BY <1>1 DEF Table, Row
<1> QED
  BY <1>1, <1>2 DEF Grows

\* A step that leaves the table, the failures and the account alone.
LEMMA CalmKeeps ==
  ASSUME LInv, NEW a \in Actor, TaskStep(a),
         Fits(job'[a], rows), SaleFits(job'[a], fails), AddFits(job'[a], rows),
         UNCHANGED <<ledger, fails, stage, account>>, TodoFits',
         openCids' \subseteq Market, yesMap' \subseteq Market, cooling' \subseteq Market,
         inflight' \subseteq Market, excused' \subseteq Market,
         left' \in [Kinds -> Nat], seen \subseteq seen',
         {"faults", "restarts"} \cap seen' = {} =>
             (job'[a].at = "order" /\ job'[a].order = "buy" => job'[a].qty <= cash)
  PROVE  LInv'
<1>1. rows' \in Seq(Row) /\ fails' \in [Market -> 0..SellFailMax]
  BY DEF LInv, TypeOK, ledger
<1>2. Grows(rows, rows')
  BY SameRowsGrow DEF ledger
<1>3. \A b \in Actor : SaleFits(job[b], fails) /\ AddFits(job[b], rows)
  BY DEF LInv, JobsFit
<1> QED
  BY <1>1, <1>2, <1>3, TaskKeeps DEF ledger, account

LEMMA MemoryTypes ==
  ASSUME LInv
  PROVE  /\ openCids \subseteq Market /\ yesMap \subseteq Market /\ cooling \subseteq Market
         /\ inflight \subseteq Market /\ excused \subseteq Market
BY DEF LInv, TypeOK

LEMMA CloseLeads ==
  ASSUME LInv, NEW a \in Actor, NEW j \in JobType, j.m \in Market, NEW i \in Nat, NEW sh \in Nat,
         NEW then \in {"tick", "slot", "timeout", "cash"}, Close(a, j, i, sh, then),
         IF then = "cash" THEN InLock(job[a]) ELSE ~Needs(job[a]), UNCHANGED lock
  PROVE  TaskStep(a) /\ Closes(job'[a], j, i, sh, then)
<1> DEFINE n == [Signal(j.m, j.leg) EXCEPT !.at = "look", !.cands = j.cands, !.got = j.got,
                                             !.row = i, !.sh = sh, !.then = then]
<1>1. n \in JobType /\ Closes(n, j, i, sh, then)
  BY CloseFields
<1>2. Goto(a, n) /\ lock' = lock
  BY DEF Close
<1> HIDE DEF n
<1>3. IF then = "cash" THEN InLock(n) ELSE ~Needs(n)
  BY <1>1 DEF Closes, InLock, Needs
<1> QED
  BY <1>1, <1>2, <1>3, HoldLeads, OutsideLeads

LEMMA CloseFits ==
  ASSUME NEW n, NEW m \in Market, NEW i, NEW sh, NEW then \in {"tick", "slot", "timeout"},
         NEW j, j.m = m, j.leg = 0, j.cands = {}, Closes(n, j, i, sh, then), NEW rs, NEW f,
         i \in DOMAIN rs, sh # 0, sh <= rs[i].sh, then = "slot" => rs[i].m # m
  PROVE  Fits(n, rs) /\ SaleFits(n, f) /\ AddFits(n, rs)
BY DEF Closes, Fits, SaleFits, AddFits, InLock, HasRow

\* n has an order for market k.m at the exchange.
Buys(n, k, size) ==
    /\ n.at = "order" /\ n.order = "buy" /\ n.x = k.m /\ n.qty = size /\ n.then = "none"
    /\ n.m = k.m /\ n.leg = k.leg /\ n.cands = {}

LEMMA BuyLeads ==
  ASSUME LInv, NEW a \in Actor, job[a].at \in {"balance", "rebalance"}, NEW size \in Nat,
         size # 0, Buy(a, size)
  PROVE  /\ TaskStep(a) /\ (job'[a] = Idle \/ Buys(job'[a], job[a], size))
         /\ Fits(job'[a], rows) /\ SaleFits(job'[a], fails) /\ AddFits(job'[a], rows)
<1> DEFINE k == job[a]
<1>0. /\ k \in JobType /\ k.m \in Market /\ k.leg \in Nat /\ InLock(k) /\ k.at # "lock"
      /\ Fits(k, rows) /\ AddFits(k, rows)
  BY JobFacts, JobTypes DEF Fits, InLock
<1>1. CASE Finish(a)
  BY <1>0, <1>1, FinishLeads, IdleFits
<1>2. CASE Send(a, Signal(k.m, k.leg), "buy", k.m, size) /\ UNCHANGED lock
  <2> DEFINE s == Signal(k.m, k.leg)
             n == [s EXCEPT !.at = "order", !.order = "buy", !.x = k.m, !.qty = size]
  <2>1. s \in JobType /\ Waiting(s, "lock", k.m, k.leg)
    BY <1>0, SignalFields
  <2>2. n \in JobType /\ Sends(n, s, "buy", k.m, size)
    <3> HIDE DEF s
    <3> QED
      BY <1>0, <2>1, SendFields
  <2>3. Buys(n, k, size) /\ InLock(n)
    <3> HIDE DEF s, n
    <3> QED
      BY <2>1, <2>2 DEF Sends, Waiting, Buys, InLock
  <2>4. Goto(a, n) /\ lock' = lock
    BY <1>2 DEF Send
  <2> HIDE DEF n
  <2>5. TaskStep(a) /\ job'[a] = n
    BY <1>0, <2>2, <2>3, <2>4, HoldLeads
  <2>6. Fits(n, rows)
    BY <1>0, <2>3 DEF Buys, Fits
  <2>7. SaleFits(n, fails) /\ AddFits(n, rows)
    BY <1>0, <2>3 DEF Buys, SaleFits, AddFits
  <2> QED
    BY <2>3, <2>5, <2>6, <2>7
<1> QED
  BY <1>1, <1>2 DEF Buy

-----------------------------------------------------------------------------
(* The actions, and what they leave of the first part of the invariant. *)

UpdateShape(n, m) ==
    \/ n = Idle
    \/ \E i \in DOMAIN rows, then \in {"tick", "slot"} :
          /\ rows[i].open /\ Closes(n, Signal(m, 0), i, rows[i].sh, then)
          /\ then = "slot" => rows[i].m # m /\ m \notin cooling
    \/ \E i \in OpenIn(rows, m) : Entered(n, m, i, rows)
    \/ m \notin cooling /\ Entered(n, m, 0, rows)

LEMMA UpdateLeads ==
  ASSUME LInv, NEW a \in Actor, NEW m \in Market, OnUpdate(a, m)
  PROVE  TaskStep(a) /\ UpdateShape(job'[a], m) /\ (Spend("signals") \/ UNCHANGED bounds)
<1>0. job[a] = Idle /\ ~Needs(job[a]) /\ Table(rows)
  BY IdleIsOut, RowsAreTable DEF OnUpdate
<1> DEFINE s == Signal(m, 0)
<1>1. s \in JobType /\ s.m = m
  BY SignalFields DEF Waiting
<1>2. ASSUME NEW v \in Market, OpenRows(v) # {}, NEW then \in {"tick", "slot"},
             Close(a, s, OpenPosition(rows, v), rows[OpenPosition(rows, v)].sh, then),
             UNCHANGED lock
      PROVE  /\ TaskStep(a) /\ OpenPosition(rows, v) \in DOMAIN rows
             /\ rows[OpenPosition(rows, v)].open /\ rows[OpenPosition(rows, v)].m = v
             /\ Closes(job'[a], s, OpenPosition(rows, v), rows[OpenPosition(rows, v)].sh, then)
  <2> DEFINE i == OpenPosition(rows, v)
  <2>1. i \in DOMAIN rows /\ i \in Nat /\ rows[i].open /\ rows[i].m = v /\ rows[i].sh \in Nat
    BY <1>0, <1>2, FirstOpen DEF OpenRows, Row
  <2> HIDE DEF i, s
  <2>2. Close(a, s, i, rows[i].sh, then)
    BY <1>2 DEF i
  <2>3. TaskStep(a) /\ Closes(job'[a], s, i, rows[i].sh, then)
    BY <1>0, <1>1, <1>2, <2>1, <2>2, CloseLeads
  <2> QED
    BY <2>1, <2>3 DEF i
<1>3. CASE CheckExit(a, m)
  <2>1. Close(a, s, OpenPosition(rows, m), rows[OpenPosition(rows, m)].sh, "tick")
    BY <1>3 DEF CheckExit
  <2>2. OpenRows(m) # {} /\ UNCHANGED lock /\ UNCHANGED bounds
    BY <1>3 DEF CheckExit
  <2> HIDE DEF s
  <2> QED
    BY <1>2, <2>1, <2>2 DEF UpdateShape, s
<1>4. CASE TriggerAddOn(a, m)
  <2> DEFINE i == OpenPosition(rows, m)
  <2>1. i \in OpenIn(rows, m) /\ i \in Nat
    BY <1>0, <1>4, FirstOpen DEF TriggerAddOn, MayAdd
  <2>2. Enter(a, Signal(m, i), rows) /\ UNCHANGED bounds
    BY <1>4 DEF TriggerAddOn
  <2> HIDE DEF i
  <2>3. TaskStep(a) /\ Entered(job'[a], m, i, rows)
    BY <1>0, <2>1, <2>2, EnterLeads
  <2> QED
    BY <2>1, <2>2, <2>3 DEF UpdateShape
<1>5. CASE TriggerEntry(a, m)
  <2>1. m \notin openCids /\ m \notin cooling /\ Spend("signals")
    BY <1>5 DEF TriggerEntry
  <2>2. CASE Enter(a, Signal(m, 0), rows)
    BY <1>0, <2>1, <2>2, EnterLeads DEF UpdateShape
  <2>3. ASSUME NEW v \in openCids, OpenRows(v) # {},
               Close(a, s, OpenPosition(rows, v), rows[OpenPosition(rows, v)].sh, "slot"),
               UNCHANGED lock
        PROVE  TaskStep(a) /\ UpdateShape(job'[a], m)
    <3>1. v \in Market /\ v # m
      BY <2>1, MemoryTypes
    <3> HIDE DEF s
    <3> QED
      BY <1>2, <2>1, <2>3, <3>1 DEF UpdateShape, s
  <2> QED
    BY <1>5, <2>1, <2>2, <2>3 DEF TriggerEntry
<1>6. CASE UNCHANGED <<job, lock, bounds>>
  <2>1. TaskStep(a) /\ job'[a] = Idle
    BY <1>0, <1>6, JobFacts DEF TaskStep
  <2> QED
    BY <1>6, <2>1 DEF UpdateShape
<1> QED
  BY <1>3, <1>4, <1>5, <1>6 DEF OnUpdate

LEMMA UpdateFits ==
  ASSUME LInv, NEW m \in Market, NEW n, UpdateShape(n, m)
  PROVE  /\ Fits(n, rows) /\ SaleFits(n, fails) /\ AddFits(n, rows)
         /\ n.order = "none"
<1>1. CASE n = Idle
  BY <1>1, IdleFits, IdleFields
<1>2. ASSUME NEW i \in DOMAIN rows, NEW then \in {"tick", "slot"},
             Closes(n, Signal(m, 0), i, rows[i].sh, then), then = "slot" => rows[i].m # m
      PROVE  /\ Fits(n, rows) /\ SaleFits(n, fails) /\ AddFits(n, rows) /\ n.order = "none"
  <2> DEFINE s == Signal(m, 0)
  <2>1. s.m = m /\ s.leg = 0 /\ s.cands = {}
    BY SignalFields DEF Waiting
  <2>2. rows[i].sh \in Nat \ {0}
    BY RowsAreTable DEF Table, Row
  <2> HIDE DEF s
  <2>3. Closes(n, s, i, rows[i].sh, then)
    BY <1>2 DEF s
  <2>4. rows[i].sh # 0 /\ rows[i].sh <= rows[i].sh /\ then \in {"tick", "slot", "timeout"}
    BY <2>2
  <2>5. Fits(n, rows) /\ SaleFits(n, fails) /\ AddFits(n, rows)
    BY <1>2, <2>1, <2>3, <2>4, CloseFits
  <2> QED
    BY <2>3, <2>5 DEF Closes
<1>3. ASSUME NEW i \in OpenIn(rows, m), Entered(n, m, i, rows)
      PROVE  /\ Fits(n, rows) /\ SaleFits(n, fails) /\ AddFits(n, rows) /\ n.order = "none"
  <2>1. i \in DOMAIN rows /\ rows[i].m = m
    BY DEF OpenIn
  <2>2. n.order = "none"
    BY <1>3, IdleFields DEF Entered, AtBalance, Waiting
  <2> QED
    BY <1>3, <2>1, <2>2, EnteredFits
<1>4. CASE Entered(n, m, 0, rows)
  <2>1. n.order = "none"
    BY <1>4, IdleFields DEF Entered, AtBalance, Waiting
  <2> QED
    BY <1>4, <2>1, EnteredFits
<1> QED
  BY <1>1, <1>2, <1>3, <1>4 DEF UpdateShape

LEMMA UpdateKeeps ==
  ASSUME LInv, NEW a \in Actor, NEW m \in Market, OnUpdate(a, m)
  PROVE  LInv'
<1>1. TaskStep(a) /\ UpdateShape(job'[a], m) /\ (Spend("signals") \/ UNCHANGED bounds)
  BY UpdateLeads
<1>2. /\ Fits(job'[a], rows) /\ SaleFits(job'[a], fails) /\ AddFits(job'[a], rows)
      /\ job'[a].order = "none"
  BY <1>1, UpdateFits
<1>3. left' \in [Kinds -> Nat] /\ seen \subseteq seen'
  BY <1>1, Spending DEF Kinds
<1>4. UNCHANGED <<ledger, memory, stage, account, excused>>
  BY DEF OnUpdate
<1>5. TodoFits'
  <2>1. CASE a = "ws"
    <3>1. UNCHANGED <<stage, todo>> /\ Grows(rows, rows')
      BY <1>4, <2>1, SameRowsGrow DEF OnUpdate, ledger
    <3> QED
      BY <1>1, <2>1, <3>1, TodoKept
  <2>2. CASE a = "sweep"
    <3>1. stage' = "poll" /\ todo' \subseteq todo /\ todo \subseteq Market
      BY <2>2 DEF OnUpdate, LInv, TodoFits
    <3> QED
      BY <3>1 DEF TodoFits
  <2> QED
    BY <2>1, <2>2, Actors
<1> QED
  BY <1>1, <1>2, <1>3, <1>4, <1>5, CalmKeeps, MemoryTypes DEF memory

LEMMA AcquireLeads ==
  ASSUME LInv, NEW a \in Actor, Acquire(a)
  PROVE  /\ TaskStep(a) /\ (job'[a] = Idle \/ AtBalance(job'[a], job[a].m, job[a].leg, rows))
         /\ job[a].m \in Market /\ job[a].at = "lock"
<1> DEFINE j == job[a]
<1>1. /\ j \in JobType /\ j.at = "lock" /\ lock # <<>> /\ Head(lock) = a /\ Locked(a, j, rows)
      /\ j.m \in Market /\ j.order = "none" /\ j.then = "none" /\ j.cands = {} /\ Table(rows)
  BY JobFacts, WaitersAreOut, RowsAreTable DEF Acquire, Fits
<1>2. Waiting(j, "lock", j.m, j.leg)
  BY <1>1 DEF Waiting
<1> QED
  BY <1>1, <1>2, LockedLeads

LEMMA AcquireKeeps ==
  ASSUME LInv, NEW a \in Actor, Acquire(a)
  PROVE  LInv'
<1> DEFINE j == job[a]
<1>1. /\ TaskStep(a) /\ (job'[a] = Idle \/ AtBalance(job'[a], j.m, j.leg, rows))
      /\ j.m \in Market /\ j.at = "lock"
  BY AcquireLeads
<1>2. j.leg # 0 => j.leg \in DOMAIN rows /\ rows[j.leg].m = j.m
  BY JobFacts DEF Fits
<1>3. Entered(job'[a], j.m, j.leg, rows)
  BY <1>1 DEF Entered
<1>4. /\ Fits(job'[a], rows) /\ SaleFits(job'[a], fails) /\ AddFits(job'[a], rows)
      /\ job'[a].order = "none"
  BY <1>1, <1>2, <1>3, EnteredFits, IdleFields DEF AtBalance, Waiting
<1>5. UNCHANGED <<ledger, memory, sweepVars, account, excused, bounds>>
  BY DEF Acquire
<1>6. left' \in [Kinds -> Nat] /\ seen \subseteq seen'
  BY <1>5, Spending DEF Kinds
<1>7. ~(a = "sweep" /\ stage = "timeouts")
  BY <1>1, SweepIsOut DEF Needs
<1>8. TodoFits'
  BY <1>1, <1>5, <1>7, TodoKept, SameRowsGrow DEF sweepVars, ledger
<1> QED
  BY <1>1, <1>4, <1>5, <1>6, <1>8, CalmKeeps, MemoryTypes DEF memory, sweepVars

LEMMA BalanceFacts ==
  ASSUME LInv, NEW a \in Actor, job[a].at \in {"balance", "held", "rebalance"}
  PROVE  /\ InLock(job[a]) /\ job[a].at # "lock" /\ job[a].m \in Market
         /\ job[a].order = "none" /\ job[a].then = "none" /\ job[a].cands = {}
         /\ job[a].leg # 0 => /\ job[a].leg \in DOMAIN rows /\ rows[job[a].leg].m = job[a].m
                              /\ rows[job[a].leg].legs < MaxAddOns
         /\ ~(a = "sweep" /\ stage = "timeouts")
<1>1. InLock(job[a]) /\ Needs(job[a])
  BY DEF InLock, Needs
<1>2. /\ job[a].m \in Market /\ job[a].order = "none" /\ job[a].then = "none"
      /\ job[a].cands = {}
  BY JobFacts DEF Fits
<1>3. job[a].leg # 0 => /\ job[a].leg \in DOMAIN rows /\ rows[job[a].leg].m = job[a].m
                        /\ rows[job[a].leg].legs < MaxAddOns
  BY <1>1, JobFacts DEF Fits, AddFits
<1> QED
  BY <1>1, <1>2, <1>3, SweepIsOut

BalanceShape(n, k, bal, quiet) ==
    \/ n = Idle
    \/ Waiting(n, "held", k.m, k.leg)
    \/ \E size \in Nat \ {0} : Buys(n, k, size) /\ (quiet => size <= bal)

LEMMA BalanceLeads ==
  ASSUME LInv, NEW a \in Actor, ReadBalance(a) \/ ReadBalanceAgain(a)
  PROVE  /\ TaskStep(a) /\ BalanceShape(job'[a], job[a], cash, {"faults", "restarts"} \cap seen' = {})
         /\ Fits(job'[a], rows) /\ SaleFits(job'[a], fails) /\ AddFits(job'[a], rows)
         /\ Spend("faults") \/ UNCHANGED bounds
<1> DEFINE k == job[a]
           P == /\ TaskStep(a)
                /\ BalanceShape(job'[a], job[a], cash, {"faults", "restarts"} \cap seen' = {})
                /\ Fits(job'[a], rows) /\ SaleFits(job'[a], fails) /\ AddFits(job'[a], rows)
<1>5. Spend("faults") \/ UNCHANGED bounds
  BY DEF ReadBalance, ReadBalanceAgain
<1> SUFFICES P
  BY <1>5
<1>0. k.at \in {"balance", "rebalance"} /\ k \in JobType
  BY JobFacts DEF ReadBalance, ReadBalanceAgain
<1>a. openCids \subseteq Market /\ cash \in Nat
  BY DEF LInv, TypeOK
<1>b. SizeOf(cash) \in Nat /\ SizeOf(cash) <= cash
  BY <1>a, SizesFit
<1>1. CASE Spend("faults") /\ Buy(a, 1)
  <2>1. {"faults", "restarts"} \cap seen' # {}
    BY <1>1, Spending DEF Kinds
  <2> QED
    BY <1>0, <1>1, <2>1, BuyLeads DEF BalanceShape
<1>2. CASE Finish(a)
  BY <1>0, <1>2, FinishLeads, IdleFits DEF BalanceShape
<1>3. CASE SizeOf(cash) > 0 /\ Buy(a, SizeOf(cash))
  <2> DEFINE size == SizeOf(cash)
  <2>1. size \in Nat \ {0} /\ size <= cash
    BY <1>b, <1>3
  <2> HIDE DEF size
  <2>2. Buy(a, size)
    BY <1>3 DEF size
  <2> QED
    BY <1>0, <2>1, <2>2, BuyLeads DEF BalanceShape
<1>4. CASE Goto(a, [job[a] EXCEPT !.at = "held"]) /\ UNCHANGED lock
  <2> DEFINE n == [job[a] EXCEPT !.at = "held"]
  <2>1. n \in JobType /\ AtStage(n, k, "held")
    BY <1>0, AtFields
  <2> HIDE DEF n
  <2>2. Waiting(n, "held", k.m, k.leg) /\ InLock(n)
    BY <1>0, <2>1, BalanceFacts DEF AtStage, Waiting, InLock
  <2>3. TaskStep(a) /\ job'[a] = n
    BY <1>0, <1>4, <2>1, <2>2, BalanceFacts, HoldLeads DEF n
  <2>4. Fits(n, rows) /\ SaleFits(n, fails) /\ AddFits(n, rows)
    BY <1>0, <2>2, BalanceFacts, WaitingFits
  <2> QED
    BY <2>2, <2>3, <2>4 DEF BalanceShape
<1> HIDE DEF P
<1>6. CASE ReadBalance(a)
  BY <1>1, <1>2, <1>3, <1>4, <1>6 DEF ReadBalance
<1>7. CASE ReadBalanceAgain(a)
  BY <1>1, <1>2, <1>3, <1>7 DEF ReadBalanceAgain
<1> QED
  BY <1>6, <1>7

LEMMA BalanceKeeps ==
  ASSUME LInv, NEW a \in Actor, ReadBalance(a) \/ ReadBalanceAgain(a)
  PROVE  LInv'
<1>1. /\ TaskStep(a)
      /\ BalanceShape(job'[a], job[a], cash, {"faults", "restarts"} \cap seen' = {})
      /\ Fits(job'[a], rows) /\ SaleFits(job'[a], fails) /\ AddFits(job'[a], rows)
      /\ Spend("faults") \/ UNCHANGED bounds
  BY BalanceLeads
<1>2. UNCHANGED <<ledger, memory, sweepVars, account, excused>>
  BY DEF ReadBalance, ReadBalanceAgain
<1>3. left' \in [Kinds -> Nat] /\ seen \subseteq seen'
  BY <1>1, Spending DEF Kinds
<1>4. ~(a = "sweep" /\ stage = "timeouts")
  BY BalanceFacts DEF ReadBalance, ReadBalanceAgain
<1>5. TodoFits'
  BY <1>1, <1>2, <1>4, TodoKept, SameRowsGrow DEF sweepVars, ledger
<1>6. ASSUME {"faults", "restarts"} \cap seen' = {}, job'[a].at = "order"
      PROVE  job'[a].qty <= cash
  BY <1>1, <1>6, IdleFields DEF BalanceShape, Waiting, Buys
<1> QED
  BY <1>1, <1>2, <1>3, <1>5, <1>6, CalmKeeps, MemoryTypes DEF memory, sweepVars

\* Whoever holds the lock is alone in it.
LEMMA Alone ==
  ASSUME LInv, NEW a \in Actor, InLock(job[a]), NEW b \in Actor, b # a
  PROVE  /\ ~InLock(job[b]) /\ job[b].cands = {} /\ job[b].then # "cash"
         /\ job[b].order \notin {"buy", "cash"}
         /\ \A f : SaleFits(job[b], f)
         /\ \A rs : AddFits(job[b], rs)
         /\ ~(a = "sweep" /\ stage = "timeouts") /\ job[a].at # "lock"
<1>1. /\ ~InLock(job[b]) /\ job[b].cands = {} /\ job[b].then # "cash"
      /\ job[b].order \notin {"buy", "cash"} /\ job[a].at # "lock"
  BY JobFacts, OneHolder
<1>2. \A f : SaleFits(job[b], f)
  BY <1>1 DEF SaleFits
<1>3. \A rs : AddFits(job[b], rs)
  BY <1>1 DEF AddFits
<1>4. Needs(job[a])
  BY DEF Needs
<1> QED
  BY <1>1, <1>2, <1>3, <1>4, SweepIsOut

LEMMA HoldersTodo ==
  ASSUME LInv, NEW a \in Actor, InLock(job[a])
  PROVE  ~(a = "sweep" /\ stage = "timeouts")
BY SweepIsOut DEF Needs

LEMMA CandidatesFit ==
  ASSUME LInv, NEW a \in Actor, job[a].at = "held", NEW j \in JobType,
         j.m = job[a].m, j.leg = job[a].leg, j.cands = Candidates(job[a])
  PROVE  Seller(j, rows, fails)
<1> DEFINE k == job[a]
<1>1. wallet \in [Market -> Nat] /\ fails \in [Market -> 0..SellFailMax]
  BY DEF LInv, TypeOK
<1>2. \A c \in Candidates(k) : \E x \in Market :
          /\ c = <<x, wallet[x]>> /\ wallet[x] > 0 /\ fails[x] < SellFailMax
          /\ k.leg > 0 \/ x # k.m
  BY DEF Candidates
<1>3. \A c \in Candidates(k) :
          /\ c[1] \in Market /\ c[2] = wallet[c[1]] /\ c = <<c[1], wallet[c[1]]>>
          /\ fails[c[1]] < SellFailMax /\ wallet[c[1]] > 0 /\ (k.leg = 0 => c[1] # k.m)
  BY <1>2
<1>4. /\ k.m \in Market
      /\ k.leg # 0 => k.leg \in DOMAIN rows /\ rows[k.leg].m = k.m /\ rows[k.leg].legs < MaxAddOns
  BY BalanceFacts
<1>5. Candidates(k) \subseteq Market \X (Nat \ {0})
  BY <1>1, <1>3
<1>6. \A c, d \in Candidates(k) : c[1] = d[1] => c = d
  BY <1>3
<1> HIDE DEF k
<1> QED
  BY <1>3, <1>4, <1>5, <1>6 DEF Seller, k

LEMMA HeldLeads ==
  ASSUME LInv, NEW a \in Actor, ReadHeld(a)
  PROVE  /\ TaskStep(a) /\ inflight' \subseteq Market /\ (Spend("faults") \/ UNCHANGED bounds)
         /\ \E j \in JobType : /\ j.m = job[a].m /\ j.leg = job[a].leg
                               /\ j.cands = Candidates(job[a]) /\ Sold(job'[a], j)
<1> DEFINE k == job[a]
           j == [k EXCEPT !.cands = Candidates(k)]
<1>0. k.at = "held" /\ k \in JobType /\ inflight \subseteq Market /\ wallet \in [Market -> Nat]
  BY JobFacts DEF ReadHeld, LInv, TypeOK
<1>1. Candidates(k) \in SUBSET (Market \X (Nat \ {0}))
  BY <1>0 DEF Candidates
<1>2. /\ j \in JobType /\ j.m = k.m /\ j.leg = k.leg /\ j.cands = Candidates(k)
  BY <1>0, <1>1 DEF JobType
<1> HIDE DEF j
<1>3. CASE Spend("faults") /\ Finish(a) /\ UNCHANGED inflight
  BY <1>0, <1>2, <1>3, FinishLeads DEF Sold
<1>4. CASE AfterSale(a, j) /\ UNCHANGED bounds
  BY <1>0, <1>2, <1>4, BalanceFacts, AfterSaleLeads
<1> QED
  BY <1>3, <1>4 DEF ReadHeld, j

LEMMA HeldKeeps ==
  ASSUME LInv, NEW a \in Actor, ReadHeld(a)
  PROVE  LInv'
<1>0. job[a].at = "held"
  BY DEF ReadHeld
<1>1. TaskStep(a) /\ inflight' \subseteq Market /\ (Spend("faults") \/ UNCHANGED bounds)
  BY HeldLeads
<1>2. PICK j \in JobType : /\ j.m = job[a].m /\ j.leg = job[a].leg
                           /\ j.cands = Candidates(job[a]) /\ Sold(job'[a], j)
  BY HeldLeads
<1>3. Fits(job'[a], rows) /\ SaleFits(job'[a], fails) /\ AddFits(job'[a], rows)
  BY <1>0, <1>2, CandidatesFit, SoldFits
<1>4. job'[a].order # "buy"
  BY <1>2, IdleFields DEF Sold, Waiting, Sells
<1>5. UNCHANGED <<ledger, openCids, yesMap, cooling, fails, sweepVars, account, excused>>
  BY DEF ReadHeld
<1>6. TodoFits'
  BY <1>0, <1>1, <1>5, BalanceFacts, TodoKept, SameRowsGrow DEF sweepVars, ledger
<1>7. left' \in [Kinds -> Nat] /\ seen \subseteq seen'
  BY <1>1, Spending DEF Kinds
<1> QED
  BY <1>1, <1>3, <1>4, <1>5, <1>6, <1>7, CalmKeeps, MemoryTypes DEF sweepVars

LEMMA NotBoughtKeeps ==
  ASSUME LInv, NEW a \in Actor, NotBought(a)
  PROVE  LInv' /\ TaskStep(a) /\ job'[a] = Idle
<1>0. InLock(job[a]) /\ job[a].at = "refused"
  BY DEF NotBought, Replied, InLock
<1>1. TaskStep(a) /\ job'[a] = Idle
  BY <1>0, FinishLeads DEF NotBought
<1>2. Fits(job'[a], rows) /\ SaleFits(job'[a], fails) /\ AddFits(job'[a], rows)
  BY <1>1, IdleFits
<1>3. UNCHANGED <<ledger, memory, sweepVars, account, excused, bounds>>
  BY DEF NotBought
<1>4. TodoFits'
  BY <1>0, <1>1, <1>3, HoldersTodo, TodoKept, SameRowsGrow DEF sweepVars, ledger
<1>5. left' \in [Kinds -> Nat] /\ seen \subseteq seen'
  BY <1>3, Spending DEF Kinds
<1> QED
  BY <1>1, <1>2, <1>3, <1>4, <1>5, IdleFields, CalmKeeps, MemoryTypes DEF memory, sweepVars

-----------------------------------------------------------------------------
(* Steps that change a row, or add one. *)

LEMMA RowAdded ==
  ASSUME NEW rs \in Seq(Row), Table(rs), NEW r \in Row
  PROVE  LET rt == Append(rs, r)
         IN  /\ rt \in Seq(Row) /\ Grows(rs, rt)
             /\ \E i \in Nat \ {0} :
                    /\ i \notin DOMAIN rs /\ DOMAIN rt = DOMAIN rs \cup {i}
                    /\ rt[i] = r /\ \A j \in DOMAIN rs : rt[j] = rs[j]
<1> DEFINE rt == Append(rs, r)
           i == Len(rs) + 1
<1>1. Len(rs) \in Nat /\ DOMAIN rs = 1 .. Len(rs)
  BY LenProperties
<1>2. /\ rt \in Seq(Row) /\ Len(rt) = i /\ rt[i] = r
      /\ \A j \in 1 .. Len(rs) : rt[j] = rs[j]
  BY AppendProperties
<1>3. DOMAIN rt = 1 .. i
  BY <1>2, LenProperties
<1>4. i \in Nat \ {0} /\ i \notin DOMAIN rs /\ DOMAIN rt = DOMAIN rs \cup {i}
  BY <1>1, <1>3
<1> HIDE DEF i, rt
<1>5. Table(rt)
  BY <1>1, <1>2, <1>4 DEF Table
<1>6. \A j \in DOMAIN rs : rs[j].sh \in Nat
  BY DEF Table, Row
<1>7. Grows(rs, rt)
  BY <1>1, <1>2, <1>4, <1>5, <1>6 DEF Grows
<1> QED
  BY <1>1, <1>2, <1>4, <1>7 DEF rt

LEMMA RowChanged ==
  ASSUME NEW rs \in Seq(Row), Table(rs), NEW i \in DOMAIN rs, NEW r \in Row,
         r.m = rs[i].m, rs[i].sh <= r.sh
  PROVE  LET rt == [rs EXCEPT ![i] = r]
         IN  /\ rt \in Seq(Row) /\ Grows(rs, rt) /\ DOMAIN rt = DOMAIN rs
             /\ rt[i] = r /\ \A j \in DOMAIN rs : j # i => rt[j] = rs[j]
<1> DEFINE rt == [rs EXCEPT ![i] = r]
<1>1. Len(rs) \in Nat /\ DOMAIN rs = 1 .. Len(rs)
  BY LenProperties
<1>2. rt \in Seq(Row)
  BY <1>1, ExceptSeq
<1>3. DOMAIN rt = DOMAIN rs /\ rt[i] = r /\ \A j \in DOMAIN rs : j # i => rt[j] = rs[j]
  OBVIOUS
<1> HIDE DEF rt
<1>4. Table(rt)
  BY <1>3 DEF Table
<1>5. \A j \in DOMAIN rs : rs[j].sh \in Nat
  BY DEF Table, Row
<1>6. Grows(rs, rt)
  BY <1>3, <1>4, <1>5 DEF Grows
<1> QED
  BY <1>2, <1>3, <1>6 DEF rt

WithClosed(rs, i) == [rs EXCEPT ![i].open = FALSE]

WithLeg(rs, i, q) == [rs EXCEPT ![i].sh = @ + q, ![i].legs = @ + 1]

LEMMA RowClosed ==
  ASSUME NEW rs \in Seq(Row), Table(rs), NEW i \in DOMAIN rs
  PROVE  LET rt == WithClosed(rs, i)
         IN  /\ rt \in Seq(Row) /\ Grows(rs, rt) /\ DOMAIN rt = DOMAIN rs
             /\ rt[i].m = rs[i].m /\ rt[i].sh = rs[i].sh /\ rt[i].legs = rs[i].legs
             /\ ~rt[i].open /\ \A j \in DOMAIN rs : j # i => rt[j] = rs[j]
<1> DEFINE rt == WithClosed(rs, i)
           r == [rs[i] EXCEPT !.open = FALSE]
<1>1. rs[i] \in Row
  BY DEF Table
<1>2. r \in Row /\ r.m = rs[i].m /\ r.sh = rs[i].sh /\ r.legs = rs[i].legs /\ r.open = FALSE
  BY <1>1 DEF Row
<1>3. rt = [rs EXCEPT ![i] = r]
  BY DEF WithClosed
<1>4. rs[i].sh \in Nat
  BY <1>1 DEF Row
<1> HIDE DEF r
<1>5. rs[i].sh <= r.sh
  BY <1>2, <1>4
<1>6. LET t == [rs EXCEPT ![i] = r]
      IN  /\ t \in Seq(Row) /\ Grows(rs, t) /\ DOMAIN t = DOMAIN rs
          /\ t[i] = r /\ \A j \in DOMAIN rs : j # i => t[j] = rs[j]
  BY <1>2, <1>5, RowChanged
<1> QED
  BY <1>2, <1>3, <1>6

LEMMA LegAdded ==
  ASSUME NEW rs \in Seq(Row), Table(rs), NEW i \in DOMAIN rs, NEW q \in Nat,
         rs[i].legs < MaxAddOns
  PROVE  LET rt == WithLeg(rs, i, q)
         IN  /\ rt \in Seq(Row) /\ Grows(rs, rt) /\ DOMAIN rt = DOMAIN rs
             /\ rt[i].m = rs[i].m /\ rt[i].sh = rs[i].sh + q /\ rt[i].open = rs[i].open
             /\ \A j \in DOMAIN rs : j # i => rt[j] = rs[j]
<1> DEFINE rt == WithLeg(rs, i, q)
           r == [rs[i] EXCEPT !.sh = @ + q, !.legs = @ + 1]
<1>1. /\ rs[i] \in Row /\ rs[i].sh \in Nat \ {0} /\ rs[i].legs \in 0 .. MaxAddOns
      /\ MaxAddOns \in Nat
  BY FadeAssumption DEF Table, Row
<1>2. rs[i].legs + 1 \in 0 .. MaxAddOns /\ rs[i].sh + q \in Nat \ {0}
  BY <1>1
<1>3. r \in Row
  BY <1>1, <1>2 DEF Row
<1>4. r.m = rs[i].m /\ r.sh = rs[i].sh + q /\ r.open = rs[i].open
  BY <1>1 DEF Row
<1>5. rs[i].sh <= r.sh
  BY <1>1, <1>4
<1>6. rt = [rs EXCEPT ![i] = r]
  BY DEF WithLeg
<1> HIDE DEF r
<1>7. LET t == [rs EXCEPT ![i] = r]
      IN  /\ t \in Seq(Row) /\ Grows(rs, t) /\ DOMAIN t = DOMAIN rs
          /\ t[i] = r /\ \A j \in DOMAIN rs : j # i => t[j] = rs[j]
  BY <1>3, <1>4, <1>5, RowChanged
<1> QED
  BY <1>4, <1>6, <1>7

-----------------------------------------------------------------------------
(* A filled buy is written, or is not. *)

BoughtShape(k) ==
    \/ /\ k.leg = 0
       /\ \E i \in Nat \ {0} :
             /\ i \notin DOMAIN rows /\ DOMAIN rows' = DOMAIN rows \cup {i}
             /\ rows'[i] = [m |-> k.m, sh |-> k.qty, legs |-> 0, open |-> TRUE]
             /\ \A j \in DOMAIN rows : rows'[j] = rows[j]
       /\ excused' = IF OpenRows(k.m) = {} THEN excused ELSE excused \cup {k.m}
    \/ /\ k.leg # 0 /\ rows[k.leg].open /\ DOMAIN rows' = DOMAIN rows
       /\ rows'[k.leg].m = rows[k.leg].m /\ rows'[k.leg].sh = rows[k.leg].sh + k.qty
       /\ rows'[k.leg].open
       /\ \A j \in DOMAIN rows : j # k.leg => rows'[j] = rows[j]
       /\ excused' = excused
    \/ rows' = rows /\ excused' = excused \cup {k.m}

LEMMA BoughtLeads ==
  ASSUME LInv, NEW a \in Actor, Bought(a)
  PROVE  /\ TaskStep(a) /\ job'[a] = Idle /\ InLock(job[a])
         /\ job[a].at = "filled" /\ job[a].order = "buy"
         /\ BoughtShape(job[a]) /\ Grows(rows, rows') /\ rows' \in Seq(Row)
         /\ openCids' \subseteq Market /\ excused' \subseteq Market
         /\ left' \in [Kinds -> Nat] /\ seen \subseteq seen'
<1> DEFINE k == job[a]
<1>0. /\ k \in JobType /\ k.at = "filled" /\ k.order = "buy" /\ InLock(k) /\ Fits(k, rows)
      /\ AddFits(k, rows) /\ k.m \in Market /\ k.qty \in Nat \ {0} /\ k.leg \in Nat
  BY JobFacts, JobTypes DEF Bought, Replied, InLock, Fits
<1>1. TaskStep(a) /\ job'[a] = Idle
  BY <1>0, FinishLeads DEF Bought
<1>2. rows \in Seq(Row) /\ Table(rows) /\ openCids \subseteq Market /\ excused \subseteq Market
  BY RowsAreTable DEF LInv, TypeOK
<1> DEFINE P == /\ BoughtShape(k) /\ Grows(rows, rows') /\ rows' \in Seq(Row)
                /\ openCids' \subseteq Market /\ excused' \subseteq Market
                /\ left' \in [Kinds -> Nat] /\ seen \subseteq seen'
<1> SUFFICES P
  BY <1>0, <1>1
<1>3. CASE /\ k.leg = 0
           /\ rows' = Append(rows, [m |-> k.m, sh |-> k.qty, legs |-> 0, open |-> TRUE])
           /\ openCids' = openCids \cup {k.m}
           /\ excused' = IF OpenRows(k.m) = {} THEN excused ELSE excused \cup {k.m}
           /\ UNCHANGED bounds
  <2> DEFINE r == [m |-> k.m, sh |-> k.qty, legs |-> 0, open |-> TRUE]
  <2>1. r \in Row
    BY <1>0, FadeAssumption DEF Row
  <2> HIDE DEF r
  <2>2. rows' = Append(rows, r)
    BY <1>3 DEF r
  <2>3. /\ rows' \in Seq(Row) /\ Grows(rows, rows')
        /\ \E i \in Nat \ {0} : /\ i \notin DOMAIN rows /\ DOMAIN rows' = DOMAIN rows \cup {i}
                                /\ rows'[i] = r /\ \A j \in DOMAIN rows : rows'[j] = rows[j]
    BY <1>2, <2>1, <2>2, RowAdded
  <2>4. BoughtShape(k)
    BY <1>3, <2>3 DEF BoughtShape, r
  <2>5. left' \in [Kinds -> Nat] /\ seen \subseteq seen'
    BY <1>3, Spending DEF Kinds
  <2> QED
    BY <1>0, <1>2, <1>3, <2>3, <2>4, <2>5
<1>4. CASE /\ k.leg > 0 /\ rows[k.leg].open /\ Spend("adds")
           /\ rows' = [rows EXCEPT ![k.leg].sh = @ + k.qty, ![k.leg].legs = @ + 1]
           /\ UNCHANGED <<openCids, excused>>
  <2>1. k.leg \in DOMAIN rows /\ rows[k.leg].legs < MaxAddOns /\ k.qty \in Nat
    BY <1>0, <1>4 DEF Fits, AddFits
  <2>2. /\ rows' \in Seq(Row) /\ Grows(rows, rows') /\ DOMAIN rows' = DOMAIN rows
        /\ rows'[k.leg].m = rows[k.leg].m /\ rows'[k.leg].sh = rows[k.leg].sh + k.qty
        /\ rows'[k.leg].open = rows[k.leg].open
        /\ \A j \in DOMAIN rows : j # k.leg => rows'[j] = rows[j]
    <3>1. LET t == WithLeg(rows, k.leg, k.qty)
          IN  /\ t \in Seq(Row) /\ Grows(rows, t) /\ DOMAIN t = DOMAIN rows
              /\ t[k.leg].m = rows[k.leg].m /\ t[k.leg].sh = rows[k.leg].sh + k.qty
              /\ t[k.leg].open = rows[k.leg].open
              /\ \A j \in DOMAIN rows : j # k.leg => t[j] = rows[j]
      BY <1>2, <2>1, LegAdded
    <3> QED
      BY <1>4, <3>1, Zenon DEF WithLeg
  <2>3. k.leg # 0 /\ rows[k.leg].open /\ rows'[k.leg].open /\ excused' = excused
    <3>1. k.leg > 0 /\ rows[k.leg].open /\ excused' = excused
      BY <1>4
    <3>2. k.leg # 0
      BY <2>1, <3>1
    <3>3. rows'[k.leg].open = rows[k.leg].open
      BY <2>2
    <3> HIDE DEF P, k
    <3> QED
      BY <3>1, <3>2, <3>3, Zenon
  <2>4. BoughtShape(k)
    BY <2>2, <2>3 DEF BoughtShape
  <2>5. left' \in [Kinds -> Nat] /\ seen \subseteq seen'
    BY <1>4, Spending DEF Kinds
  <2> QED
    BY <1>2, <1>4, <2>2, <2>4, <2>5
<1>5. CASE /\ IF k.leg > 0 /\ ~rows[k.leg].open THEN UNCHANGED bounds ELSE Spend("faults")
           /\ excused' = excused \cup {k.m}
           /\ UNCHANGED <<rows, openCids>>
  <2>1. BoughtShape(k) /\ Grows(rows, rows')
    BY <1>5, SameRowsGrow DEF BoughtShape
  <2>2. left' \in [Kinds -> Nat] /\ seen \subseteq seen'
    BY <1>5, Spending DEF Kinds
  <2> QED
    BY <1>0, <1>2, <1>5, <2>1, <2>2
<1> HIDE DEF P
<1> QED
  BY <1>3, <1>4, <1>5 DEF Bought

LEMMA BoughtKeeps ==
  ASSUME LInv, NEW a \in Actor, Bought(a)
  PROVE  LInv'
<1>1. /\ TaskStep(a) /\ job'[a] = Idle /\ InLock(job[a])
      /\ Grows(rows, rows') /\ rows' \in Seq(Row)
      /\ openCids' \subseteq Market /\ excused' \subseteq Market
      /\ left' \in [Kinds -> Nat] /\ seen \subseteq seen'
  BY BoughtLeads
<1>2. UNCHANGED <<watch, manual, yesMap, cooling, inflight, fails, sweepVars, account>>
  BY DEF Bought
<1>3. Fits(job'[a], rows') /\ SaleFits(job'[a], fails') /\ AddFits(job'[a], rows')
  BY <1>1, IdleFits
<1>4. \A b \in Actor : b # a => SaleFits(job[b], fails') /\ AddFits(job[b], rows')
  BY <1>1, Alone
<1>5. TodoFits'
  BY <1>1, <1>2, HoldersTodo, TodoKept DEF sweepVars
<1>6. fails' \in [Market -> 0..SellFailMax]
  BY <1>2 DEF LInv, TypeOK
<1> QED
  BY <1>1, <1>2, <1>3, <1>4, <1>5, <1>6, IdleFields, TaskKeeps, MemoryTypes
     DEF sweepVars, account

-----------------------------------------------------------------------------
(* The answer to a cash sale. *)

LEMMA CashFacts ==
  ASSUME LInv, NEW a \in Actor, job[a].order = "cash", job[a].at \in {"filled", "refused"}
  PROVE  /\ InLock(job[a]) /\ job[a].m \in Market /\ job[a].x \in Market /\ job[a].then = "none"
         /\ \A c \in job[a].cands : c[1] # job[a].x
         /\ fails[job[a].x] \in 0 .. SellFailMax - 1
         /\ \A f : (\A y \in Market : y # job[a].x => f[y] = fails[y]) => Seller(job[a], rows, f)
<1> DEFINE k == job[a]
<1>1. /\ InLock(k) /\ k.m \in Market /\ k.x \in Market /\ k.then = "none"
      /\ \A c \in k.cands : c[1] # k.x
      /\ k \in JobType
  BY JobFacts DEF Fits, SaleFits, InLock
<1>2. fails[k.x] \in 0 .. SellFailMax /\ fails[k.x] < SellFailMax
  BY <1>1, JobFacts DEF SaleFits, LInv, TypeOK
<1>3. Seller(k, rows, fails)
  BY <1>1, JobFacts, CashCloserSells
<1>4. k.cands \subseteq Market \X (Nat \ {0})
  BY <1>1, JobTypes
<1> HIDE DEF k
<1>5. ASSUME NEW f, \A y \in Market : y # k.x => f[y] = fails[y]
      PROVE  Seller(k, rows, f)
  <2>1. \A c \in k.cands : f[c[1]] = fails[c[1]]
    BY <1>1, <1>4, <1>5
  <2> QED
    BY <1>3, <2>1 DEF Seller
<1> QED
  BY <1>1, <1>2, <1>5 DEF k, SellFailMax

LEMMA UnsoldLeads ==
  ASSUME LInv, NEW a \in Actor, CashUnsold(a)
  PROVE  /\ TaskStep(a) /\ Sold(job'[a], job[a]) /\ inflight' \subseteq Market
         /\ job[a].order = "cash" /\ job[a].at = "refused"
BY CashFacts, JobFacts, AfterSaleLeads DEF CashUnsold, Replied

\* The failures of the market sold are counted, or forgotten.
FailsStep(k) ==
    /\ fails' \in [Market -> 0..SellFailMax]
    /\ \A y \in Market : y # k.x => fails'[y] = fails[y]

LEMMA SaleKeeps ==
  ASSUME LInv, NEW a \in Actor, TaskStep(a), job[a].order = "cash",
         job[a].at \in {"filled", "refused"}, FailsStep(job[a]),
         \/ Sold(job'[a], job[a])
         \/ \E i \in OpenIn(rows, job[a].x) :
               Closes(job'[a], job[a], i, rows[i].sh, "cash"),
         UNCHANGED <<ledger, yesMap, sweepVars, account, excused, bounds>>,
         openCids' \subseteq Market, cooling' \subseteq Market, inflight' \subseteq Market
  PROVE  LInv'
<1> DEFINE k == job[a]
           n == job'[a]
<1>1. /\ InLock(k) /\ k.m \in Market /\ k.x \in Market
      /\ Seller(k, rows, fails')
  BY CashFacts DEF FailsStep
<1>2. Fits(n, rows) /\ SaleFits(n, fails') /\ AddFits(n, rows)
  <2>1. CASE Sold(n, k)
    BY <1>1, <2>1, SoldFits
  <2>2. ASSUME NEW i \in OpenIn(rows, k.x), Closes(n, k, i, rows[i].sh, "cash")
        PROVE  Fits(n, rows) /\ SaleFits(n, fails') /\ AddFits(n, rows)
    <3>1. i \in DOMAIN rows /\ rows[i].m = k.x /\ rows[i].sh \in Nat \ {0}
      BY RowsAreTable DEF OpenIn, Table, Row
    <3>2. k.leg = 0 => k.x # k.m
      BY JobFacts DEF Fits
    <3>a. rows[i].sh # 0 /\ rows[i].sh <= rows[i].sh
      BY <3>1
    <3>3. Fits(n, rows)
      BY <1>1, <2>2, <3>1, <3>2, <3>a DEF Closes, Seller, Fits, HasRow
    <3>4. SaleFits(n, fails')
      BY <1>1, <2>2 DEF Closes, Seller, SaleFits
    <3>5. AddFits(n, rows)
      BY <1>1, <2>2 DEF Closes, Seller, AddFits
    <3> QED
      BY <3>3, <3>4, <3>5
  <2> QED
    BY <2>1, <2>2
<1>3. n.order # "buy"
  BY IdleFields DEF Sold, Waiting, Sells, Closes
<1>4. Grows(rows, rows') /\ rows' = rows /\ rows' \in Seq(Row)
  BY SameRowsGrow DEF ledger, LInv, TypeOK
<1>5. TodoFits'
  BY <1>1, <1>4, HoldersTodo, TodoKept DEF sweepVars
<1>6. \A b \in Actor : b # a => SaleFits(job[b], fails') /\ AddFits(job[b], rows')
  BY <1>1, Alone
<1>7. left' \in [Kinds -> Nat] /\ seen \subseteq seen'
  BY Spending DEF Kinds
<1>8. fails' \in [Market -> 0..SellFailMax]
  BY DEF FailsStep
<1> QED
  BY <1>2, <1>3, <1>4, <1>5, <1>6, <1>7, <1>8, TaskKeeps, MemoryTypes
     DEF ledger, sweepVars, account

LEMMA UnsoldKeeps ==
  ASSUME LInv, NEW a \in Actor, CashUnsold(a)
  PROVE  LInv'
<1> DEFINE k == job[a]
<1>1. /\ TaskStep(a) /\ Sold(job'[a], k) /\ inflight' \subseteq Market
      /\ k.order = "cash" /\ k.at = "refused"
  BY UnsoldLeads
<1>2. FailsStep(k)
  <2>1. fails \in [Market -> 0..SellFailMax] /\ fails' = [fails EXCEPT ![k.x] = @ + 1]
    BY DEF CashUnsold, LInv, TypeOK
  <2>2. k.x \in Market /\ fails[k.x] + 1 \in 0..SellFailMax
    BY <1>1, CashFacts DEF SellFailMax
  <2> QED
    BY <2>1, <2>2 DEF FailsStep
<1>3. /\ UNCHANGED <<ledger, yesMap, sweepVars, account, excused, bounds>>
      /\ UNCHANGED <<openCids, cooling>>
  BY DEF CashUnsold
<1> QED
  BY <1>1, <1>2, <1>3, SaleKeeps, MemoryTypes

LEMMA CashSoldLeads ==
  ASSUME LInv, NEW a \in Actor, CashSold(a)
  PROVE  /\ TaskStep(a) /\ job[a].order = "cash" /\ job[a].at = "filled"
         /\ \/ OpenIn(rows, job[a].x) = {} /\ Sold(job'[a], job[a])
            \/ \E i \in OpenIn(rows, job[a].x) :
                  Closes(job'[a], job[a], i, rows[i].sh, "cash")
         /\ openCids' \subseteq Market /\ inflight' \subseteq Market
         /\ cooling' = cooling \cup {job[a].x}
<1> DEFINE k == job[a]
           j == [k EXCEPT !.got = @ + k.qty]
           x == k.x
<1>1. /\ k \in JobType /\ k.order = "cash" /\ k.at = "filled"
      /\ InLock(k) /\ k.m \in Market /\ k.x \in Market
  BY CashFacts, JobFacts DEF CashSold, Replied
<1>2. k.got + k.qty \in Nat
  BY <1>1, JobTypes
<1>3. /\ j \in JobType /\ j.m = k.m /\ j.leg = k.leg /\ j.cands = k.cands
  BY <1>1, <1>2 DEF JobType
<1>4. cooling' = cooling \cup {x}
  BY DEF CashSold
<1>5. CASE OpenRows(x) # {}
  <2> DEFINE i == OpenPosition(rows, x)
  <2>1. i \in OpenIn(rows, x) /\ i \in Nat /\ rows[i].sh \in Nat
    BY <1>5, RowsAreTable, FirstOpen DEF OpenRows, Row
  <2>2. Close(a, j, i, rows[i].sh, "cash") /\ UNCHANGED <<openCids, inflight, lock>>
    BY <1>5 DEF CashSold
  <2> HIDE DEF i, j
  <2>3. TaskStep(a) /\ Closes(job'[a], j, i, rows[i].sh, "cash")
    BY <1>1, <1>3, <2>1, <2>2, CloseLeads
  <2>4. Closes(job'[a], k, i, rows[i].sh, "cash")
    BY <1>3, <2>3 DEF Closes
  <2> QED
    BY <1>1, <1>4, <2>1, <2>2, <2>3, <2>4, MemoryTypes
<1>6. CASE OpenRows(x) = {}
  <2>1. openCids' = openCids \ {x} /\ AfterSale(a, j)
    BY <1>6 DEF CashSold
  <2> HIDE DEF j
  <2>2. TaskStep(a) /\ Sold(job'[a], j) /\ inflight' \subseteq Market
    BY <1>1, <1>3, <2>1, AfterSaleLeads
  <2>3. Sold(job'[a], k)
    BY <1>3, <2>2 DEF Sold, Sells
  <2> QED
    BY <1>1, <1>4, <1>6, <2>1, <2>2, <2>3, MemoryTypes DEF OpenRows
<1> QED
  BY <1>5, <1>6

LEMMA CashSoldKeeps ==
  ASSUME LInv, NEW a \in Actor, CashSold(a)
  PROVE  LInv'
<1> DEFINE k == job[a]
<1>1. /\ TaskStep(a) /\ k.order = "cash" /\ k.at = "filled"
      /\ \/ OpenIn(rows, k.x) = {} /\ Sold(job'[a], k)
         \/ \E i \in OpenIn(rows, k.x) : Closes(job'[a], k, i, rows[i].sh, "cash")
      /\ openCids' \subseteq Market /\ inflight' \subseteq Market
      /\ cooling' = cooling \cup {k.x}
  BY CashSoldLeads
<1>2. k.x \in Market
  BY <1>1, CashFacts
<1>3. FailsStep(k)
  <2>1. fails \in [Market -> 0..SellFailMax] /\ fails' = [fails EXCEPT ![k.x] = 0]
    BY DEF CashSold, LInv, TypeOK
  <2> QED
    BY <1>2, <2>1 DEF FailsStep, SellFailMax
<1>4. UNCHANGED <<ledger, yesMap, sweepVars, account, excused, bounds>>
  BY DEF CashSold
<1>5. cooling' \subseteq Market
  BY <1>1, <1>2, MemoryTypes
<1> QED
  BY <1>1, <1>3, <1>4, <1>5, SaleKeeps

-----------------------------------------------------------------------------
(* The close of a row. *)

LEMMA CloserFacts ==
  ASSUME LInv, NEW a \in Actor, ClosesRow(job[a])
  PROVE  /\ job[a] \in JobType /\ job[a].m \in Market
         /\ job[a].row \in DOMAIN rows /\ rows[job[a].row].m \in Market
         /\ rows[job[a].row].sh \in Nat \ {0}
         /\ job[a].sh \in Nat \ {0} /\ job[a].sh <= rows[job[a].row].sh
         /\ job[a].order \notin {"buy", "cash"}
         /\ job[a].then \in {"tick", "slot", "timeout", "cash"}
<1> DEFINE k == job[a]
<1>1. k \in JobType /\ Fits(k, rows) /\ Table(rows)
  BY JobFacts, RowsAreTable
<1> HIDE DEF k
<1>2. k.m \in Market /\ k.order \notin {"buy", "cash"} /\ HasRow(k, rows)
  BY <1>1 DEF Fits, ClosesRow, k
<1> QED
  BY <1>1, <1>2, JobTypes DEF HasRow, Table, Row, ClosesRow, k

\* The sale is sent; or the row is closed, because nothing is left to sell (orphan) or
\* because it was sold; or it is kept.
SendsExit(n, k) ==
    /\ \E qty \in Nat \ {0} :
          /\ Sends(n, k, "exit", rows[k.row].m, qty)
          /\ qty = k.sh \/ (qty = wallet[rows[k.row].m] /\ qty <= k.sh)
    /\ k.at = "look" /\ UNCHANGED <<rows, cooling, excused>>

ClosesOrphan(n, k) ==
    /\ k.at \in {"look", "refused"} /\ wallet[rows[k.row].m] = 0
    /\ rows' = WithClosed(rows, k.row) /\ After(n, k, rows') /\ UNCHANGED <<cooling, excused>>

ClosesSold(n, k) ==
    /\ k.at = "filled" /\ k.order = "exit" /\ rows[k.row].open
    /\ rows' = WithClosed(rows, k.row) /\ After(n, k, rows')
    /\ cooling' = cooling \cup {rows[k.row].m}
    /\ excused' = IF rows[k.row].sh = k.sh THEN excused ELSE excused \cup {rows[k.row].m}

Keeps(n, k) ==
    /\ rows' = rows /\ After(n, k, rows') /\ UNCHANGED cooling
    /\ excused \subseteq excused' /\ excused' \subseteq excused \cup {rows[k.row].m}
    /\ rows[k.row].open /\ (k.at = "filled" \/ k.then = "cash") => rows[k.row].m \in excused'

CloseShape(n, k) ==
    SendsExit(n, k) \/ ClosesOrphan(n, k) \/ ClosesSold(n, k) \/ Keeps(n, k)

LEMMA ClosedRow ==
  ASSUME LInv, NEW i \in DOMAIN rows
  PROVE  /\ WithClosed(rows, i) \in Seq(Row) /\ Grows(rows, WithClosed(rows, i))
         /\ DOMAIN WithClosed(rows, i) = DOMAIN rows
         /\ WithClosed(rows, i)[i].m = rows[i].m /\ WithClosed(rows, i)[i].sh = rows[i].sh
         /\ WithClosed(rows, i)[i].legs = rows[i].legs /\ ~WithClosed(rows, i)[i].open
         /\ \A j \in DOMAIN rows : j # i => WithClosed(rows, i)[j] = rows[j]
<1>1. rows \in Seq(Row) /\ Table(rows)
  BY RowsAreTable DEF LInv, TypeOK
<1> QED
  BY <1>1, RowClosed

LEMMA AfterCloseStep ==
  ASSUME LInv, NEW a \in Actor, ClosesRow(job[a]), NEW oc, AfterClose(a, job[a], oc),
         rows' = rows \/ rows' = WithClosed(rows, job[a].row)
  PROVE  /\ TaskStep(a) /\ After(job'[a], job[a], rows') /\ inflight' \subseteq Market
         /\ Grows(rows, rows') /\ rows' \in Seq(Row)
         /\ \A i \in DOMAIN rows : rows'[i].legs = rows[i].legs
<1>1. job[a].row \in DOMAIN rows /\ rows \in Seq(Row)
  BY CloserFacts DEF LInv, TypeOK
<1>2. /\ Grows(rows, rows') /\ rows' \in Seq(Row)
      /\ \A i \in DOMAIN rows : rows'[i].legs = rows[i].legs
  <2>1. CASE rows' = rows
    BY <1>1, <2>1, SameRowsGrow
  <2>2. CASE rows' = WithClosed(rows, job[a].row)
    BY <1>1, <2>2, ClosedRow
  <2> QED
    BY <2>1, <2>2
<1>3. Table(rows') /\ job[a].row \in DOMAIN rows' /\ rows'[job[a].row].m = rows[job[a].row].m
  BY <1>1, <1>2 DEF Grows
<1> QED
  BY <1>2, <1>3, AfterCloseLeads

\* What a close leaves of the tasks and their types.
CloseTypes(a) ==
    /\ TaskStep(a) /\ inflight' \subseteq Market /\ openCids' \subseteq Market
    /\ cooling' \subseteq Market /\ excused' \subseteq Market
    /\ Grows(rows, rows') /\ rows' \in Seq(Row)
    /\ \A i \in DOMAIN rows : rows'[i].legs = rows[i].legs
    /\ left' \in [Kinds -> Nat] /\ seen \subseteq seen'

LEMMA OrphanLeads ==
  ASSUME LInv, NEW a \in Actor, ClosesRow(job[a]), job[a].at # "filled", Orphan(a, job[a])
  PROVE  CloseTypes(a) /\ CloseShape(job'[a], job[a])
<1> DEFINE k == job[a]
<1>1. /\ wallet[rows[k.row].m] = 0 /\ rows' = WithClosed(rows, k.row)
      /\ openCids' = {rows[i].m : i \in {j \in DOMAIN rows : rows'[j].open}}
      /\ AfterClose(a, k, openCids') /\ UNCHANGED <<cooling, excused, bounds>>
  BY DEF Orphan, WithClosed
<1>2. k.at \in {"look", "refused"}
  BY DEF ClosesRow
<1>3. openCids' \subseteq Market
  BY <1>1, RowsAreTable DEF Table, Row
<1>4. /\ TaskStep(a) /\ After(job'[a], k, rows') /\ inflight' \subseteq Market
      /\ Grows(rows, rows') /\ rows' \in Seq(Row)
      /\ \A i \in DOMAIN rows : rows'[i].legs = rows[i].legs
  BY <1>1, AfterCloseStep
<1>5. left' \in [Kinds -> Nat] /\ seen \subseteq seen'
  BY <1>1, Spending DEF Kinds
<1> QED
  BY <1>1, <1>2, <1>3, <1>4, <1>5, MemoryTypes DEF CloseTypes, CloseShape, ClosesOrphan

LEMMA KeepLeads ==
  ASSUME LInv, NEW a \in Actor, ClosesRow(job[a]), Keep(a, job[a]),
         job[a].at = "filled" => ~rows[job[a].row].open,
         Spend("faults") \/ UNCHANGED bounds
  PROVE  CloseTypes(a) /\ CloseShape(job'[a], job[a])
<1> DEFINE k == job[a]
<1>1. /\ rows' = rows /\ openCids' = openCids /\ cooling' = cooling
      /\ AfterClose(a, k, openCids)
      /\ excused' = IF k.then = "cash" /\ rows[k.row].open
                    THEN excused \cup {rows[k.row].m} ELSE excused
  BY DEF Keep
<1>2. /\ TaskStep(a) /\ After(job'[a], k, rows') /\ inflight' \subseteq Market
      /\ Grows(rows, rows') /\ rows' \in Seq(Row)
      /\ \A i \in DOMAIN rows : rows'[i].legs = rows[i].legs
  BY <1>1, AfterCloseStep
<1>3. left' \in [Kinds -> Nat] /\ seen \subseteq seen'
  BY Spending DEF Kinds
<1>4. rows[k.row].m \in Market
  BY CloserFacts
<1>5. Keeps(job'[a], k)
  BY <1>1, <1>2 DEF Keeps
<1> QED
  BY <1>1, <1>2, <1>3, <1>4, <1>5, MemoryTypes DEF CloseTypes, CloseShape

LEMMA ExitSentLeads ==
  ASSUME LInv, NEW a \in Actor, ClosesRow(job[a]), job[a].at = "look", NEW qty \in Nat \ {0},
         Send(a, job[a], "exit", rows[job[a].row].m, qty),
         qty = job[a].sh \/ (qty = wallet[rows[job[a].row].m] /\ qty <= job[a].sh),
         UNCHANGED <<rows, openCids, cooling, inflight, lock, excused>>,
         Spend("faults") \/ UNCHANGED bounds
  PROVE  CloseTypes(a) /\ CloseShape(job'[a], job[a])
<1> DEFINE k == job[a]
           m == rows[k.row].m
           n == [k EXCEPT !.at = "order", !.order = "exit", !.x = m, !.qty = qty]
<1>1. k \in JobType /\ m \in Market /\ k.order \notin {"buy", "cash"} /\ k.at = "look"
  BY CloserFacts
<1>2. n \in JobType /\ Sends(n, k, "exit", m, qty)
  <2> HIDE DEF k, m
  <2> QED
    BY <1>1, SendFields
<1>3. Goto(a, n) /\ lock' = lock
  BY DEF Send
<1> HIDE DEF n
<1>4. (InLock(k) => InLock(n)) /\ (~Needs(k) => ~Needs(n)) /\ (InLock(k) \/ ~Needs(k))
  BY <1>1, <1>2 DEF Sends, InLock, Needs
<1>5. TaskStep(a) /\ job'[a] = n
  BY <1>2, <1>3, <1>4, HoldLeads, OutsideLeads
<1>6. SendsExit(n, k)
  BY <1>1, <1>2 DEF SendsExit
<1>7. left' \in [Kinds -> Nat] /\ seen \subseteq seen'
  BY Spending DEF Kinds
<1>8. Grows(rows, rows') /\ rows' = rows /\ rows' \in Seq(Row)
  BY SameRowsGrow DEF LInv, TypeOK
<1> QED
  BY <1>5, <1>6, <1>7, <1>8, MemoryTypes DEF CloseTypes, CloseShape

LEMMA LookLeads ==
  ASSUME LInv, NEW a \in Actor, Look(a)
  PROVE  CloseTypes(a) /\ CloseShape(job'[a], job[a]) /\ ClosesRow(job[a])
<1> DEFINE k == job[a]
           held == wallet[rows[k.row].m]
<1>1. ClosesRow(k) /\ k.at = "look"
  BY JobFacts DEF Look, Fits, ClosesRow
<1>2. k.sh \in Nat \ {0} /\ rows[k.row].m \in Market
  BY <1>1, CloserFacts
<1>3. held \in Nat
  BY <1>2 DEF LInv, TypeOK
<1>4. UNCHANGED <<watch, manual, yesMap, fails, sweepVars, account>>
  BY DEF Look
<1>5. CASE /\ Spend("faults") /\ Send(a, k, "exit", rows[k.row].m, k.sh)
           /\ UNCHANGED <<rows, openCids, cooling, inflight, lock, excused>>
  BY <1>1, <1>2, <1>5, ExitSentLeads
<1>6. CASE Orphan(a, k)
  BY <1>1, <1>6, OrphanLeads
<1>7. CASE /\ held > 0 /\ Send(a, k, "exit", rows[k.row].m, Min({held, k.sh}))
           /\ UNCHANGED <<rows, openCids, cooling, inflight, lock, excused>>
           /\ UNCHANGED bounds
  <2> DEFINE qty == Min({held, k.sh})
  <2>1. qty = IF held <= k.sh THEN held ELSE k.sh
    BY <1>2, <1>3, LeastOfTwo
  <2>2. qty \in Nat \ {0} /\ (qty = k.sh \/ (qty = held /\ qty <= k.sh))
    BY <1>2, <1>3, <1>7, <2>1
  <2> HIDE DEF qty
  <2>3. Send(a, k, "exit", rows[k.row].m, qty)
    BY <1>7 DEF qty
  <2> QED
    BY <1>1, <1>7, <2>2, <2>3, ExitSentLeads
<1>8. CASE Keep(a, k) /\ UNCHANGED bounds
  BY <1>1, <1>8, KeepLeads
<1> QED
  BY <1>1, <1>5, <1>6, <1>7, <1>8 DEF Look

LEMMA ExitedLeads ==
  ASSUME LInv, NEW a \in Actor, Exited(a)
  PROVE  CloseTypes(a) /\ CloseShape(job'[a], job[a]) /\ ClosesRow(job[a])
<1> DEFINE k == job[a]
           m == rows[k.row].m
<1>1. ClosesRow(k) /\ k.at = "filled" /\ k.order = "exit"
  BY JobFacts DEF Exited, Replied, Fits, ClosesRow
<1>2. k.row \in DOMAIN rows /\ m \in Market
  BY <1>1, CloserFacts
<1>3. CASE /\ rows[k.row].open
           /\ rows' = [rows EXCEPT ![k.row].open = FALSE]
           /\ openCids' = openCids \ {m} /\ cooling' = cooling \cup {m}
           /\ excused' = IF rows[k.row].sh = k.sh THEN excused ELSE excused \cup {m}
           /\ AfterClose(a, k, openCids') /\ UNCHANGED bounds
  <2>1. rows' = WithClosed(rows, k.row)
    BY <1>3 DEF WithClosed
  <2>2. /\ TaskStep(a) /\ After(job'[a], k, rows') /\ inflight' \subseteq Market
        /\ Grows(rows, rows') /\ rows' \in Seq(Row)
        /\ \A i \in DOMAIN rows : rows'[i].legs = rows[i].legs
    BY <1>1, <1>3, <2>1, AfterCloseStep
  <2>3. left' \in [Kinds -> Nat] /\ seen \subseteq seen'
    BY <1>3, Spending DEF Kinds
  <2>4. openCids' \subseteq Market /\ cooling' \subseteq Market /\ excused' \subseteq Market
    BY <1>2, <1>3, MemoryTypes
  <2>5. ClosesSold(job'[a], k)
    BY <1>1, <1>3, <2>1, <2>2 DEF ClosesSold
  <2> QED
    BY <1>1, <2>2, <2>3, <2>4, <2>5 DEF CloseTypes, CloseShape
<1>4. CASE /\ rows[k.row].open /\ Spend("faults")
           /\ excused' = excused \cup {m}
           /\ UNCHANGED <<rows, openCids, cooling>> /\ AfterClose(a, k, openCids)
  <2>2. /\ TaskStep(a) /\ After(job'[a], k, rows') /\ inflight' \subseteq Market
        /\ Grows(rows, rows') /\ rows' \in Seq(Row)
        /\ \A i \in DOMAIN rows : rows'[i].legs = rows[i].legs
    BY <1>1, <1>4, AfterCloseStep
  <2>3. left' \in [Kinds -> Nat] /\ seen \subseteq seen'
    BY <1>4, Spending DEF Kinds
  <2>4. openCids' \subseteq Market /\ cooling' \subseteq Market /\ excused' \subseteq Market
    BY <1>2, <1>4, MemoryTypes
  <2>5. Keeps(job'[a], k)
    BY <1>4, <2>2 DEF Keeps
  <2> QED
    BY <1>1, <2>2, <2>3, <2>4, <2>5 DEF CloseTypes, CloseShape
<1>5. CASE ~rows[k.row].open /\ Keep(a, k) /\ UNCHANGED bounds
  BY <1>1, <1>5, KeepLeads
<1> QED
  BY <1>3, <1>4, <1>5 DEF Exited

LEMMA NotExitedLeads ==
  ASSUME LInv, NEW a \in Actor, NotExited(a)
  PROVE  CloseTypes(a) /\ CloseShape(job'[a], job[a]) /\ ClosesRow(job[a])
<1>1. ClosesRow(job[a]) /\ job[a].at = "refused"
  BY JobFacts DEF NotExited, Replied, Fits, ClosesRow
<1> QED
  BY <1>1, OrphanLeads, KeepLeads DEF NotExited

\* Every shape leads to a job that fits, and never to a buy.
LEMMA CloseShapeFits ==
  ASSUME LInv, NEW a \in Actor, CloseTypes(a), CloseShape(job'[a], job[a]), ClosesRow(job[a])
  PROVE  /\ Fits(job'[a], rows') /\ SaleFits(job'[a], fails) /\ AddFits(job'[a], rows')
         /\ job'[a].order # "buy"
         /\ a = "sweep" /\ stage = "timeouts" =>
               job'[a] = Idle \/ (job'[a].then = "timeout" /\ job'[a].row = job[a].row)
<1> DEFINE k == job[a]
           n == job'[a]
           P == /\ Fits(n, rows') /\ SaleFits(n, fails) /\ AddFits(n, rows')
                /\ n.order # "buy"
                /\ a = "sweep" /\ stage = "timeouts" =>
                      n = Idle \/ (n.then = "timeout" /\ n.row = k.row)
<1>1. /\ k \in JobType /\ Fits(k, rows) /\ SaleFits(k, fails) /\ AddFits(k, rows)
      /\ Grows(rows, rows') /\ Table(rows')
  BY JobFacts DEF CloseTypes, Grows
<1>2. Fits(k, rows')
  BY <1>1, FitsLater
<1>3. AddFits(k, rows')
  <2>1. \A i \in DOMAIN rows : rows'[i].legs = rows[i].legs
    BY DEF CloseTypes
  <2> QED
    BY <1>1, <2>1 DEF AddFits, Fits
<1>4. a = "sweep" /\ stage = "timeouts" => k.then = "timeout"
  BY SweepIsOut, IdleFields DEF ClosesRow
<1>5. k.then # "none"
  BY DEF ClosesRow
<1> SUFFICES P
  OBVIOUS
<1>6. ASSUME After(n, k, rows') PROVE P
  <2>1. Fits(n, rows') /\ SaleFits(n, fails) /\ AddFits(n, rows')
    BY <1>1, <1>2, <1>3, <1>5, <1>6, AfterFits
  <2>2. n.order # "buy"
    BY <1>6, IdleFields DEF After, Sold, Sells, Entered, Waiting, AtBalance
  <2>3. k.then = "timeout" => n = Idle
    BY <1>6 DEF After
  <2> QED
    BY <1>4, <2>1, <2>2, <2>3
<1>7. ASSUME SendsExit(n, k) PROVE P
  <2>1. PICK qty \in Nat \ {0} : Sends(n, k, "exit", rows[k.row].m, qty)
    BY <1>7 DEF SendsExit
  <2>2. rows' = rows /\ k.row \in DOMAIN rows /\ rows[k.row].m \in Market /\ k.m \in Market
        /\ k.order \notin {"buy", "cash"} /\ k.at = "look"
    BY <1>7, CloserFacts DEF SendsExit
  <2>3. Fits(n, rows)
    BY <1>1, <1>5, <2>1, <2>2 DEF Sends, Fits, HasRow
  <2>4. SaleFits(n, fails) /\ AddFits(n, rows)
    BY <1>1, <2>1, <2>2 DEF Sends, SaleFits, AddFits, InLock
  <2>5. n.order # "buy" /\ n.then = k.then /\ n.row = k.row
    BY <2>1 DEF Sends
  <2> QED
    BY <1>4, <2>2, <2>3, <2>4, <2>5
<1> HIDE DEF P, k, n
<1> QED
  BY <1>6, <1>7 DEF CloseShape, ClosesOrphan, ClosesSold, Keeps, k, n

LEMMA CloseKeeps ==
  ASSUME LInv, NEW a \in Actor, Look(a) \/ Exited(a) \/ NotExited(a)
  PROVE  LInv'
<1>1. CloseTypes(a) /\ CloseShape(job'[a], job[a]) /\ ClosesRow(job[a])
  BY LookLeads, ExitedLeads, NotExitedLeads
<1>2. UNCHANGED <<watch, manual, yesMap, fails, sweepVars, account>>
  BY DEF Look, Exited, NotExited
<1>3. /\ Fits(job'[a], rows') /\ SaleFits(job'[a], fails) /\ AddFits(job'[a], rows')
      /\ job'[a].order # "buy"
      /\ a = "sweep" /\ stage = "timeouts" =>
            job'[a] = Idle \/ (job'[a].then = "timeout" /\ job'[a].row = job[a].row)
  BY <1>1, CloseShapeFits
<1>4. TodoFits'
  BY <1>1, <1>2, <1>3, TodoKept DEF CloseTypes, sweepVars
<1>5. \A b \in Actor : b # a => SaleFits(job[b], fails') /\ AddFits(job[b], rows')
  <2> TAKE b \in Actor
  <2>1. SaleFits(job[b], fails) /\ AddFits(job[b], rows) /\ Fits(job[b], rows)
    BY JobFacts
  <2>2. \A i \in DOMAIN rows : rows'[i].legs = rows[i].legs
    BY <1>1 DEF CloseTypes
  <2>3. AddFits(job[b], rows')
    BY <2>1, <2>2 DEF AddFits, Fits
  <2> QED
    BY <1>2, <2>1, <2>3
<1>6. fails' \in [Market -> 0..SellFailMax]
  BY <1>2 DEF LInv, TypeOK
<1> QED
  BY <1>1, <1>2, <1>3, <1>4, <1>5, <1>6, TaskKeeps, MemoryTypes
     DEF CloseTypes, sweepVars, account

-----------------------------------------------------------------------------
(* The exchange. *)

\* An order at the exchange gets its answer, or none.
LEMMA AnswerLeads ==
  ASSUME LInv, NEW a \in Actor, NEW at \in {"filled", "refused"}, job[a].at = "order",
         Goto(a, [job[a] EXCEPT !.at = at]), lock' = lock
  PROVE  /\ TaskStep(a) /\ AtStage(job'[a], job[a], at)
         /\ OrderOf(job[a]) \in Order
         /\ job[a].x \in Market /\ job[a].qty \in Nat \ {0}
<1> DEFINE k == job[a]
           n == [k EXCEPT !.at = at]
<1>1. k \in JobType /\ Fits(k, rows)
  BY JobFacts
<1>2. k.order \in {"buy", "cash", "exit"} /\ k.x \in Market /\ k.qty \in Nat \ {0}
  <2> HIDE DEF k
  <2>1. k.at = "order"
    BY DEF k
  <2> QED
    BY <1>1, <2>1, JobTypes DEF Fits
<1>3. n \in JobType /\ AtStage(n, k, at)
  BY <1>1, AtFields
<1>4. InLock(k) \/ ~Needs(k)
  BY DEF Needs
<1>5. (InLock(k) => InLock(n)) /\ (~Needs(k) => ~Needs(n))
  BY <1>3 DEF InLock, Needs, AtStage
<1>6. TaskStep(a) /\ job'[a] = n
  <2> HIDE DEF n
  <2>1. Goto(a, n)
    BY DEF n
  <2> QED
    BY <1>3, <1>4, <1>5, <2>1, HoldLeads, OutsideLeads
<1> QED
  BY <1>2, <1>3, <1>6 DEF OrderOf, Order

LEMMA AnswerFits ==
  ASSUME NEW k, NEW n, NEW rs, NEW f, NEW at \in {"filled", "refused"}, k.at = "order",
         AtStage(n, k, at), Fits(k, rs), SaleFits(k, f), AddFits(k, rs)
  PROVE  Fits(n, rs) /\ SaleFits(n, f) /\ AddFits(n, rs)
<1>1. Fits(n, rs)
  BY DEF Fits, AtStage, HasRow
<1>2. SaleFits(n, f) /\ AddFits(n, rs)
  BY DEF SaleFits, AddFits, AtStage, InLock
<1> QED
  BY <1>1, <1>2

\* The account alone changes.
LEMMA ExchangeKeeps ==
  ASSUME LInv, UNCHANGED <<ledger, memory, sweepVars>>, JobsFit', LockKept',
         job' \in [Actor -> JobType], TodoFits',
         wallet' \in [Market -> Nat], cash' \in Nat, resting' \in Seq(Order),
         excused' \subseteq Market, left' \in [Kinds -> Nat], Quiet', OrdersAreFunded'
  PROVE  LInv'
<1>1. \/ lock' = <<>>
      \/ \E c \in Actor : lock' = <<c>>
      \/ \E c, b \in Actor : c # b /\ lock' = <<c, b>>
  BY LockTypes DEF LockKept
<1>2. TypeOK'
  BY <1>1 DEF LInv, TypeOK, Kinds, ledger, memory, sweepVars
<1> QED
  BY <1>2 DEF LInv

LEMMA AnswerKeeps ==
  ASSUME LInv, NEW a \in Actor, NEW at \in {"filled", "refused"}, TaskStep(a),
         job[a].at = "order", AtStage(job'[a], job[a], at),
         UNCHANGED <<ledger, memory, sweepVars, excused>>,
         wallet' \in [Market -> Nat], cash' \in Nat, resting' \in Seq(Order),
         left' \in [Kinds -> Nat], seen \subseteq seen',
         {"faults", "restarts"} \cap seen' = {} => resting' = resting,
         cash' # cash => InLock(job[a]) \/ cash <= cash'
  PROVE  LInv'
<1>1. rows' = rows /\ fails' = fails /\ todo' = todo /\ stage' = stage
  BY DEF ledger, memory, sweepVars
<1>2. JobsFit'
  <2>1. ASSUME NEW b \in Actor
        PROVE  Fits(job'[b], rows) /\ SaleFits(job'[b], fails) /\ AddFits(job'[b], rows)
    <3>1. Fits(job[b], rows) /\ SaleFits(job[b], fails) /\ AddFits(job[b], rows)
      BY JobFacts
    <3>2. CASE b = a
      BY <3>1, <3>2, AnswerFits
    <3>3. CASE b # a
      BY <3>1, <3>3 DEF TaskStep
    <3> QED
      BY <3>2, <3>3
  <2> QED
    BY <1>1, <2>1 DEF JobsFit
<1>3. LockKept'
  <2>1. ASSUME NEW b \in Actor, NEW c \in Actor, b # c
        PROVE  LockIs(lock', b, job'[b], c, job'[c])
    <3>1. CASE b = a
      BY <2>1, <3>1 DEF TaskStep
    <3>2. CASE c = a
      BY <2>1, <3>2 DEF TaskStep, LockIs
    <3>3. CASE b # a /\ c # a
      BY <2>1, <3>3, Actors DEF LInv, LockKept, TaskStep
    <3> QED
      BY <3>1, <3>2, <3>3
  <2> QED
    BY <2>1 DEF LockKept
<1>4. TodoFits'
  <2>1. Grows(rows, rows')
    BY <1>1, SameRowsGrow
  <2>2. a = "sweep" /\ stage = "timeouts" =>
           job'[a] = Idle \/ (job'[a].then = "timeout" /\ job'[a].row = job[a].row)
    BY SweepIsOut, IdleFields DEF AtStage
  <2> QED
    BY <1>1, <2>1, <2>2, TodoKept
<1>5. Quiet'
  BY DEF LInv, Quiet
<1>6. OrdersAreFunded'
  <2>1. ASSUME {"faults", "restarts"} \cap seen' = {}, NEW b \in Actor,
               job'[b].at = "order", job'[b].order = "buy"
        PROVE  job'[b].qty <= cash'
    <3>1. b # a
      BY <2>1 DEF AtStage
    <3>2. job'[b] = job[b] /\ {"faults", "restarts"} \cap seen = {}
      BY <2>1, <3>1 DEF TaskStep
    <3>3. ~InLock(job[a])
      BY <2>1, <3>1, <3>2, Alone
    <3>4. job[b].qty <= cash /\ job[b].qty \in Nat /\ cash \in Nat
      BY <2>1, <3>2, JobFacts, JobTypes DEF LInv, OrdersAreFunded, Replied, TypeOK
    <3>5. cash <= cash'
      BY <3>3, <3>4
    <3> QED
      BY <3>2, <3>4, <3>5
  <2> QED
    BY <2>1 DEF OrdersAreFunded, Replied
<1> QED
  BY <1>2, <1>3, <1>4, <1>5, <1>6, ExchangeKeeps, MemoryTypes DEF TaskStep

\* What filling an order does to the account.
LEMMA Filled ==
  ASSUME LInv, NEW o \in Order, Fill(o)
  PROVE  /\ wallet' \in [Market -> Nat] /\ cash' \in Nat
         /\ o.order = "buy" => wallet'[o.x] = wallet[o.x] + o.qty
         /\ o.order # "buy" => /\ wallet'[o.x] = wallet[o.x] - o.qty /\ o.qty <= wallet[o.x]
                               /\ cash <= cash'
         /\ \A m \in Market : m # o.x => wallet'[m] = wallet[m]
<1> DEFINE d == IF o.order = "buy" THEN o.qty ELSE -o.qty
<1>1. o.x \in Market /\ o.qty \in Nat \ {0} /\ d \in Int
  BY DEF Order
<1>2. wallet \in [Market -> Nat] /\ cash \in Nat
  BY DEF LInv, TypeOK
<1>3. wallet[o.x] \in Nat
  BY <1>1, <1>2
<1>4. CanFill(o) /\ cash' = cash - d /\ wallet' = [wallet EXCEPT ![o.x] = @ + d]
  BY DEF Fill
<1>5. CASE o.order = "buy"
  <2>1. o.qty <= cash /\ d = o.qty
    BY <1>4, <1>5 DEF CanFill
  <2>2. cash - d \in Nat /\ wallet[o.x] + d \in Nat
    BY <1>1, <1>2, <1>3, <2>1
  <2> QED
    BY <1>1, <1>2, <1>4, <1>5, <2>1, <2>2
<1>6. CASE o.order # "buy"
  <2>1. o.qty <= wallet[o.x] /\ d = -o.qty
    BY <1>4, <1>6 DEF CanFill
  <2>2. cash - d \in Nat /\ wallet[o.x] + d \in Nat /\ cash <= cash - d
        /\ wallet[o.x] + d = wallet[o.x] - o.qty
    BY <1>1, <1>2, <1>3, <2>1
  <2> QED
    BY <1>1, <1>2, <1>4, <1>6, <2>1, <2>2
<1> QED
  BY <1>5, <1>6

LEMMA MatchLeads ==
  ASSUME LInv, NEW a \in Actor, Match(a)
  PROVE  /\ TaskStep(a) /\ AtStage(job'[a], job[a], "filled") /\ job[a].at = "order"
         /\ OrderOf(job[a]) \in Order /\ Fill(OrderOf(job[a]))
BY AnswerLeads DEF Match

LEMMA MatchKeeps ==
  ASSUME LInv, NEW a \in Actor, Match(a)
  PROVE  LInv'
<1> DEFINE o == OrderOf(job[a])
<1>1. /\ TaskStep(a) /\ AtStage(job'[a], job[a], "filled") /\ job[a].at = "order"
      /\ o \in Order /\ Fill(o)
  BY MatchLeads
<1>2. o.order = job[a].order
  BY DEF OrderOf
<1> HIDE DEF o
<1>3. wallet' \in [Market -> Nat] /\ cash' \in Nat /\ (o.order # "buy" => cash <= cash')
  BY <1>1, Filled
<1>4. o.order = "buy" => InLock(job[a])
  BY <1>2 DEF InLock
<1>5. UNCHANGED <<ledger, memory, lock, sweepVars, resting, excused, bounds>>
  BY DEF Match
<1>6. resting' \in Seq(Order) /\ left' \in [Kinds -> Nat] /\ seen \subseteq seen'
  BY <1>5 DEF LInv, TypeOK, bounds, Kinds
<1> QED
  BY <1>1, <1>3, <1>4, <1>5, <1>6, AnswerKeeps

LEMMA RefuseLeads ==
  ASSUME LInv, NEW a \in Actor, Refuse(a) \/ Strand(a)
  PROVE  /\ TaskStep(a) /\ AtStage(job'[a], job[a], "refused") /\ job[a].at = "order"
         /\ OrderOf(job[a]) \in Order
BY AnswerLeads DEF Refuse, Strand

LEMMA RefuseKeeps ==
  ASSUME LInv, NEW a \in Actor, Refuse(a) \/ Strand(a)
  PROVE  LInv'
<1>1. /\ TaskStep(a) /\ AtStage(job'[a], job[a], "refused") /\ job[a].at = "order"
      /\ OrderOf(job[a]) \in Order
  BY RefuseLeads
<1>2. UNCHANGED <<ledger, memory, sweepVars, wallet, cash, excused>>
  BY DEF Refuse, Strand, account
<1>3. resting' \in Seq(Order)
  <2> DEFINE o == OrderOf(job[a])
  <2>1. resting \in Seq(Order) /\ o \in Order
    BY <1>1 DEF LInv, TypeOK
  <2>2. resting' = resting \/ resting' = Append(resting, o)
    BY DEF Refuse, Strand, account
  <2> HIDE DEF o
  <2> QED
    BY <2>1, <2>2
<1>4. left' \in [Kinds -> Nat] /\ seen \subseteq seen'
  BY Spending DEF Kinds, Refuse, Strand
<1>5. {"faults", "restarts"} \cap seen' = {} => resting' = resting
  BY DEF Refuse, Strand, account, Spend
<1>6. wallet' \in [Market -> Nat] /\ cash' \in Nat
  BY <1>2 DEF LInv, TypeOK
<1> QED
  BY <1>1, <1>2, <1>3, <1>4, <1>5, <1>6, AnswerKeeps

LEMMA RemovedAt ==
  ASSUME NEW s \in Seq(Order), NEW i \in DOMAIN s
  PROVE  RemoveAt(s, i) \in Seq(Order)
<1>1. i \in 1..Len(s) /\ Len(s) \in Nat
  OBVIOUS
<1>2. SubSeq(s, 1, i - 1) \in Seq(Order)
  <2>1. \A j \in 1 .. i - 1 : s[j] \in Order
    BY <1>1
  <2> QED
    BY <1>1, <2>1, SubSeqProperties
<1>3. SubSeq(s, i + 1, Len(s)) \in Seq(Order)
  <2>1. \A j \in i + 1 .. Len(s) : s[j] \in Order
    BY <1>1
  <2> QED
    BY <1>1, <2>1, SubSeqProperties
<1> QED
  BY <1>2, <1>3, ConcatProperties DEF RemoveAt

\* A step that leaves the tasks and the rows alone.
LEMMA TasksKept ==
  ASSUME LInv, UNCHANGED <<rows, fails, lock, job, stage, todo>>
  PROVE  JobsFit' /\ LockKept' /\ TodoFits' /\ job' \in [Actor -> JobType]
<1>1. JobsFit' /\ LockKept' /\ TodoFits'
  BY DEF LInv, JobsFit, LockKept, TodoFits
<1> QED
  BY <1>1 DEF LInv, TypeOK

LEMMA RestingLeads ==
  ASSUME LInv, NEW i \in DOMAIN resting, RestingFills(i)
  PROVE  /\ resting[i] \in Order /\ wallet' \in [Market -> Nat] /\ cash' \in Nat
         /\ \A m \in Market : m # resting[i].x => wallet'[m] = wallet[m]
         /\ excused' = excused \cup {resting[i].x}
         /\ UNCHANGED <<ledger, memory, lock, job, sweepVars, bounds>>
<1>1. resting[i] \in Order
  BY DEF LInv, TypeOK
<1>2. Fill(resting[i])
  BY DEF RestingFills
<1> QED
  BY <1>1, <1>2, Filled DEF RestingFills

LEMMA RestingKeeps ==
  ASSUME LInv, NEW i \in DOMAIN resting, RestingFills(i)
  PROVE  LInv'
<1>1. /\ resting[i] \in Order /\ wallet' \in [Market -> Nat] /\ cash' \in Nat
      /\ excused' = excused \cup {resting[i].x}
      /\ UNCHANGED <<ledger, memory, lock, job, sweepVars, bounds>>
  BY RestingLeads
<1>2. resting' \in Seq(Order)
  BY RemovedAt DEF RestingFills, LInv, TypeOK
<1>3. excused' \subseteq Market
  BY <1>1, MemoryTypes DEF Order
<1>4. left' \in [Kinds -> Nat] /\ seen' = seen
  BY <1>1 DEF bounds, LInv, TypeOK, Kinds
<1>5. {"faults", "restarts"} \cap seen' # {}
  BY <1>4 DEF LInv, Quiet
<1>6. Quiet' /\ OrdersAreFunded'
  BY <1>5 DEF Quiet, OrdersAreFunded
<1>7. JobsFit' /\ LockKept' /\ TodoFits' /\ job' \in [Actor -> JobType]
  BY <1>1, TasksKept DEF ledger, memory, sweepVars
<1> QED
  BY <1>1, <1>2, <1>3, <1>4, <1>6, <1>7, ExchangeKeeps

-----------------------------------------------------------------------------
(* The sweep, the user, time. *)

\* No task moves: the memory, the watch list and the sweep's state change, or a row does.
LEMMA StillKeeps ==
  ASSUME LInv, UNCHANGED <<fails, lock, job, account>>, TodoFits',
         rows' \in Seq(Row), Grows(rows, rows'),
         \A i \in DOMAIN rows : rows'[i].legs = rows[i].legs,
         watch' \in [Market -> {"none", "included", "excluded", "dropped"}],
         stage' \in {"sleep", "enumerate", "curves", "poll", "timeouts"},
         manual' \subseteq Market, openCids' \subseteq Market, yesMap' \subseteq Market,
         cooling' \subseteq Market, inflight' \subseteq Market, excused' \subseteq Market,
         left' \in [Kinds -> Nat], seen \subseteq seen'
  PROVE  LInv'
<1>1. JobsFit'
  <2>1. ASSUME NEW a \in Actor
        PROVE  Fits(job[a], rows') /\ SaleFits(job[a], fails) /\ AddFits(job[a], rows')
    <3>1. job[a] \in JobType /\ Fits(job[a], rows) /\ SaleFits(job[a], fails)
          /\ AddFits(job[a], rows)
      BY JobFacts
    <3>2. Fits(job[a], rows')
      BY <3>1, FitsLater
    <3>3. AddFits(job[a], rows')
      BY <3>1 DEF AddFits, Fits
    <3> QED
      BY <3>1, <3>2, <3>3
  <2> QED
    BY <2>1 DEF JobsFit
<1>2. LockKept'
  BY DEF LInv, LockKept
<1>3. TypeOK'
  BY DEF LInv, TypeOK, Kinds, account
<1>4. Quiet' /\ OrdersAreFunded'
  BY DEF LInv, Quiet, OrdersAreFunded, account, Replied
<1> QED
  BY <1>1, <1>2, <1>3, <1>4 DEF LInv

\* ... and the table stays.
LEMMA CalmSweepKeeps ==
  ASSUME LInv, UNCHANGED <<rows, fails, lock, job, account>>, TodoFits',
         watch' \in [Market -> {"none", "included", "excluded", "dropped"}],
         stage' \in {"sleep", "enumerate", "curves", "poll", "timeouts"},
         manual' \subseteq Market, openCids' \subseteq Market, yesMap' \subseteq Market,
         cooling' \subseteq Market, inflight' \subseteq Market, excused' \subseteq Market,
         left' \in [Kinds -> Nat], seen \subseteq seen'
  PROVE  LInv'
<1>1. rows' \in Seq(Row) /\ Grows(rows, rows')
      /\ \A i \in DOMAIN rows : rows'[i].legs = rows[i].legs
  BY SameRowsGrow DEF LInv, TypeOK
<1> QED
  BY <1>1, StillKeeps

LEMMA LedgerTypes ==
  ASSUME LInv
  PROVE  /\ watch \in [Market -> {"none", "included", "excluded", "dropped"}]
         /\ stage \in {"sleep", "enumerate", "curves", "poll", "timeouts"}
         /\ manual \subseteq Market /\ OpenMarkets \subseteq Market
         /\ left \in [Kinds -> Nat]
BY DEF LInv, TypeOK, OpenMarkets, Kinds

LEMMA BeginSweepKeeps ==
  ASSUME LInv, BeginSweep
  PROVE  LInv'
<1>1. TodoFits'
  BY DEF BeginSweep, Subscribe, TodoFits
<1>2. watch' \in [Market -> {"none", "included", "excluded", "dropped"}]
      /\ stage' \in {"sleep", "enumerate", "curves", "poll", "timeouts"}
      /\ manual' \subseteq Market /\ openCids' \subseteq Market /\ yesMap' \subseteq Market
      /\ UNCHANGED <<cooling, inflight, excused>>
  BY LedgerTypes, MemoryTypes DEF BeginSweep, Subscribe
<1>3. left' \in [Kinds -> Nat] /\ seen \subseteq seen'
  BY Spending DEF BeginSweep, Kinds
<1> QED
  BY <1>1, <1>2, <1>3, MemoryTypes, CalmSweepKeeps DEF BeginSweep

LEMMA EnumerateKeeps ==
  ASSUME LInv, Enumerate
  PROVE  LInv'
<1>1. TodoFits'
  BY DEF Enumerate, TodoFits
<1>2. left' \in [Kinds -> Nat] /\ seen \subseteq seen'
  BY Spending DEF Enumerate, Kinds
<1> QED
  BY <1>1, <1>2, LedgerTypes, MemoryTypes, CalmSweepKeeps DEF Enumerate, ledger, memory

\* The list that the screener leaves.
LEMMA ScreenTypes ==
  ASSUME NEW w \in [Market -> {"none", "included", "excluded", "dropped"}],
         NEW passed
  PROVE  DropOutOfBand(Include(passed, w))
            \in [Market -> {"none", "included", "excluded", "dropped"}]
<1>1. Include(passed, w) \in [Market -> {"none", "included", "excluded", "dropped"}]
  BY DEF Include
<1> QED
  BY <1>1 DEF DropOutOfBand

LEMMA ApplyScreenKeeps ==
  ASSUME LInv, ApplyScreen
  PROVE  LInv'
<1>1. watch' \in [Market -> {"none", "included", "excluded", "dropped"}]
  BY LedgerTypes, ScreenTypes DEF ApplyScreen
<1>2. /\ stage' = "poll" /\ yesMap' \subseteq Market /\ todo' \subseteq Market
      /\ UNCHANGED <<rows, manual, openCids, cooling, inflight, fails, lock, job, account,
                     excused, bounds>>
  BY DEF ApplyScreen, Subscribe
<1>3. TodoFits'
  BY <1>2 DEF TodoFits
<1>4. left' \in [Kinds -> Nat] /\ seen \subseteq seen'
  BY <1>2, Spending DEF Kinds
<1> QED
  BY <1>1, <1>2, <1>3, <1>4, LedgerTypes, MemoryTypes, CalmSweepKeeps

LEMMA ScreenFailsKeeps ==
  ASSUME LInv, ScreenFails
  PROVE  LInv'
<1>1. /\ stage' = "poll" /\ yesMap' \subseteq Market /\ todo' \subseteq Market
      /\ UNCHANGED <<ledger, openCids, cooling, inflight, fails, lock, job, account,
                     excused, bounds>>
  BY DEF ScreenFails, Subscribe
<1>2. TodoFits'
  BY <1>1 DEF TodoFits
<1>3. left' \in [Kinds -> Nat] /\ seen \subseteq seen'
  BY <1>1, Spending DEF Kinds
<1> QED
  BY <1>1, <1>2, <1>3, LedgerTypes, MemoryTypes, CalmSweepKeeps DEF ledger

LEMMA TimeoutsFacts ==
  ASSUME LInv, BeginTimeouts
  PROVE  TodoFits'
<1>1. /\ job' = job /\ job["sweep"] = Idle /\ rows' = rows /\ stage' = "timeouts"
      /\ todo' = {<<i, rows[i].sh>> : i \in {k \in DOMAIN rows : rows[k].open}}
  BY DEF BeginTimeouts, SweepIdle, ledger
<1>2. ASSUME NEW c \in todo'
      PROVE  /\ c \in Nat \X Nat /\ c[1] \in DOMAIN rows
             /\ c[2] # 0 /\ c[2] <= rows[c[1]].sh /\ c[1] # 0
             /\ \A d \in todo' : d[1] = c[1] => d = c
  <2>1. PICK i \in DOMAIN rows : c = <<i, rows[i].sh>>
    BY <1>1, <1>2
  <2>2. i \in Nat \ {0} /\ rows[i].sh \in Nat \ {0}
    BY RowsAreTable DEF Table, Row
  <2>3. \A d \in todo' : d[1] = c[1] => d = c
    BY <1>1, <2>1
  <2> QED
    BY <2>1, <2>2, <2>3
<1> QED
  BY <1>1, <1>2, IdleFields DEF TodoFits

LEMMA BeginTimeoutsKeeps ==
  ASSUME LInv, BeginTimeouts
  PROVE  LInv'
<1>1. left' \in [Kinds -> Nat] /\ seen \subseteq seen'
  BY Spending DEF BeginTimeouts, Kinds
<1> QED
  BY <1>1, TimeoutsFacts, LedgerTypes, MemoryTypes, CalmSweepKeeps DEF BeginTimeouts, ledger, memory

LEMMA EndSweepKeeps ==
  ASSUME LInv, EndSweep
  PROVE  LInv'
<1>1. left' \in [Kinds -> Nat] /\ seen \subseteq seen'
  BY Spending DEF EndSweep, Kinds
<1>2. TodoFits'
  BY DEF EndSweep, TodoFits
<1> QED
  BY <1>1, <1>2, LedgerTypes, MemoryTypes, CalmSweepKeeps DEF EndSweep, ledger, memory

\* The sweep takes its next row, and leaves it alone or closes it.
LEMMA SweepRowLeads ==
  ASSUME LInv, SweepRow
  PROVE  /\ job["sweep"] = Idle /\ stage = "timeouts"
         /\ UNCHANGED <<ledger, memory, lock, stage, screen, account, excused, bounds>>
         /\ TodoFits'
         /\ \/ job' = job /\ todo' \subseteq todo
            \/ \E c \in todo :
                  /\ todo' = todo \ {c} /\ TaskStep("sweep")
                  /\ c[1] \in DOMAIN rows /\ c[2] # 0 /\ c[2] <= rows[c[1]].sh
                  /\ Closes(job'["sweep"], Signal(rows[c[1]].m, 0), c[1], c[2], "timeout")
<1>1. /\ job["sweep"] = Idle /\ stage = "timeouts"
      /\ UNCHANGED <<ledger, memory, lock, stage, screen, account, excused, bounds>>
  BY DEF SweepRow, SweepIdle
<1>2. PICK c \in todo :
          /\ todo' = todo \ {c}
          /\ \/ Close("sweep", Signal(rows[c[1]].m, 0), c[1], c[2], "timeout")
             \/ UNCHANGED job
  BY DEF SweepRow
<1>3. \A d \in todo : /\ d \in Nat \X Nat /\ d[1] \in DOMAIN rows
                      /\ d[2] # 0 /\ d[2] <= rows[d[1]].sh
                      /\ \A e \in todo : e[1] = d[1] => e = d
  BY <1>1 DEF LInv, TodoFits
<1>4. \A d \in todo : d[1] # 0
  BY <1>3, RowsAreTable DEF Table
<1>5. rows' = rows /\ stage' = stage
  BY <1>1 DEF ledger
<1>6. CASE UNCHANGED job
  <2>1. TodoFits'
    BY <1>1, <1>2, <1>3, <1>4, <1>5, <1>6, IdleFields DEF TodoFits
  <2> QED
    BY <1>1, <1>2, <1>6, <2>1
<1>7. CASE Close("sweep", Signal(rows[c[1]].m, 0), c[1], c[2], "timeout")
  <2> DEFINE m == rows[c[1]].m
             j == Signal(m, 0)
             n == job'["sweep"]
  <2>1. m \in Market /\ c[1] \in Nat /\ c[2] \in Nat
    BY <1>3, RowsAreTable DEF Table, Row
  <2>2. j \in JobType /\ j.m \in Market
    <3> HIDE DEF m
    <3> QED
      BY <2>1, SignalFields DEF Waiting
  <2>3. ~Needs(job["sweep"])
    BY <1>1, IdleIsOut
  <2>4. TaskStep("sweep") /\ Closes(n, j, c[1], c[2], "timeout")
    <3> HIDE DEF j
    <3>1. Close("sweep", j, c[1], c[2], "timeout") /\ UNCHANGED lock
      BY <1>1, <1>7 DEF j
    <3> QED
      BY <2>1, <2>2, <2>3, <3>1, CloseLeads, Actors
  <2>5. n.then = "timeout" /\ n.row = c[1]
    BY <2>4 DEF Closes
  <2>6. TodoFits'
    <3>1. \A d \in todo' : d \in todo /\ d # c
      BY <1>2
    <3>2. \A d \in todo' : d[1] # c[1]
      BY <1>3, <3>1
    <3>3. ASSUME NEW d \in todo'
          PROVE  /\ d \in Nat \X Nat /\ d[1] \in DOMAIN rows
                 /\ d[2] # 0 /\ d[2] <= rows[d[1]].sh /\ d[1] # n.row
                 /\ \A e \in todo' : e[1] = d[1] => e = d
      BY <1>3, <2>5, <3>1, <3>2
    <3>4. stage' = "timeouts"
      BY <1>1, <1>5
    <3> QED
      BY <1>5, <2>5, <3>3, <3>4 DEF TodoFits
  <2> QED
    BY <1>1, <1>2, <1>3, <2>4, <2>6
<1> QED
  BY <1>2, <1>6, <1>7

LEMMA SweepRowKeeps ==
  ASSUME LInv, SweepRow
  PROVE  LInv'
<1>1. /\ job["sweep"] = Idle /\ stage = "timeouts"
      /\ UNCHANGED <<ledger, memory, lock, stage, screen, account, excused, bounds>>
      /\ TodoFits'
  BY SweepRowLeads
<1>2. left' \in [Kinds -> Nat] /\ seen \subseteq seen'
  BY <1>1, Spending DEF Kinds
<1>3. CASE job' = job
  BY <1>1, <1>2, <1>3, LedgerTypes, MemoryTypes, CalmSweepKeeps DEF ledger, memory
<1>4. ASSUME NEW c \in todo, TaskStep("sweep"),
             c[1] \in DOMAIN rows, c[2] # 0, c[2] <= rows[c[1]].sh,
             Closes(job'["sweep"], Signal(rows[c[1]].m, 0), c[1], c[2], "timeout")
      PROVE  LInv'
  <2> DEFINE m == rows[c[1]].m
             j == Signal(m, 0)
             n == job'["sweep"]
  <2>1. m \in Market
    BY <1>4, RowsAreTable DEF Table, Row
  <2>2. j.m = m /\ j.leg = 0 /\ j.cands = {}
    <3> HIDE DEF m
    <3> QED
      BY <2>1, SignalFields DEF Waiting
  <2>3. n.order = "none"
    BY <1>4 DEF Closes
  <2>4. Fits(n, rows) /\ SaleFits(n, fails) /\ AddFits(n, rows)
    <3> HIDE DEF m, j
    <3>1. Closes(n, j, c[1], c[2], "timeout")
      BY <1>4 DEF m, j
    <3> QED
      BY <1>4, <2>1, <2>2, <3>1, CloseFits
  <2> QED
    BY <1>1, <1>2, <1>4, <2>3, <2>4, Actors, CalmKeeps, MemoryTypes DEF memory
<1> QED
  BY <1>3, <1>4, SweepRowLeads

LEMMA EditKeeps ==
  ASSUME LInv, NEW m \in Market, AddMarket(m) \/ SetStatus(m) \/ DeleteMarket(m)
  PROVE  LInv'
<1>1. Spend("edits") /\ Edited /\ manual' \subseteq Market
  BY LedgerTypes DEF AddMarket, SetStatus, DeleteMarket
<1>2. watch' \in [Market -> {"none", "included", "excluded", "dropped"}]
  BY LedgerTypes DEF AddMarket, SetStatus, DeleteMarket
<1>3. left' \in [Kinds -> Nat] /\ seen \subseteq seen'
  BY <1>1, Spending DEF Kinds
<1>4. TodoFits'
  BY <1>1 DEF LInv, TodoFits, Edited, sweepVars
<1> QED
  BY <1>1, <1>2, <1>3, <1>4, LedgerTypes, MemoryTypes, CalmSweepKeeps
     DEF Edited, memory, sweepVars

LEMMA ForceCloseLeads ==
  ASSUME LInv, NEW m \in Market, ForceClose(m)
  PROVE  /\ \E i \in OpenIn(rows, m) : rows' = WithClosed(rows, i)
         /\ excused' = excused \cup {m}
         /\ UNCHANGED <<watch, manual, yesMap, cooling, inflight, fails, lock, job, sweepVars, account>>
<1>1. OpenPosition(rows, m) \in OpenIn(rows, m)
  BY RowsAreTable, FirstOpen DEF ForceClose, OpenRows
<1> QED
  BY <1>1 DEF ForceClose, WithClosed

LEMMA ForceCloseKeeps ==
  ASSUME LInv, NEW m \in Market, ForceClose(m)
  PROVE  LInv'
<1>1. PICK i \in OpenIn(rows, m) : rows' = WithClosed(rows, i)
  BY ForceCloseLeads
<1>2. UNCHANGED <<watch, manual, yesMap, cooling, inflight, fails, lock, job, sweepVars, account>>
      /\ excused' = excused \cup {m}
  BY ForceCloseLeads
<1>3. i \in DOMAIN rows
  BY DEF OpenIn
<1>4. /\ rows' \in Seq(Row) /\ Grows(rows, rows')
      /\ \A j \in DOMAIN rows : rows'[j].legs = rows[j].legs
  BY <1>1, <1>3, ClosedRow
<1>5. left' \in [Kinds -> Nat] /\ seen \subseteq seen'
  BY Spending DEF ForceClose, Kinds
<1>6. openCids' \subseteq Market
  BY MemoryTypes DEF ForceClose
<1>7. TaskStep("ws")
  BY <1>2, Actors, JobFacts DEF TaskStep
<1>8. TodoFits'
  BY <1>2, <1>4, <1>7, Actors, TodoKept DEF sweepVars
<1> QED
  BY <1>2, <1>4, <1>5, <1>6, <1>8, LedgerTypes, MemoryTypes, StillKeeps DEF sweepVars

LEMMA TimeKeeps ==
  ASSUME LInv, NEW m \in Market, CoolingEnds(m) \/ InflightEnds(m)
  PROVE  LInv'
<1>1. /\ UNCHANGED <<ledger, openCids, yesMap, fails, lock, job, sweepVars, account, excused, bounds>>
      /\ cooling' \subseteq cooling /\ inflight' \subseteq inflight
  BY DEF CoolingEnds, InflightEnds
<1>2. left' \in [Kinds -> Nat] /\ seen \subseteq seen'
  BY <1>1, Spending DEF Kinds
<1>3. TodoFits'
  BY <1>1 DEF LInv, TodoFits, ledger, sweepVars
<1> QED
  BY <1>1, <1>2, <1>3, LedgerTypes, MemoryTypes, CalmSweepKeeps DEF ledger, sweepVars

\* Only what the tables say survives a restart.
LEMMA RestartLeads ==
  ASSUME LInv, Restart
  PROVE  /\ UNCHANGED <<rows, watch, manual, wallet, cash>>
         /\ cooling' = {} /\ lock' = <<>> /\ job' = [a \in Actor |-> Idle] /\ stage' = "sleep"
         /\ excused \subseteq excused'
         /\ \A a \in Actor : (job[a].at = "filled" => job[a].x \in excused')
                             /\ (CashClose(a) => rows[job[a].row].m \in excused')
BY DEF Restart, ledger

LEMMA RestartKeeps ==
  ASSUME LInv, Restart
  PROVE  LInv'
<1>1. /\ UNCHANGED <<rows, watch, manual, wallet, cash>>
      /\ cooling' = {} /\ lock' = <<>> /\ job' = [a \in Actor |-> Idle] /\ stage' = "sleep"
  BY RestartLeads
<1>2. \A a \in Actor : job'[a] = Idle
  BY <1>1
<1>3. LockKept'
  BY <1>1, <1>2, IdleIsOut DEF LockKept, LockIs
<1>4. JobsFit'
  BY <1>2, IdleFits DEF JobsFit
<1>5. TodoFits'
  BY <1>1 DEF TodoFits
<1>6. resting' \in Seq(Order)
  <2>1. \A a \in Actor : Sent(a) \in Seq(Order)
    <3> TAKE a \in Actor
    <3>1. CASE job[a].at = "order"
      <4> DEFINE k == job[a]
      <4>1. k \in JobType /\ Fits(k, rows) /\ k.at = "order"
        BY <3>1, JobFacts
      <4> HIDE DEF k
      <4>2. OrderOf(k) \in Order
        BY <4>1, JobTypes DEF Fits, OrderOf, Order
      <4> QED
        BY <3>1, <4>2 DEF Sent, k
    <3>2. CASE job[a].at # "order"
      BY <3>2 DEF Sent
    <3> QED
      BY <3>1, <3>2
  <2>2. resting \in Seq(Order) /\ Sent("ws") \in Seq(Order) /\ Sent("sweep") \in Seq(Order)
    BY <2>1, Actors DEF LInv, TypeOK
  <2>3. resting' = resting \o Sent("ws") \o Sent("sweep")
    BY DEF Restart
  <2> QED
    BY <2>2, <2>3, ConcatProperties
<1>7. "restarts" \in seen' /\ left' \in [Kinds -> Nat]
  BY Spending DEF Restart, Kinds
<1>8. Quiet' /\ OrdersAreFunded'
  BY <1>7 DEF Quiet, OrdersAreFunded
<1>9. excused' \subseteq Market
  <2>1. \A a \in Actor : job[a].at = "filled" => job[a].x \in Market
    BY JobFacts DEF Fits
  <2>2. \A a \in Actor : CashClose(a) => rows[job[a].row].m \in Market
    <3> TAKE a \in Actor
    <3>1. ASSUME CashClose(a) PROVE job[a].row \in DOMAIN rows
      BY <3>1, JobFacts DEF CashClose, Fits, HasRow
    <3> QED
      BY <3>1, RowsAreTable DEF Table, Row
  <2> QED
    BY <2>1, <2>2, MemoryTypes DEF Restart
<1>10. TypeOK'
  <2>1. openCids' \subseteq Market /\ yesMap' \subseteq Market /\ inflight' = {}
        /\ fails' \in [Market -> 0..SellFailMax]
    BY DEF Restart, OpenMarkets, Included, SellFailMax
  <2>2. job' \in [Actor -> JobType]
    BY <1>1, IdleFields
  <2> QED
    BY <1>1, <1>6, <1>7, <1>9, <2>1, <2>2 DEF LInv, TypeOK, Kinds
<1> QED
  BY <1>3, <1>4, <1>5, <1>8, <1>10 DEF LInv

LEMMA InitLInv ==
  ASSUME Init
  PROVE  LInv
<1>1. \A a \in Actor : job[a] = Idle
  BY DEF Init
<1>2. LockKept
  BY <1>1, IdleIsOut DEF Init, LockKept, LockIs
<1>3. JobsFit
  BY <1>1, IdleFits DEF JobsFit
<1>4. TodoFits /\ Quiet
  BY DEF Init, TodoFits, Quiet
<1>5. OrdersAreFunded
  BY <1>1, IdleFields DEF OrdersAreFunded, Replied
<1>6. TypeOK
  <2>1. job \in [Actor -> JobType]
    BY IdleFields DEF Init
  <2>2. rows \in Seq(Row) /\ resting \in Seq(Order)
    BY DEF Init
  <2>3. left \in [Kinds -> Nat]
    BY FadeAssumption DEF Init, Kinds
  <2> QED
    BY <2>1, <2>2, <2>3, FadeAssumption DEF Init, TypeOK, Included, SellFailMax, Kinds
<1> QED
  BY <1>2, <1>3, <1>4, <1>5, <1>6 DEF LInv

LEMMA NextKeeps ==
  ASSUME LInv, Next
  PROVE  LInv'
<1>1. ASSUME NEW a \in Actor, NEW m \in Market, OnUpdate(a, m)
      PROVE  LInv'
  BY <1>1, UpdateKeeps
<1>2. ASSUME NEW a \in Actor, Handle(a)
      PROVE  LInv'
  BY <1>2, AcquireKeeps, BalanceKeeps, HeldKeeps, BoughtKeeps, NotBoughtKeeps, CashSoldKeeps,
     UnsoldKeeps, CloseKeeps DEF Handle
<1>3. ASSUME NEW a \in Actor, Match(a) \/ Refuse(a) \/ Strand(a)
      PROVE  LInv'
  BY <1>3, MatchKeeps, RefuseKeeps
<1>4. ASSUME NEW i \in DOMAIN resting, RestingFills(i)
      PROVE  LInv'
  BY <1>4, RestingKeeps
<1>5. ASSUME Sweep
      PROVE  LInv'
  BY <1>5, BeginSweepKeeps, EnumerateKeeps, ApplyScreenKeeps, ScreenFailsKeeps,
     BeginTimeoutsKeeps, SweepRowKeeps, EndSweepKeeps DEF Sweep
<1>6. ASSUME NEW m \in Market, \/ AddMarket(m) \/ SetStatus(m) \/ DeleteMarket(m)
                               \/ ForceClose(m) \/ CoolingEnds(m) \/ InflightEnds(m)
      PROVE  LInv'
  BY <1>6, EditKeeps, ForceCloseKeeps, TimeKeeps
<1>7. ASSUME Restart
      PROVE  LInv'
  BY <1>7, RestartKeeps
<1> QED
  BY <1>1, <1>2, <1>3, <1>4, <1>5, <1>6, <1>7 DEF Next

LEMMA StutterKeeps ==
  ASSUME LInv, UNCHANGED vars
  PROVE  LInv'
<1>1. UNCHANGED <<rows, watch, manual, fails, lock, job, account, todo, stage>>
      /\ UNCHANGED <<openCids, yesMap, cooling, inflight, excused, bounds>>
  BY DEF vars, ledger, memory, sweepVars
<1>2. TodoFits'
  BY <1>1 DEF LInv, TodoFits
<1>3. left' \in [Kinds -> Nat] /\ seen \subseteq seen'
  BY <1>1, Spending DEF Kinds
<1> QED
  BY <1>1, <1>2, <1>3, LedgerTypes, MemoryTypes, CalmSweepKeeps

-----------------------------------------------------------------------------
(* A user's exclusion. *)

LEMMA ScreenKeepsExclusions ==
  ASSUME NEW w, NEW passed, NEW m \in Market, w[m] = "excluded"
  PROVE  DropOutOfBand(Include(passed, w))[m] = "excluded"
<1>1. Include(passed, w)[m] = "excluded"
  BY DEF Include
<1> QED
  BY <1>1 DEF DropOutOfBand

LEMMA ExclusionKept ==
  ASSUME LInv, [Next]_vars, NEW m \in Market, watch[m] = "excluded", watch'[m] # "excluded"
  PROVE  left'.edits < left.edits
<1>1. watch' # watch
  OBVIOUS
<1>2. ASSUME NEW a \in Actor, NEW y \in Market, OnUpdate(a, y)
      PROVE  watch' = watch
  BY <1>2 DEF OnUpdate, ledger
<1>3. ASSUME NEW a \in Actor, Handle(a)
      PROVE  watch' = watch
  BY <1>3 DEF Handle, Acquire, ReadBalance, ReadHeld, ReadBalanceAgain, Bought, NotBought,
     CashSold, CashUnsold, Look, Exited, NotExited, ledger
<1>4. ASSUME NEW a \in Actor, Match(a) \/ Refuse(a) \/ Strand(a)
      PROVE  watch' = watch
  BY <1>4 DEF Match, Refuse, Strand, ledger
<1>5. ASSUME NEW i \in DOMAIN resting, RestingFills(i)
      PROVE  watch' = watch
  BY <1>5 DEF RestingFills, ledger
<1>6. ASSUME Sweep
      PROVE  watch'[m] = "excluded"
  <2>1. CASE ApplyScreen
    BY <2>1, ScreenKeepsExclusions DEF ApplyScreen
  <2>2. CASE ~ApplyScreen
    BY <1>6, <2>2 DEF Sweep, BeginSweep, Enumerate, ScreenFails, BeginTimeouts, SweepRow,
       EndSweep, ledger
  <2> QED
    BY <2>1, <2>2
<1>7. ASSUME NEW y \in Market, ForceClose(y) \/ CoolingEnds(y) \/ InflightEnds(y)
      PROVE  watch' = watch
  BY <1>7 DEF ForceClose, CoolingEnds, InflightEnds, ledger
<1>8. Restart \/ UNCHANGED vars => watch' = watch
  BY DEF Restart, vars, ledger
<1>9. \E y \in Market : AddMarket(y) \/ SetStatus(y) \/ DeleteMarket(y)
  BY <1>1, <1>2, <1>3, <1>4, <1>5, <1>6, <1>7, <1>8 DEF Next
<1>10. Spend("edits")
  BY <1>9 DEF AddMarket, SetStatus, DeleteMarket
<1> QED
  BY <1>10, Spending DEF Kinds

-----------------------------------------------------------------------------
(* The books: two jobs and a table. *)

LEMMA Amounts ==
  ASSUME NEW k \in JobType, NEW m, NEW rs
  PROVE  BoughtBy(k, m) \in Nat /\ SoldBy(k, m, rs) \in Nat
BY JobTypes DEF BoughtBy, SoldBy

\* What a job's order and what follows it tell.
LEMMA JobRules ==
  ASSUME NEW k \in JobType, NEW rs, Fits(k, rs)
  PROVE  /\ k.order = "exit" => /\ k.at \in {"order", "filled", "refused"} /\ k.then # "none"
                                /\ k.row \in DOMAIN rs /\ k.x = rs[k.row].m
                                /\ k.sh <= rs[k.row].sh
         /\ k.order \in {"buy", "cash"} => /\ k.at \in {"order", "filled", "refused"}
                                           /\ k.then = "none"
         /\ k.order = "buy" => k.x = k.m /\ k.cands = {}
         /\ k.then # "none" => /\ k.row \in DOMAIN rs /\ k.order \notin {"buy", "cash"}
                               /\ k.at \in {"look", "order", "filled", "refused"}
         /\ k.at \in {"order", "filled", "refused"} => k.qty \in Nat \ {0}
         /\ k.leg # 0 => k.leg \in DOMAIN rs /\ rs[k.leg].m = k.m
<1>1. k.qty \in Nat
  BY JobTypes
<1> QED
  BY <1>1 DEF Fits, HasRow, JobType

LEMMA PairSwaps ==
  ASSUME NEW m, NEW rs, NEW w \in Nat, NEW cool, NEW k \in JobType, NEW l \in JobType,
         \A i \in OpenIn(rs, m) : rs[i].sh \in Nat,
         Pair(m, rs, w, cool, k, l)
  PROVE  Pair(m, rs, w, cool, l, k)
<1>1. /\ BoughtBy(k, m) \in Nat /\ BoughtBy(l, m) \in Nat
      /\ SoldBy(k, m, rs) \in Nat /\ SoldBy(l, m, rs) \in Nat
  BY Amounts
<1>2. Balanced(m, rs, w, k, l) => Balanced(m, rs, w, l, k)
  <2> DEFINE bk == BoughtBy(k, m)
             bl == BoughtBy(l, m)
             sk == SoldBy(k, m, rs)
             sl == SoldBy(l, m, rs)
  <2>1. bk \in Nat /\ bl \in Nat /\ sk \in Nat /\ sl \in Nat
    BY <1>1
  <2> HIDE DEF bk, bl, sk, sl
  <2>2. bk + bl = bl + bk /\ \A i \in OpenIn(rs, m) :
           w + sk + sl = rs[i].sh + bk + bl => w + sl + sk = rs[i].sh + bl + bk
    BY <2>1
  <2> QED
    BY <2>2 DEF Balanced, bk, bl, sk, sl
<1> QED
  BY <1>2 DEF Pair

\* The tables rs and rt have the same rows of market m.
SameRows(m, rs, rt) ==
    /\ DOMAIN rs \subseteq DOMAIN rt
    /\ \A i \in DOMAIN rs : rt[i].m = rs[i].m /\ (rs[i].m = m => rt[i] = rs[i])
    /\ \A i \in DOMAIN rt \ DOMAIN rs : rt[i].m # m

LEMMA RowsElsewhere ==
  ASSUME NEW m, NEW rs, NEW rt, NEW w, NEW cool, NEW k \in JobType, NEW l \in JobType,
         Fits(k, rs), Fits(l, rs), SameRows(m, rs, rt), Pair(m, rs, w, cool, k, l)
  PROVE  Pair(m, rt, w, cool, k, l)
<1>1. OpenIn(rt, m) = OpenIn(rs, m) /\ \A i \in OpenIn(rs, m) : rt[i] = rs[i]
  BY DEF OpenIn, SameRows
<1>2. ASSUME NEW j \in JobType, Fits(j, rs)
      PROVE  /\ SoldBy(j, m, rt) = SoldBy(j, m, rs)
             /\ CashedBy(j, m, rt) <=> CashedBy(j, m, rs)
             /\ DoomedBy(j, m, rt) <=> DoomedBy(j, m, rs)
             /\ LegIsOpen(m, rt, j) <=> LegIsOpen(m, rs, j)
             /\ Cashed(m, rs, w, cool, j) => Cashed(m, rt, w, cool, j)
  <2>1. j.order = "exit" /\ j.x = m => rt[j.row] = rs[j.row]
    BY <1>2, JobRules DEF SameRows
  <2>2. j.then # "none" => rt[j.row].m = rs[j.row].m
    BY <1>2, JobRules DEF SameRows
  <2>3. j.order = "buy" /\ j.x = m /\ j.leg # 0 => rt[j.leg] = rs[j.leg]
    BY <1>2, JobRules DEF SameRows
  <2>4. CashedBy(j, m, rt) <=> CashedBy(j, m, rs)
    BY <2>2 DEF CashedBy
  <2>5. SoldBy(j, m, rt) = SoldBy(j, m, rs)
    BY <2>1 DEF SoldBy
  <2>6. DoomedBy(j, m, rt) <=> DoomedBy(j, m, rs)
    BY <2>3 DEF DoomedBy
  <2>7. LegIsOpen(m, rt, j) <=> LegIsOpen(m, rs, j)
    BY <1>1 DEF LegIsOpen
  <2>8. Cashed(m, rs, w, cool, j) => Cashed(m, rt, w, cool, j)
    BY <1>1, <2>2, <2>4 DEF Cashed
  <2> QED
    BY <2>4, <2>5, <2>6, <2>7, <2>8
<1>3. ASSUME NEW j \in JobType, NEW i, Fits(j, rs), Half(m, rs, w, cool, j, i)
      PROVE  Half(m, rt, w, cool, j, i)
  <2>1. j.order = "exit" /\ j.x = m => rt[j.row] = rs[j.row]
    BY <1>3, JobRules DEF SameRows
  <2>2. ExitsWhole(m, rt, w, j, i)
    BY <1>3, <2>1 DEF Half, ExitsWhole
  <2>3. j.then # "none" => rt[j.row].m = rs[j.row].m /\ (rs[j.row].m = m => rt[j.row] = rs[j.row])
    BY <1>3, JobRules DEF SameRows
  <2>4. NoReentry(m, rt, cool, j, i)
    BY <1>1, <1>3, <2>3 DEF Half, NoReentry, Closing
  <2> QED
    BY <1>2, <1>3, <2>2, <2>4 DEF Half
<1>4. OneRow(m, rt)
  BY <1>1 DEF Pair, OneRow
<1>5. Balanced(m, rt, w, k, l)
  BY <1>1, <1>2 DEF Pair, Balanced
<1> QED
  BY <1>3, <1>4, <1>5 DEF Pair

\* One task goes from k to n, the other is at l, the table and the wallet stay.
Moves(m, rs, w, cool, cool2, k, n, l) ==
    /\ BoughtBy(n, m) = BoughtBy(k, m) /\ SoldBy(n, m, rs) = SoldBy(k, m, rs)
    /\ DoomedBy(k, m, rs) => DoomedBy(n, m, rs)
    /\ CashedBy(k, m, rs) => \/ CashedBy(n, m, rs)
                             \/ /\ OpenIn(rs, m) = {}
                                /\ BoughtBy(k, m) = 0 /\ BoughtBy(l, m) = 0
    /\ Half(m, rs, w, cool2, n, l)
    /\ EntryBy(n, m) => EntryBy(k, m) \/ ~cool

LEMMA JobMoves ==
  ASSUME NEW m, NEW rs, NEW w, NEW cool, NEW cool2, NEW k, NEW n, NEW l, cool => cool2,
         Pair(m, rs, w, cool, k, l), Moves(m, rs, w, cool, cool2, k, n, l)
  PROVE  Pair(m, rs, w, cool2, n, l)
<1>1. OneRow(m, rs) /\ Half(m, rs, w, cool2, n, l)
  BY DEF Pair, Moves
<1>2. Balanced(m, rs, w, n, l)
  <2>1. CASE CashedBy(k, m, rs) /\ ~CashedBy(n, m, rs)
    <3>1. w = 0 /\ OpenIn(rs, m) = {} /\ BoughtBy(n, m) = 0 /\ BoughtBy(l, m) = 0
      BY <2>1 DEF Pair, Half, Cashed, Moves
    <3>2. 0 = 0 + 0
      OBVIOUS
    <3> QED
      BY <3>1, <3>2 DEF Balanced
  <2>2. CASE ~(CashedBy(k, m, rs) /\ ~CashedBy(n, m, rs))
    BY <2>2 DEF Pair, Balanced, Moves
  <2> QED
    BY <2>1, <2>2
<1>3. Half(m, rs, w, cool2, l, n)
  <2>1. Half(m, rs, w, cool, l, k)
    BY DEF Pair
  <2>2. Cashed(m, rs, w, cool2, l)
    BY <2>1 DEF Half, Cashed
  <2>3. ExitsWhole(m, rs, w, l, n)
    BY <2>1 DEF Half, ExitsWhole, Moves
  <2>4. NoReentry(m, rs, cool2, l, n)
    BY <2>1 DEF Half, NoReentry, Moves
  <2> QED
    BY <2>1, <2>2, <2>3, <2>4 DEF Half
<1> QED
  BY <1>1, <1>2, <1>3 DEF Pair

LEMMA LateMoves ==
  ASSUME NEW m, NEW rs, NEW cool, NEW cool2, NEW k, NEW n, NEW td, NEW td2, cool => cool2,
         td2 \subseteq td, EntryBy(n, m) => EntryBy(k, m) \/ ~cool,
         Late(m, rs, cool, td, k)
  PROVE  Late(m, rs, cool2, td2, n)
BY DEF Late

\* A job with no order filled and no row to close.
Plain(n) == n.at # "filled" /\ n.then = "none" /\ n.order # "exit"

\* A job that leaves nothing of market m behind.
Settled(m, rs, k, l) ==
    /\ BoughtBy(k, m) = 0 /\ SoldBy(k, m, rs) = 0 /\ ~DoomedBy(k, m, rs)
    /\ CashedBy(k, m, rs) => OpenIn(rs, m) = {} /\ BoughtBy(l, m) = 0

LEMMA PlainMoves ==
  ASSUME NEW m, NEW rs, NEW w, NEW cool, NEW cool2, NEW k, NEW n, NEW l,
         Plain(n), Settled(m, rs, k, l), Covers(m, w, n), LegIsOpen(m, rs, n),
         EntryBy(n, m) => EntryBy(k, m) \/ ~cool
  PROVE  Moves(m, rs, w, cool, cool2, k, n, l)
<1>1. BoughtBy(n, m) = 0 /\ SoldBy(n, m, rs) = 0
  BY DEF Plain, BoughtBy, SoldBy
<1>2. Half(m, rs, w, cool2, n, l)
  BY DEF Plain, Half, Cashed, CashedBy, ExitsWhole, NoReentry, Closing
<1> QED
  BY <1>1, <1>2 DEF Moves, Settled

LEMMA IdlePlain ==
  ASSUME NEW m \in Market, NEW rs, NEW w
  PROVE  Plain(Idle) /\ Covers(m, w, Idle) /\ LegIsOpen(m, rs, Idle) /\ ~EntryBy(Idle, m)
BY IdleFields DEF Plain, Covers, LegIsOpen, EntryBy

\* Waiting for the lock, or under it with nothing sold and nothing sent.
LEMMA WaitingPlain ==
  ASSUME NEW m, NEW rs, NEW w, NEW n, NEW y, NEW leg,
         NEW at \in {"lock", "balance", "held", "rebalance"}, Waiting(n, at, y, leg),
         at # "lock" /\ leg # 0 /\ y = m => OpenIn(rs, m) \subseteq {leg}
  PROVE  Plain(n) /\ Covers(m, w, n) /\ LegIsOpen(m, rs, n) /\ (EntryBy(n, m) => y = m /\ leg = 0)
BY DEF Waiting, Plain, Covers, LegIsOpen, EntryBy, InLock

LEMMA EnteredPlain ==
  ASSUME NEW m \in Market, NEW rs, NEW w, NEW n, NEW y, NEW leg, Entered(n, y, leg, rs),
         Table(rs), OneRow(m, rs)
  PROVE  Plain(n) /\ Covers(m, w, n) /\ LegIsOpen(m, rs, n) /\ (EntryBy(n, m) => y = m /\ leg = 0)
<1>1. CASE n = Idle
  BY <1>1, IdlePlain
<1>2. CASE Waiting(n, "lock", y, leg)
  BY <1>2, WaitingPlain
<1>3. CASE AtBalance(n, y, leg, rs)
  <2>1. Waiting(n, "balance", y, n.leg)
    BY <1>3 DEF AtBalance
  <2>2. n.leg # 0 => leg # 0 /\ n.leg \in OpenIn(rs, y)
    BY <1>3 DEF AtBalance
  <2>3. leg # 0 => n.leg # 0
    BY <1>3 DEF AtBalance, OpenIn, Table
  <2>4. n.leg # 0 /\ y = m => OpenIn(rs, m) \subseteq {n.leg}
    BY <2>2 DEF OneRow
  <2> QED
    BY <2>1, <2>3, <2>4, WaitingPlain
<1> QED
  BY <1>1, <1>2, <1>3 DEF Entered

LEMMA SoldPlain ==
  ASSUME NEW m \in Market, NEW rs, NEW w, NEW n, NEW j, Sold(n, j),
         \A c \in j.cands : c[1] = m => w <= c[2],
         j.leg # 0 /\ j.m = m => OpenIn(rs, m) \subseteq {j.leg}
  PROVE  Plain(n) /\ Covers(m, w, n) /\ LegIsOpen(m, rs, n) /\ (EntryBy(n, m) => j.m = m /\ j.leg = 0)
<1>1. CASE n = Idle
  BY <1>1, IdlePlain
<1>2. CASE Waiting(n, "rebalance", j.m, j.leg)
  BY <1>2 DEF Waiting, Plain, Covers, LegIsOpen, EntryBy
<1>3. ASSUME NEW c \in j.cands, Sells(n, j, c)
      PROVE  Plain(n) /\ Covers(m, w, n) /\ LegIsOpen(m, rs, n)
             /\ (EntryBy(n, m) => j.m = m /\ j.leg = 0)
  BY <1>3 DEF Sells, Plain, Covers, LegIsOpen, EntryBy
<1> QED
  BY <1>1, <1>2, <1>3 DEF Sold

\* What follows a close: only who was on the way to an entry still is.
LEMMA AfterPlain ==
  ASSUME NEW m \in Market, NEW rs, NEW w, NEW n, NEW k \in JobType, After(n, k, rs),
         Table(rs), Fits(k, rs), k.then # "none",
         OneRow(m, rs), Covers(m, w, k), LegIsOpen(m, rs, k)
  PROVE  /\ Plain(n) /\ Covers(m, w, n) /\ LegIsOpen(m, rs, n)
         /\ EntryBy(n, m) => /\ k.m = m /\ k.leg = 0 /\ k.then \in {"slot", "cash"}
                             /\ EntryBy(k, m) /\ rs[k.row].m # m
<1> DEFINE P == Plain(n) /\ Covers(m, w, n) /\ LegIsOpen(m, rs, n)
           Q == k.m = m /\ k.leg = 0 /\ k.then \in {"slot", "cash"}
<1>1. Q => EntryBy(k, m) /\ rs[k.row].m # m
  BY DEF EntryBy, Fits
<1>2. ASSUME n = Idle PROVE P /\ ~EntryBy(n, m)
  BY <1>2, IdlePlain
<1>3. ASSUME k.then = "cash", Sold(n, k) PROVE P /\ (EntryBy(n, m) => Q)
  <2>1. InLock(k)
    BY <1>3 DEF InLock
  <2>2. /\ \A c \in k.cands : c[1] = m => w <= c[2]
        /\ k.leg # 0 /\ k.m = m => OpenIn(rs, m) \subseteq {k.leg}
    BY <2>1 DEF Covers, LegIsOpen
  <2> QED
    BY <1>3, <2>2, SoldPlain
<1>4. ASSUME k.then = "slot", Entered(n, k.m, 0, rs) PROVE P /\ (EntryBy(n, m) => Q)
  <2>1. k.leg = 0
    BY <1>4 DEF Fits
  <2> QED
    BY <1>4, <2>1, EnteredPlain
<1>5. ASSUME k.then = "tick", Entered(n, rs[k.row].m, k.row, rs) PROVE P /\ ~EntryBy(n, m)
  <2>1. k.row # 0
    BY <1>5, JobRules DEF Table
  <2> QED
    BY <1>5, <2>1, EnteredPlain
<1> HIDE DEF P, Q
<1>6. P /\ (EntryBy(n, m) => Q)
  BY <1>2, <1>3, <1>4, <1>5 DEF After
<1> QED
  BY <1>1, <1>6 DEF P, Q

-----------------------------------------------------------------------------
(* The books and the machine. *)

LEMMA Numbers ==
  ASSUME LInv, NEW m \in Market
  PROVE  /\ wallet[m] \in Nat /\ Table(rows)
         /\ \A i \in OpenIn(rows, m) : rows[i].sh \in Nat \ {0} /\ rows[i].m = m /\ rows[i].open
BY RowsAreTable DEF LInv, TypeOK, Table, OpenIn, Row

LEMMA BooksOfPair ==
  ASSUME FInv, NEW a \in Actor, NEW b \in Actor, a # b, NEW m \in Market \ excused
  PROVE  Pair(m, rows, wallet[m], m \in cooling, job[a], job[b])
<1> DEFINE cool == m \in cooling
           w == wallet[m]
<1>1. Pair(m, rows, w, cool, job["ws"], job["sweep"])
  BY DEF FInv, BooksKept, Books
<1>2. job["ws"] \in JobType /\ job["sweep"] \in JobType
  BY JobFacts, Actors DEF FInv
<1>3. w \in Nat /\ \A i \in OpenIn(rows, m) : rows[i].sh \in Nat
  BY Numbers DEF FInv
<1> HIDE DEF cool, w
<1>4. Pair(m, rows, w, cool, job["sweep"], job["ws"])
  BY <1>1, <1>2, <1>3, PairSwaps
<1> QED
  BY <1>1, <1>4, Actors DEF cool, w

\* A step of task a keeps the books of m when the two jobs still fit each other.
LEMMA TaskBooks ==
  ASSUME LInv', NEW a \in Actor, NEW b \in Actor, a # b, TaskStep(a), NEW m \in Market,
         Pair(m, rows', wallet'[m], m \in cooling', job'[a], job[b]),
         stage' = "timeouts" => Late(m, rows', m \in cooling', todo', job'["ws"])
  PROVE  Books(m)'
<1> DEFINE cool == m \in cooling'
           w == wallet'[m]
<1>1. Pair(m, rows', w, cool, job'[a], job'[b])
  BY DEF TaskStep
<1>2. job' \in [Actor -> JobType] /\ wallet' \in [Market -> Nat] /\ Table(rows')
  <2>1. Table(rows)'
    BY RowsAreTable, PTL
  <2> QED
    BY <2>1 DEF LInv, TypeOK, Table
<1>3. job'[a] \in JobType /\ job'[b] \in JobType
  BY <1>2
<1>4. w \in Nat /\ \A i \in OpenIn(rows', m) : rows'[i].sh \in Nat
  BY <1>2 DEF Table, OpenIn, Row
<1> HIDE DEF cool, w
<1>5. Pair(m, rows', w, cool, job'[b], job'[a])
  BY <1>1, <1>3, <1>4, PairSwaps
<1>6. Pair(m, rows', w, cool, job'["ws"], job'["sweep"])
  BY <1>1, <1>5, Actors
<1> QED
  BY <1>6 DEF Books, cool, w

\* ... when the table and the wallet stay as they are.
LEMMA CalmBooks ==
  ASSUME FInv, LInv', NEW a \in Actor, NEW b \in Actor, a # b, TaskStep(a),
         rows' = rows, wallet' = wallet, NEW m \in Market \ excused, cooling \subseteq cooling',
         Moves(m, rows, wallet[m], m \in cooling, m \in cooling', job[a], job'[a], job[b]),
         stage' = "timeouts" => stage = "timeouts" /\ todo' \subseteq todo
  PROVE  Books(m)'
<1> DEFINE c1 == m \in cooling
           c2 == m \in cooling'
           w == wallet[m]
           k == job[a]
           n == job'[a]
           l == job[b]
<1>1. Pair(m, rows, w, c1, k, l)
  BY BooksOfPair
<1>2. (c1 => c2) /\ Moves(m, rows, w, c1, c2, k, n, l)
  OBVIOUS
<1>3. (job["ws"] = k /\ job'["ws"] = n) \/ job'["ws"] = job["ws"]
  BY Actors DEF TaskStep
<1>4. stage' = "timeouts" => Late(m, rows, c1, todo, job["ws"])
  BY DEF FInv, BooksKept, Books
<1> HIDE DEF c1, c2, w, k, n, l
<1>5. Pair(m, rows, w, c2, n, l)
  BY <1>1, <1>2, JobMoves
<1>6. EntryBy(n, m) => EntryBy(k, m) \/ ~c1
  BY <1>2 DEF Moves
<1>7. stage' = "timeouts" => Late(m, rows, c2, todo', job'["ws"])
  BY <1>2, <1>3, <1>4, <1>6, LateMoves
<1> QED
  BY <1>5, <1>7, TaskBooks DEF c2, w, n, l

\* ... and the task leaves nothing of m behind and goes to a plain job.
LEMMA PlainBooks ==
  ASSUME FInv, LInv', NEW a \in Actor, NEW b \in Actor, a # b, TaskStep(a),
         rows' = rows, wallet' = wallet, NEW m \in Market \ excused, cooling \subseteq cooling',
         Settled(m, rows, job[a], job[b]),
         Plain(job'[a]), Covers(m, wallet[m], job'[a]), LegIsOpen(m, rows, job'[a]),
         EntryBy(job'[a], m) => EntryBy(job[a], m) \/ m \notin cooling,
         stage' = "timeouts" => stage = "timeouts" /\ todo' \subseteq todo
  PROVE  Books(m)'
<1> DEFINE c1 == m \in cooling
           c2 == m \in cooling'
           w == wallet[m]
           k == job[a]
           n == job'[a]
           l == job[b]
<1>1. EntryBy(n, m) => EntryBy(k, m) \/ ~c1
  OBVIOUS
<1> HIDE DEF c1, c2, w, k, n, l
<1>2. Moves(m, rows, w, c1, c2, k, n, l)
  BY <1>1, PlainMoves DEF w, k, n, l
<1> QED
  BY <1>2, CalmBooks DEF c1, c2, w, k, n, l

\* A job with no order and no row to close leaves nothing behind.
LEMMA NothingSettled ==
  ASSUME NEW m, NEW rs, NEW k, NEW l, k.order = "none", k.then = "none"
  PROVE  Settled(m, rs, k, l)
BY DEF Settled, BoughtBy, SoldBy, DoomedBy, CashedBy

\* What the books of m say of one of the jobs.
LEMMA HalfOf ==
  ASSUME FInv, NEW a \in Actor, NEW m \in Market \ excused
  PROVE  /\ Covers(m, wallet[m], job[a]) /\ LegIsOpen(m, rows, job[a])
         /\ OneRow(m, rows)
         /\ \E b \in Actor : b # a
<1>1. PICK b \in Actor : b # a
  BY Actors
<1> DEFINE c == m \in cooling
<1>2. Pair(m, rows, wallet[m], c, job[a], job[b])
  BY <1>1, BooksOfPair
<1> HIDE DEF c
<1> QED
  BY <1>1, <1>2 DEF Pair, Half

LEMMA AcquireBooks ==
  ASSUME FInv, LInv', NEW a \in Actor, Acquire(a), NEW m \in Market \ excused'
  PROVE  Books(m)'
<1> DEFINE k == job[a]
           n == job'[a]
<1>1. /\ TaskStep(a) /\ (n = Idle \/ AtBalance(n, k.m, k.leg, rows))
      /\ k.m \in Market /\ k.at = "lock"
  BY AcquireLeads DEF FInv
<1>2. UNCHANGED <<ledger, memory, sweepVars, account, excused, bounds>>
  BY DEF Acquire
<1>3. k.order = "none" /\ k.then = "none" /\ Table(rows)
  BY <1>1, JobFacts, RowsAreTable DEF Fits, FInv
<1>4. OneRow(m, rows)
  BY <1>2, HalfOf
<1>5. Entered(n, k.m, k.leg, rows)
  BY <1>1 DEF Entered
<1>6. Plain(n) /\ Covers(m, wallet[m], n) /\ LegIsOpen(m, rows, n)
      /\ (EntryBy(n, m) => k.m = m /\ k.leg = 0)
  BY <1>3, <1>4, <1>5, EnteredPlain
<1>7. EntryBy(n, m) => EntryBy(k, m)
  BY <1>1, <1>6 DEF EntryBy
<1>8. PICK b \in Actor : a # b
  BY Actors
<1>9. Settled(m, rows, k, job[b])
  BY <1>3, NothingSettled
<1> QED
  BY <1>1, <1>2, <1>6, <1>7, <1>8, <1>9, PlainBooks DEF ledger, memory, sweepVars, account

LEMMA BalanceBooks ==
  ASSUME FInv, LInv', NEW a \in Actor, ReadBalance(a) \/ ReadBalanceAgain(a),
         NEW m \in Market \ excused'
  PROVE  Books(m)'
<1> DEFINE k == job[a]
           n == job'[a]
<1>1. PICK q \in BOOLEAN : TaskStep(a) /\ BalanceShape(n, k, cash, q)
  BY BalanceLeads DEF FInv
<1>2. UNCHANGED <<ledger, memory, sweepVars, account, excused>>
  BY DEF ReadBalance, ReadBalanceAgain
<1>3. /\ InLock(k) /\ k.order = "none" /\ k.then = "none"
      /\ k.at \in {"balance", "held", "rebalance"}
  BY BalanceFacts DEF ReadBalance, ReadBalanceAgain, FInv
<1>4. LegIsOpen(m, rows, k)
  BY <1>2, HalfOf
<1>5. Plain(n) /\ Covers(m, wallet[m], n) /\ LegIsOpen(m, rows, n)
      /\ (EntryBy(n, m) => EntryBy(k, m))
  <2>1. CASE n = Idle
    BY <2>1, IdlePlain
  <2>2. CASE Waiting(n, "held", k.m, k.leg)
    BY <1>3, <1>4, <2>2 DEF Waiting, Plain, Covers, LegIsOpen, EntryBy, InLock
  <2>3. CASE \E size \in Nat \ {0} : Buys(n, k, size)
    BY <1>3, <1>4, <2>3 DEF Buys, Plain, Covers, LegIsOpen, EntryBy, InLock
  <2> HIDE DEF k, n
  <2> QED
    BY <1>1, <2>1, <2>2, <2>3 DEF BalanceShape
<1>6. PICK b \in Actor : a # b
  BY Actors
<1>7. Settled(m, rows, k, job[b])
  BY <1>3, NothingSettled
<1> QED
  BY <1>1, <1>2, <1>5, <1>6, <1>7, PlainBooks DEF ledger, memory, sweepVars, account

\* A task that looks at a row, with nothing to sell besides.
LEMMA ClosesMoves ==
  ASSUME NEW m \in Market, NEW rs, NEW w, NEW cool, NEW n, NEW l, NEW j, NEW i, NEW sh,
         NEW then \in {"tick", "slot", "timeout"}, Closes(n, j, i, sh, then), j.cands = {},
         then = "slot" => j.m # m \/ ~cool,
         rs[i].m = m /\ ~rs[i].open => cool /\ OpenIn(rs, m) = {} /\ ~EntryBy(l, m)
  PROVE  Moves(m, rs, w, cool, cool, Idle, n, l)
<1>1. /\ BoughtBy(n, m) = 0 /\ SoldBy(n, m, rs) = 0
      /\ BoughtBy(Idle, m) = 0 /\ SoldBy(Idle, m, rs) = 0
      /\ ~DoomedBy(Idle, m, rs) /\ ~CashedBy(Idle, m, rs)
  BY IdleFields DEF Closes, BoughtBy, SoldBy, DoomedBy, CashedBy
<1>2. Half(m, rs, w, cool, n, l)
  <2>1. Cashed(m, rs, w, cool, n) /\ Covers(m, w, n) /\ LegIsOpen(m, rs, n)
        /\ ExitsWhole(m, rs, w, n, l)
    BY DEF Closes, Cashed, CashedBy, Covers, LegIsOpen, InLock, ExitsWhole
  <2>2. NoReentry(m, rs, cool, n, l)
    BY DEF Closes, NoReentry, Closing
  <2> QED
    BY <2>1, <2>2 DEF Half
<1>3. EntryBy(n, m) => ~cool
  BY DEF EntryBy, Closes
<1> QED
  BY <1>1, <1>2, <1>3 DEF Moves

LEMMA UpdateBooks ==
  ASSUME FInv, LInv', NEW a \in Actor, NEW y \in Market, OnUpdate(a, y),
         NEW m \in Market \ excused'
  PROVE  Books(m)'
<1> DEFINE n == job'[a]
           c == m \in cooling
           w == wallet[m]
<1>1. TaskStep(a) /\ UpdateShape(n, y) /\ job[a] = Idle
  BY UpdateLeads DEF FInv, OnUpdate
<1>2. UNCHANGED <<ledger, memory, stage, screen, account, excused>>
      /\ (stage' = "timeouts" => todo' = todo)
  BY DEF OnUpdate
<1>3. PICK b \in Actor : a # b
  BY Actors
<1>4. OneRow(m, rows) /\ Table(rows)
  BY <1>2, HalfOf, RowsAreTable DEF FInv
<1>5. Settled(m, rows, Idle, job[b])
  BY NothingSettled, IdleFields
<1>6. CASE /\ Plain(n) /\ Covers(m, w, n) /\ LegIsOpen(m, rows, n)
           /\ EntryBy(n, m) => ~c
  BY <1>1, <1>2, <1>3, <1>5, <1>6, PlainBooks DEF ledger, memory, account
<1>7. CASE n = Idle
  BY <1>6, <1>7, IdlePlain
<1>8. ASSUME NEW i \in OpenIn(rows, y), Entered(n, y, i, rows)
      PROVE  Books(m)'
  <2>1. i # 0
    BY <1>4 DEF OpenIn, Table
  <2> QED
    BY <1>4, <1>6, <1>8, <2>1, EnteredPlain
<1>9. CASE y \notin cooling /\ Entered(n, y, 0, rows)
  BY <1>4, <1>6, <1>9, EnteredPlain
<1>10. ASSUME NEW i \in DOMAIN rows, NEW then \in {"tick", "slot"}, rows[i].open,
              Closes(n, Signal(y, 0), i, rows[i].sh, then), then = "slot" => y \notin cooling
       PROVE  Books(m)'
  <2> DEFINE j == Signal(y, 0)
             l == job[b]
             sh == rows[i].sh
  <2>1. j.m = y /\ j.cands = {}
    BY SignalFields DEF Waiting
  <2>2. then = "slot" => j.m # m \/ ~c
    BY <1>10, <2>1
  <2>3. Closes(n, j, i, sh, then)
    BY <1>10
  <2> HIDE DEF n, c, w, j, l, sh
  <2>4. Moves(m, rows, w, c, c, Idle, n, l)
    BY <1>10, <2>1, <2>2, <2>3, ClosesMoves
  <2> QED
    BY <1>1, <1>2, <1>3, <2>4, CalmBooks DEF n, c, w, l, ledger, memory, account
<1> QED
  BY <1>1, <1>7, <1>8, <1>9, <1>10 DEF UpdateShape

LEMMA SweepRowBooks ==
  ASSUME FInv, LInv', SweepRow, NEW m \in Market \ excused'
  PROVE  Books(m)'
<1> DEFINE n == job'["sweep"]
           l == job["ws"]
           c == m \in cooling
           w == wallet[m]
<1>1. /\ job["sweep"] = Idle /\ stage = "timeouts"
      /\ UNCHANGED <<ledger, memory, lock, stage, screen, account, excused, bounds>>
      /\ \/ job' = job /\ todo' \subseteq todo
         \/ \E d \in todo :
               /\ todo' = todo \ {d} /\ TaskStep("sweep")
               /\ d[1] \in DOMAIN rows /\ d[2] # 0 /\ d[2] <= rows[d[1]].sh
               /\ Closes(n, Signal(rows[d[1]].m, 0), d[1], d[2], "timeout")
  BY SweepRowLeads DEF FInv
<1>2. Books(m)
  BY <1>1 DEF FInv, BooksKept
<1>3. CASE job' = job /\ todo' \subseteq todo
  BY <1>1, <1>2, <1>3 DEF Books, Late, ledger, memory, account
<1>4. ASSUME NEW d \in todo, todo' = todo \ {d}, TaskStep("sweep"),
             d[1] \in DOMAIN rows,
             Closes(n, Signal(rows[d[1]].m, 0), d[1], d[2], "timeout")
      PROVE  Books(m)'
  <2> DEFINE j == Signal(rows[d[1]].m, 0)
             i == d[1]
             sh == d[2]
  <2>1. j.cands = {} /\ Closes(n, j, i, sh, "timeout")
    BY <1>4, RowsAreTable, SignalFields DEF Waiting, FInv, Table, Row
  <2>2. rows[i].m = m /\ ~rows[i].open => c /\ OpenIn(rows, m) = {} /\ ~EntryBy(l, m)
    BY <1>1, <1>2, <1>4 DEF Books, Late
  <2> HIDE DEF n, c, w, j, l, sh, i
  <2>3. Moves(m, rows, w, c, c, Idle, n, l)
    BY <2>1, <2>2, ClosesMoves
  <2> QED
    BY <1>1, <1>4, <2>3, Actors, CalmBooks DEF n, c, w, l, ledger, memory, account
<1> QED
  BY <1>1, <1>3, <1>4

LEMMA HeldBooks ==
  ASSUME FInv, LInv', NEW a \in Actor, ReadHeld(a), NEW m \in Market \ excused'
  PROVE  Books(m)'
<1> DEFINE k == job[a]
           n == job'[a]
<1>1. /\ TaskStep(a)
      /\ \E j \in JobType : /\ j.m = k.m /\ j.leg = k.leg
                            /\ j.cands = Candidates(k) /\ Sold(n, j)
  BY HeldLeads DEF FInv
<1>2. PICK j \in JobType : /\ j.m = k.m /\ j.leg = k.leg
                           /\ j.cands = Candidates(k) /\ Sold(n, j)
  BY <1>1
<1>3. UNCHANGED <<ledger, cooling, sweepVars, account, excused>>
  BY DEF ReadHeld
<1>4. InLock(k) /\ k.order = "none" /\ k.then = "none" /\ k.at = "held"
  BY BalanceFacts DEF ReadHeld, FInv
<1>5. LegIsOpen(m, rows, k)
  BY <1>3, HalfOf
<1>6. j.leg # 0 /\ j.m = m => OpenIn(rows, m) \subseteq {j.leg}
  BY <1>2, <1>4, <1>5 DEF LegIsOpen
<1>7. \A c \in j.cands : c[1] = m => wallet[m] <= c[2]
  <2>1. \A c \in Candidates(k) : c[2] = wallet[c[1]]
    BY DEF Candidates
  <2>2. wallet[m] <= wallet[m]
    BY Numbers DEF FInv
  <2> QED
    BY <1>2, <2>1, <2>2
<1>8. Plain(n) /\ Covers(m, wallet[m], n) /\ LegIsOpen(m, rows, n)
      /\ (EntryBy(n, m) => EntryBy(k, m))
  <2>1. Plain(n) /\ Covers(m, wallet[m], n) /\ LegIsOpen(m, rows, n)
        /\ (EntryBy(n, m) => j.m = m /\ j.leg = 0)
    <3> DEFINE w == wallet[m]
    <3>1. Sold(n, j) /\ \A c \in j.cands : c[1] = m => w <= c[2]
      BY <1>2, <1>7
    <3> HIDE DEF n, w
    <3>2. Plain(n) /\ Covers(m, w, n) /\ LegIsOpen(m, rows, n)
          /\ (EntryBy(n, m) => j.m = m /\ j.leg = 0)
      BY <1>6, <3>1, SoldPlain
    <3> QED
      BY <3>2 DEF w
  <2>2. j.m = m /\ j.leg = 0 => EntryBy(k, m)
    BY <1>2, <1>4 DEF EntryBy
  <2> QED
    BY <2>1, <2>2
<1>9. PICK b \in Actor : a # b
  BY Actors
<1>10. Settled(m, rows, k, job[b])
  BY <1>4, NothingSettled
<1> QED
  BY <1>1, <1>3, <1>8, <1>9, <1>10, PlainBooks DEF ledger, sweepVars, account

LEMMA NotBoughtBooks ==
  ASSUME FInv, LInv', NEW a \in Actor, NotBought(a), NEW m \in Market \ excused'
  PROVE  Books(m)'
<1>1. TaskStep(a) /\ job'[a] = Idle /\ job[a].at = "refused" /\ job[a].order = "buy"
  BY NotBoughtKeeps DEF FInv, NotBought, Replied
<1>2. UNCHANGED <<ledger, memory, sweepVars, account, excused, bounds>>
  BY DEF NotBought
<1>3. PICK b \in Actor : a # b
  BY Actors
<1>4. job[a].then = "none"
  BY <1>1, JobFacts, JobRules DEF FInv
<1>5. Settled(m, rows, job[a], job[b])
  BY <1>1, <1>4 DEF Settled, BoughtBy, SoldBy, DoomedBy, CashedBy
<1> QED
  BY <1>1, <1>2, <1>3, <1>5, IdlePlain, PlainBooks DEF ledger, memory, sweepVars, account

LEMMA UnsoldBooks ==
  ASSUME FInv, LInv', NEW a \in Actor, CashUnsold(a), NEW m \in Market \ excused'
  PROVE  Books(m)'
<1> DEFINE k == job[a]
           n == job'[a]
<1>1. TaskStep(a) /\ Sold(n, k) /\ k.order = "cash" /\ k.at = "refused"
  BY UnsoldLeads DEF FInv
<1>2. UNCHANGED <<ledger, cooling, sweepVars, account, excused, bounds>>
  BY DEF CashUnsold
<1>3. PICK b \in Actor : a # b
  BY Actors
<1>4. InLock(k) /\ k.then = "none"
  BY <1>1, CashFacts DEF FInv
<1>5. Settled(m, rows, k, job[b])
  BY <1>1, <1>4 DEF Settled, BoughtBy, SoldBy, DoomedBy, CashedBy
<1>6. LegIsOpen(m, rows, k) /\ Covers(m, wallet[m], k)
  BY <1>2, HalfOf
<1>7. /\ k.leg # 0 /\ k.m = m => OpenIn(rows, m) \subseteq {k.leg}
      /\ \A c \in k.cands : c[1] = m => wallet[m] <= c[2]
  BY <1>4, <1>6 DEF LegIsOpen, Covers
<1>8. Plain(n) /\ Covers(m, wallet[m], n) /\ LegIsOpen(m, rows, n)
      /\ (EntryBy(n, m) => EntryBy(k, m))
  <2>1. Plain(n) /\ Covers(m, wallet[m], n) /\ LegIsOpen(m, rows, n)
        /\ (EntryBy(n, m) => k.m = m /\ k.leg = 0)
    BY <1>1, <1>7, SoldPlain
  <2>2. k.m = m /\ k.leg = 0 => EntryBy(k, m)
    BY <1>1 DEF EntryBy
  <2> QED
    BY <2>1, <2>2
<1> QED
  BY <1>1, <1>2, <1>3, <1>5, <1>8, PlainBooks DEF ledger, sweepVars, account

LEMMA RefuseBooks ==
  ASSUME FInv, LInv', NEW a \in Actor, Refuse(a) \/ Strand(a), NEW m \in Market \ excused'
  PROVE  Books(m)'
<1> DEFINE k == job[a]
           n == job'[a]
           c == m \in cooling
           w == wallet[m]
<1>1. TaskStep(a) /\ AtStage(n, k, "refused") /\ k.at = "order"
  BY RefuseLeads DEF FInv
<1>2. UNCHANGED <<ledger, memory, sweepVars, wallet, cash, excused>>
  BY DEF Refuse, Strand, account
<1>3. PICK b \in Actor : a # b
  BY Actors
<1>4. Half(m, rows, w, c, k, job[b])
  BY <1>2, <1>3, BooksOfPair DEF Pair
<1> HIDE DEF k, n, c, w
<1>5. Half(m, rows, w, c, n, job[b])
  BY <1>1, <1>4 DEF Half, AtStage, Cashed, CashedBy, Covers, LegIsOpen, InLock, ExitsWhole,
     NoReentry, Closing
<1>6. Moves(m, rows, w, c, c, k, n, job[b])
  BY <1>1, <1>5 DEF Moves, AtStage, BoughtBy, SoldBy, DoomedBy, CashedBy, EntryBy
<1> QED
  BY <1>1, <1>2, <1>3, <1>6, CalmBooks DEF k, n, c, w, ledger, memory, sweepVars

-----------------------------------------------------------------------------
(* Orders that are sent and filled. *)

\* The wallet has no more than an open row says, but for a buy on the way to it.
LEMMA RowCovers ==
  ASSUME NEW m, NEW rs, NEW w \in Nat, NEW c, NEW k \in JobType, NEW l \in JobType, Fits(l, rs),
         Pair(m, rs, w, c, k, l), NEW i \in OpenIn(rs, m), rs[i].sh \in Nat,
         BoughtBy(k, m) = 0, ~DoomedBy(k, m, rs)
  PROVE  /\ w <= rs[i].sh + BoughtBy(l, m)
         /\ w # 0 => w + SoldBy(k, m, rs) + SoldBy(l, m, rs) = rs[i].sh + BoughtBy(l, m)
<1> DEFINE bl == BoughtBy(l, m)
           sk == SoldBy(k, m, rs)
           sl == SoldBy(l, m, rs)
           sh == rs[i].sh
<1>1. bl \in Nat /\ sk \in Nat /\ sl \in Nat /\ sh \in Nat
  BY Amounts
<1>2. CashedBy(k, m, rs) \/ CashedBy(l, m, rs) => w = 0
  BY DEF Pair, Half, Cashed
<1>3. ~DoomedBy(l, m, rs)
  <2> SUFFICES ASSUME DoomedBy(l, m, rs) PROVE FALSE
    OBVIOUS
  <2>1. InLock(l) /\ l.leg # 0 /\ l.m = m /\ ~rs[l.leg].open
    BY JobRules DEF DoomedBy, InLock
  <2>2. OpenIn(rs, m) \subseteq {l.leg}
    BY <2>1 DEF Pair, Half, LegIsOpen
  <2> QED
    BY <2>1, <2>2 DEF OpenIn
<1>4. w = 0 \/ w + sk + sl = sh + BoughtBy(k, m) + bl
  BY <1>2, <1>3 DEF Pair, Balanced
<1> HIDE DEF bl, sk, sl, sh
<1>5. w = 0 \/ w + sk + sl = sh + bl
  BY <1>1, <1>4
<1> QED
  BY <1>1, <1>5 DEF bl, sk, sl, sh

LEMMA SendsExitMoves ==
  ASSUME NEW m, NEW rs, NEW w \in Nat, NEW c, NEW k \in JobType, NEW l \in JobType, Fits(l, rs),
         Table(rs), Pair(m, rs, w, c, k, l), NEW n, NEW qty \in Nat, NEW y,
         k.at = "look", k.order = "none", k.row \in DOMAIN rs,
         y = rs[k.row].m, Sends(n, k, "exit", y, qty),
         qty = k.sh \/ (qty <= k.sh /\ (y = m => qty = w))
  PROVE  Moves(m, rs, w, c, c, k, n, l)
<1>1. /\ BoughtBy(n, m) = 0 /\ SoldBy(n, m, rs) = 0
      /\ BoughtBy(k, m) = 0 /\ SoldBy(k, m, rs) = 0 /\ ~DoomedBy(k, m, rs)
      /\ CashedBy(k, m, rs) <=> CashedBy(n, m, rs)
      /\ EntryBy(n, m) <=> EntryBy(k, m)
  BY DEF Sends, BoughtBy, SoldBy, DoomedBy, CashedBy, EntryBy
<1>2. Half(m, rs, w, c, k, l)
  BY DEF Pair
<1>3. Cashed(m, rs, w, c, n) /\ Covers(m, w, n) /\ LegIsOpen(m, rs, n)
  BY <1>1, <1>2 DEF Half, Cashed, Covers, LegIsOpen, Sends, InLock
<1>4. NoReentry(m, rs, c, n, l)
  BY <1>2 DEF Half, NoReentry, Closing, Sends
<1>5. ExitsWhole(m, rs, w, n, l)
  <2> SUFFICES ASSUME y = m, rs[k.row].open, rs[k.row].sh = k.sh
               PROVE  qty <= k.sh /\ w <= qty + BoughtBy(l, m)
    BY DEF ExitsWhole, Sends
  <2>1. BoughtBy(l, m) \in Nat /\ k.sh \in Nat
    BY Amounts, JobTypes
  <2>2. k.row \in OpenIn(rs, m)
    BY DEF OpenIn
  <2>3. w <= k.sh + BoughtBy(l, m)
    <3> DEFINE i == k.row
    <3>1. i \in OpenIn(rs, m) /\ rs[i].sh \in Nat /\ rs[i].sh = k.sh
      BY <2>1, <2>2
    <3> HIDE DEF i
    <3>2. w <= rs[i].sh + BoughtBy(l, m)
      BY <1>1, <3>1, RowCovers
    <3> QED
      BY <3>1, <3>2
  <2> QED
    BY <2>1, <2>3
<1> QED
  BY <1>1, <1>3, <1>4, <1>5 DEF Moves, Half

\* An order for another market is filled.
LEMMA FilledElsewhere ==
  ASSUME NEW m, NEW rs, NEW w, NEW c, NEW k, NEW l, NEW n, k.at = "order", k.x # m,
         AtStage(n, k, "filled"), Pair(m, rs, w, c, k, l)
  PROVE  Moves(m, rs, w, c, c, k, n, l)
<1>1. Half(m, rs, w, c, k, l)
  BY DEF Pair
<1>2. Half(m, rs, w, c, n, l)
  BY <1>1 DEF Half, AtStage, Cashed, CashedBy, Covers, LegIsOpen, InLock, ExitsWhole,
     NoReentry, Closing
<1> QED
  BY <1>2 DEF Moves, AtStage, BoughtBy, SoldBy, DoomedBy, CashedBy, EntryBy

\* A buy, a cash sale, an exit of m is filled.
LEMMA BuyFilled ==
  ASSUME NEW m, NEW rs, NEW w \in Nat, NEW c, NEW k \in JobType, NEW l \in JobType, NEW n,
         Fits(k, rs), Fits(l, rs), \A i \in OpenIn(rs, m) : rs[i].sh \in Nat,
         k.at = "order", k.x = m, k.order = "buy", AtStage(n, k, "filled"),
         l.order \notin {"buy", "cash"}, l.then # "cash", l.cands = {},
         Pair(m, rs, w, c, k, l)
  PROVE  Pair(m, rs, w + k.qty, c, n, l)
<1> DEFINE q == k.qty
           sl == SoldBy(l, m, rs)
<1>1. /\ BoughtBy(k, m) = 0 /\ SoldBy(k, m, rs) = 0 /\ ~DoomedBy(k, m, rs)
      /\ BoughtBy(n, m) = q /\ SoldBy(n, m, rs) = 0
      /\ EntryBy(n, m) <=> EntryBy(k, m)
      /\ LegIsOpen(m, rs, n) <=> LegIsOpen(m, rs, k)
      /\ CashedBy(n, m, rs) <=> CashedBy(k, m, rs)
      /\ q \in Nat \ {0} /\ n.cands = k.cands
      /\ NoReentry(m, rs, c, n, l)
  <2>1. NoReentry(m, rs, c, n, l)
    BY DEF NoReentry, Closing, AtStage
  <2>2. k.qty \in Nat \ {0} /\ k.then = "none"
    BY JobRules
  <2> QED
    BY <2>1, <2>2 DEF AtStage, BoughtBy, SoldBy, DoomedBy, CashedBy, EntryBy, LegIsOpen, InLock
<1>2. k.then = "none" /\ k.cands = {}
  BY JobRules
<1>3. /\ ~CashedBy(k, m, rs) /\ ~CashedBy(l, m, rs) /\ ~DoomedBy(l, m, rs) /\ BoughtBy(l, m) = 0
  BY <1>2 DEF CashedBy, DoomedBy, BoughtBy
<1>4. sl \in Nat
  BY Amounts
<1>5. Balanced(m, rs, w + q, n, l)
  <2>1. OpenIn(rs, m) = {} => w = 0 + 0
    BY <1>1, <1>3 DEF Pair, Balanced
  <2>2. \A i \in OpenIn(rs, m) : w + 0 + sl = rs[i].sh + 0 + 0
    BY <1>1, <1>3 DEF Pair, Balanced
  <2> HIDE DEF q, sl
  <2>3. OpenIn(rs, m) = {} => w + q = q + 0
    BY <1>1, <2>1
  <2>4. \A i \in OpenIn(rs, m) : w + q + 0 + sl = rs[i].sh + q + 0
    BY <1>1, <1>4, <2>2
  <2> QED
    BY <1>1, <1>3, <2>3, <2>4 DEF Balanced, sl
<1>6. Half(m, rs, w + q, c, n, l)
  <2>1. Half(m, rs, w, c, k, l)
    BY DEF Pair
  <2>2. Cashed(m, rs, w + q, c, n)
    BY <1>1, <1>2, <1>3 DEF Cashed, AtStage
  <2>3. Covers(m, w + q, n) /\ ExitsWhole(m, rs, w + q, n, l)
    BY <1>1, <1>2 DEF Covers, ExitsWhole, AtStage
  <2> QED
    BY <1>1, <2>1, <2>2, <2>3 DEF Half
<1>7. Half(m, rs, w + q, c, l, n)
  <2>1. Half(m, rs, w, c, l, k)
    BY DEF Pair
  <2>2. Cashed(m, rs, w + q, c, l) /\ Covers(m, w + q, l)
    BY <1>3 DEF Cashed, Covers
  <2>3. LegIsOpen(m, rs, l) /\ NoReentry(m, rs, c, l, n)
    BY <1>1, <2>1 DEF Half, NoReentry
  <2>4. ExitsWhole(m, rs, w + q, l, n)
    <3> SUFFICES ASSUME l.order = "exit" /\ l.x = m /\ rs[l.row].open /\ rs[l.row].sh = l.sh
                 PROVE  /\ l.at = "order" => l.qty <= l.sh /\ w + q <= l.qty + q
                        /\ l.at = "filled" => w + q = q
      BY <1>1 DEF ExitsWhole
    <3>1. /\ l.at = "order" => l.qty <= l.sh /\ w <= l.qty + 0
          /\ l.at = "filled" => w = 0
      BY <1>1, <2>1 DEF Half, ExitsWhole
    <3>2. l.qty \in Nat
      BY JobTypes
    <3> HIDE DEF q
    <3> QED
      BY <1>1, <3>1, <3>2
  <2> QED
    BY <2>2, <2>3, <2>4 DEF Half
<1> QED
  BY <1>5, <1>6, <1>7 DEF Pair

LEMMA CashFilled ==
  ASSUME NEW m, NEW rs, NEW w \in Nat, NEW c, NEW k \in JobType, NEW l \in JobType, NEW n,
         Fits(k, rs), Fits(l, rs),
         k.at = "order", k.x = m, k.order = "cash", AtStage(n, k, "filled"), k.qty <= w,
         l.order \notin {"buy", "cash"}, l.then # "cash", l.cands = {},
         Pair(m, rs, w, c, k, l)
  PROVE  Pair(m, rs, w - k.qty, c, n, l)
<1> DEFINE v == w - k.qty
<1>1. /\ BoughtBy(n, m) = 0
      /\ EntryBy(n, m) <=> EntryBy(k, m)
      /\ LegIsOpen(m, rs, n) <=> LegIsOpen(m, rs, k)
      /\ CashedBy(n, m, rs)
      /\ k.qty \in Nat \ {0} /\ n.cands = k.cands
      /\ NoReentry(m, rs, c, n, l)
  <2>1. NoReentry(m, rs, c, n, l)
    BY DEF NoReentry, Closing, AtStage
  <2>2. k.qty \in Nat \ {0} /\ k.then = "none"
    BY JobRules
  <2> QED
    BY <2>1, <2>2 DEF AtStage, BoughtBy, SoldBy, DoomedBy, CashedBy, EntryBy, LegIsOpen, InLock
<1>2. Half(m, rs, w, c, k, l) /\ Half(m, rs, w, c, l, k)
  BY DEF Pair
<1>3. v = 0
  BY <1>1, <1>2 DEF Half, Covers
<1>4. k.then = "none"
  BY JobRules
<1>5. k.cands \in SUBSET (Market \X (Nat \ {0}))
  BY JobTypes
<1> HIDE DEF v
<1>6. Half(m, rs, v, c, n, l)
  <2>1. Cashed(m, rs, v, c, n) /\ ExitsWhole(m, rs, v, n, l)
    BY <1>3, <1>4 DEF Cashed, ExitsWhole, AtStage
  <2>2. Covers(m, v, n)
    BY <1>1, <1>3, <1>5 DEF Covers, AtStage
  <2> QED
    BY <1>1, <1>2, <2>1, <2>2 DEF Half
<1>7. Half(m, rs, v, c, l, n)
  <2>1. Cashed(m, rs, v, c, l) /\ Covers(m, v, l)
    BY DEF Cashed, CashedBy, Covers
  <2>2. NoReentry(m, rs, c, l, n)
    BY <1>1, <1>2 DEF Half, NoReentry
  <2>3. ExitsWhole(m, rs, v, l, n)
    <3>1. l.qty \in Nat
      BY JobTypes
    <3>2. 0 <= l.qty + 0
      BY <3>1
    <3> QED
      BY <1>1, <1>2, <1>3, <3>2 DEF Half, ExitsWhole
  <2> QED
    BY <1>2, <2>1, <2>2, <2>3 DEF Half
<1> QED
  BY <1>1, <1>6, <1>7 DEF Pair, Balanced, v

LEMMA ExitFilled ==
  ASSUME NEW m, NEW rs, NEW w \in Nat, NEW c, NEW k \in JobType, NEW l \in JobType, NEW n,
         Fits(k, rs), Fits(l, rs), \A i \in OpenIn(rs, m) : rs[i].sh \in Nat,
         k.at = "order", k.x = m, k.order = "exit", AtStage(n, k, "filled"), k.qty <= w,
         Pair(m, rs, w, c, k, l)
  PROVE  Pair(m, rs, w - k.qty, c, n, l)
<1> DEFINE q == k.qty
           v == w - q
           r == k.row
           bl == BoughtBy(l, m)
           sl == SoldBy(l, m, rs)
<1>1. /\ q \in Nat \ {0} /\ k.then # "none" /\ r \in DOMAIN rs /\ rs[r].m = m
      /\ k.sh \in Nat /\ bl \in Nat /\ sl \in Nat
  BY JobRules, JobTypes, Amounts
<1>2. /\ BoughtBy(k, m) = 0 /\ SoldBy(k, m, rs) = 0 /\ ~DoomedBy(k, m, rs)
      /\ BoughtBy(n, m) = 0 /\ SoldBy(n, m, rs) = (IF rs[r].open THEN q ELSE 0)
      /\ EntryBy(n, m) <=> EntryBy(k, m)
      /\ LegIsOpen(m, rs, n) <=> LegIsOpen(m, rs, k)
      /\ NoReentry(m, rs, c, n, l)
  BY <1>1 DEF AtStage, BoughtBy, SoldBy, DoomedBy, EntryBy, LegIsOpen, InLock, NoReentry, Closing
<1>3. Half(m, rs, w, c, k, l) /\ Half(m, rs, w, c, l, k) /\ OneRow(m, rs)
  BY DEF Pair
<1>4. w # 0 /\ v \in Nat /\ v <= w /\ q <= w
  BY <1>1
<1>5. ~CashedBy(k, m, rs) /\ ~CashedBy(l, m, rs)
  BY <1>3, <1>4 DEF Half, Cashed
<1>6. ~CashedBy(n, m, rs)
  BY <1>5 DEF CashedBy, AtStage
<1>7. BoughtBy(l, m) # 0 => sl = 0
  BY DEF BoughtBy, SoldBy
<1>8. rs[r].open => r \in OpenIn(rs, m) /\ w + sl = rs[r].sh + bl /\ rs[r].sh \in Nat
  <2> SUFFICES ASSUME rs[r].open
               PROVE  r \in OpenIn(rs, m) /\ w + sl = rs[r].sh + bl /\ rs[r].sh \in Nat
    OBVIOUS
  <2>1. r \in OpenIn(rs, m) /\ rs[r].sh \in Nat
    BY <1>1 DEF OpenIn
  <2> HIDE DEF r, bl, sl
  <2>2. w + SoldBy(k, m, rs) + SoldBy(l, m, rs) = rs[r].sh + BoughtBy(l, m)
    BY <1>2, <1>4, <2>1, RowCovers
  <2>3. w + 0 + sl = rs[r].sh + bl
    BY <1>2, <2>2 DEF sl, bl
  <2> QED
    BY <1>1, <2>1, <2>3
<1>9. ~rs[r].open => OpenIn(rs, m) = {} /\ DoomedBy(l, m, rs)
  <2> SUFFICES ASSUME ~rs[r].open
               PROVE  OpenIn(rs, m) = {} /\ DoomedBy(l, m, rs)
    OBVIOUS
  <2>1. OpenIn(rs, m) = {} /\ ~EntryBy(l, m)
    BY <1>1, <1>3 DEF Half, NoReentry, Closing
  <2>2. DoomedBy(l, m, rs) \/ w = 0 + bl
    BY <1>2, <1>5, <2>1 DEF Pair, Balanced
  <2>3. DoomedBy(l, m, rs) \/ bl # 0
    <3> HIDE DEF bl
    <3> QED
      BY <1>1, <1>4, <2>2
  <2>4. ASSUME bl # 0 PROVE DoomedBy(l, m, rs)
    <3>1. l.at = "filled" /\ l.order = "buy" /\ l.x = m
      BY <2>4 DEF BoughtBy
    <3>2. l.leg # 0 /\ l.m = m
      BY <2>1, <3>1, JobRules DEF EntryBy
    <3>3. l.leg \in DOMAIN rs /\ rs[l.leg].m = m
      BY <3>2, JobRules
    <3> QED
      BY <2>1, <3>1, <3>2, <3>3 DEF DoomedBy, OpenIn
  <2> QED
    BY <2>1, <2>3, <2>4
<1>10. Balanced(m, rs, v, n, l)
  <2>1. CASE rs[r].open
    <3>1. w + sl = rs[r].sh + bl /\ OpenIn(rs, m) # {}
          /\ \A i \in OpenIn(rs, m) : i = r
      BY <1>3, <1>8, <2>1 DEF OneRow
    <3>2. v + q + sl = rs[r].sh + 0 + bl
      <4> DEFINE sh == rs[r].sh
      <4>1. w + sl = sh + bl /\ sh \in Nat
        BY <1>8, <2>1
      <4> HIDE DEF q, sl, bl, sh
      <4> QED
        BY <1>1, <1>4, <4>1 DEF sh
    <3> HIDE DEF v, q
    <3> QED
      BY <1>2, <2>1, <3>1, <3>2 DEF Balanced
  <2>2. CASE ~rs[r].open
    BY <1>9, <2>2 DEF Balanced
  <2> QED
    BY <2>1, <2>2
<1>11. Half(m, rs, v, c, n, l)
  <2>1. Cashed(m, rs, v, c, n)
    BY <1>6 DEF Cashed, CashedBy
  <2>2. Covers(m, v, n)
    <3>1. \A x \in k.cands : x[2] \in Nat
      BY JobTypes
    <3>2. \A x \in k.cands : x[1] = m => w <= x[2]
      BY <1>3 DEF Half, Covers
    <3>3. \A x \in k.cands : x[1] = m => v <= x[2]
      <4> HIDE DEF v
      <4> QED
        BY <1>4, <3>1, <3>2
    <3> QED
      BY <3>3 DEF Covers, AtStage
  <2>3. ExitsWhole(m, rs, v, n, l)
    <3> SUFFICES ASSUME rs[r].open, rs[r].sh = k.sh PROVE v = bl
      BY DEF ExitsWhole, AtStage
    <3>1. q <= k.sh /\ w <= q + bl
      BY <1>1, <1>3 DEF Half, ExitsWhole
    <3>2. w + sl = k.sh + bl
      BY <1>8
    <3>3. bl # 0 => sl = 0
      BY <1>7
    <3> HIDE DEF q, bl, sl
    <3>4. w = q + bl
      BY <1>1, <1>4, <3>1, <3>2, <3>3
    <3> QED
      BY <1>1, <3>4
  <2> QED
    BY <1>2, <1>3, <2>1, <2>2, <2>3 DEF Half
<1>12. Half(m, rs, v, c, l, n)
  <2>1. Cashed(m, rs, v, c, l)
    BY <1>5 DEF Cashed, CashedBy
  <2>2. Covers(m, v, l)
    <3>1. /\ \A x \in l.cands : x[2] \in Nat
          /\ l.qty \in Nat
      BY JobTypes
    <3>2. /\ \A x \in l.cands : x[1] = m => w <= x[2]
          /\ l.at = "order" /\ l.order = "cash" /\ l.x = m => w <= l.qty
      BY <1>3 DEF Half, Covers
    <3>3. /\ \A x \in l.cands : x[1] = m => v <= x[2]
          /\ l.at = "order" /\ l.order = "cash" /\ l.x = m => v <= l.qty
      <4> HIDE DEF v
      <4> QED
        BY <1>4, <3>1, <3>2
    <3> QED
      BY <3>3 DEF Covers
  <2>3. ExitsWhole(m, rs, v, l, n)
    <3> SUFFICES ASSUME l.order = "exit" /\ l.x = m /\ rs[l.row].open /\ rs[l.row].sh = l.sh
                 PROVE  /\ l.at = "order" => l.qty <= l.sh /\ v <= l.qty + 0
                        /\ l.at = "filled" => v = 0
      BY <1>2 DEF ExitsWhole
    <3>1. /\ l.at = "order" => l.qty <= l.sh /\ w <= l.qty + 0
          /\ l.at = "filled" => w = 0
      BY <1>2, <1>3 DEF Half, ExitsWhole
    <3>2. l.qty \in Nat
      BY JobTypes
    <3> HIDE DEF v
    <3> QED
      BY <1>4, <3>1, <3>2
  <2>4. NoReentry(m, rs, c, l, n) /\ LegIsOpen(m, rs, l)
    BY <1>2, <1>3 DEF Half, NoReentry
  <2> QED
    BY <2>1, <2>2, <2>3, <2>4 DEF Half
<1> QED
  BY <1>3, <1>10, <1>11, <1>12 DEF Pair

LEMMA MatchBooks ==
  ASSUME FInv, LInv', NEW a \in Actor, Match(a), NEW m \in Market \ excused'
  PROVE  Books(m)'
<1> DEFINE k == job[a]
           n == job'[a]
           o == OrderOf(k)
           c == m \in cooling
           w == wallet[m]
<1>1. /\ TaskStep(a) /\ AtStage(n, k, "filled") /\ k.at = "order" /\ o \in Order /\ Fill(o)
      /\ o.order = k.order /\ o.x = k.x /\ o.qty = k.qty
  BY MatchLeads DEF FInv, OrderOf
<1>2. UNCHANGED <<ledger, memory, lock, sweepVars, resting, excused, bounds>>
  BY DEF Match
<1>3. PICK b \in Actor : a # b
  BY Actors
<1> DEFINE l == job[b]
<1>4. Pair(m, rows, w, c, k, l)
  BY <1>2, <1>3, BooksOfPair
<1>5. k \in JobType /\ l \in JobType /\ Fits(k, rows) /\ Fits(l, rows)
  BY JobFacts DEF FInv
<1>6. w \in Nat /\ \A i \in OpenIn(rows, m) : rows[i].sh \in Nat
  BY Numbers DEF FInv
<1>7. /\ k.order = "buy" /\ k.x = m => wallet'[m] = w + k.qty
      /\ k.order # "buy" /\ k.x = m => wallet'[m] = w - k.qty /\ k.qty <= w
      /\ k.x # m => wallet'[m] = w
  <2> HIDE DEF o, k
  <2> QED
    BY <1>1, Filled DEF FInv
<1>8. InLock(k) => l.order \notin {"buy", "cash"} /\ l.then # "cash" /\ l.cands = {}
  BY <1>3, Alone DEF FInv
<1>9. k.order \in {"buy", "cash"} => InLock(k)
  BY DEF InLock
<1>10. k.order \in {"buy", "cash", "exit"}
  BY <1>1 DEF Order
<1>11. Pair(m, rows, wallet'[m], c, n, l)
  <2> HIDE DEF o, k, l, n, c, w
  <2>1. CASE k.x # m
    <3>1. Moves(m, rows, w, c, c, k, n, l)
      BY <1>1, <1>4, <2>1, FilledElsewhere
    <3> QED
      BY <1>4, <1>7, <2>1, <3>1, JobMoves
  <2>2. CASE k.x = m /\ k.order = "buy"
    BY <1>1, <1>4, <1>5, <1>6, <1>7, <1>8, <1>9, <2>2, BuyFilled
  <2>3. CASE k.x = m /\ k.order = "cash"
    BY <1>1, <1>4, <1>5, <1>6, <1>7, <1>8, <1>9, <2>3, CashFilled
  <2>4. CASE k.x = m /\ k.order = "exit"
    BY <1>1, <1>4, <1>5, <1>6, <1>7, <2>4, ExitFilled
  <2> QED
    BY <1>10, <2>1, <2>2, <2>3, <2>4
<1>12. EntryBy(n, m) <=> EntryBy(k, m)
  BY <1>1 DEF AtStage, EntryBy
<1>13. stage' = "timeouts" => Late(m, rows, c, todo', job'["ws"])
  <2>1. stage' = "timeouts" => Late(m, rows, c, todo, job["ws"])
    BY <1>2 DEF FInv, BooksKept, Books, sweepVars
  <2>2. EntryBy(job'["ws"], m) => EntryBy(job["ws"], m)
    BY <1>1, <1>12, Actors DEF TaskStep
  <2>3. todo' \subseteq todo
    BY <1>2 DEF sweepVars
  <2> HIDE DEF c
  <2> QED
    BY <2>1, <2>2, <2>3, LateMoves
<1> QED
  BY <1>1, <1>2, <1>3, <1>11, <1>13, TaskBooks DEF ledger, memory

-----------------------------------------------------------------------------
(* Rows that are written, and closed. *)

\* The job Idle has nothing to do with any market.
LEMMA IdleHalf ==
  ASSUME NEW m \in Market, NEW rs, NEW w, NEW c, NEW l
  PROVE  /\ Half(m, rs, w, c, Idle, l) /\ BoughtBy(Idle, m) = 0 /\ SoldBy(Idle, m, rs) = 0
         /\ ~CashedBy(Idle, m, rs) /\ ~DoomedBy(Idle, m, rs) /\ ~EntryBy(Idle, m)
BY IdleFields DEF Half, Cashed, CashedBy, Covers, LegIsOpen, InLock, ExitsWhole, NoReentry,
   Closing, BoughtBy, SoldBy, DoomedBy, EntryBy

\* A new row for the shares of a filled buy.
LEMMA RowEntered ==
  ASSUME NEW m \in Market, NEW rs, NEW rt, NEW w \in Nat, NEW c, NEW k \in JobType,
         NEW l \in JobType, Fits(k, rs), Fits(l, rs), NEW i,
         k.at = "filled", k.order = "buy", k.m = m, k.leg = 0,
         i \notin DOMAIN rs, DOMAIN rt = DOMAIN rs \cup {i},
         rt[i].m = m, rt[i].sh = k.qty, rt[i].open, \A j \in DOMAIN rs : rt[j] = rs[j],
         OpenIn(rs, m) = {}, ~InLock(l), l.order \notin {"buy", "cash"}, l.then # "cash",
         l.cands = {}, Pair(m, rs, w, c, k, l)
  PROVE  Pair(m, rt, w, c, Idle, l) /\ EntryBy(k, m)
<1>1. k.x = m /\ k.then = "none" /\ EntryBy(k, m) /\ k.qty \in Nat
  BY JobRules, JobTypes DEF EntryBy
<1>2. OpenIn(rt, m) = {i} /\ \A j \in DOMAIN rs : rs[j].m = m => ~rs[j].open
  BY DEF OpenIn
<1>3. /\ ~CashedBy(k, m, rs) /\ ~CashedBy(l, m, rs) /\ ~DoomedBy(k, m, rs) /\ ~DoomedBy(l, m, rs)
      /\ BoughtBy(k, m) = k.qty /\ BoughtBy(l, m) = 0
  BY <1>1 DEF CashedBy, DoomedBy, BoughtBy
<1>4. w = k.qty
  <2>1. w = k.qty + 0
    BY <1>3 DEF Pair, Balanced
  <2> QED
    BY <1>1, <2>1
<1>5. l.order = "exit" /\ l.x = m => ~rt[l.row].open /\ ~rs[l.row].open
  BY <1>2, JobRules
<1>6. SoldBy(l, m, rt) = 0 /\ ~CashedBy(l, m, rt)
  BY <1>5 DEF SoldBy, CashedBy
<1>7. Balanced(m, rt, w, Idle, l)
  <2>1. w + 0 + 0 = rt[i].sh + 0 + 0
    BY <1>4
  <2> QED
    BY <1>2, <1>3, <1>6, <2>1, IdleHalf DEF Balanced
<1>8. Half(m, rt, w, c, l, Idle)
  <2>1. Cashed(m, rt, w, c, l) /\ Covers(m, w, l) /\ LegIsOpen(m, rt, l)
    BY <1>6 DEF Cashed, Covers, LegIsOpen
  <2>2. ExitsWhole(m, rt, w, l, Idle)
    BY <1>5 DEF ExitsWhole
  <2>3. NoReentry(m, rt, c, l, Idle)
    <3> SUFFICES ASSUME Closing(l, m, rt), ~rt[l.row].open PROVE FALSE
      BY DEF NoReentry
    <3>1. l.row \in DOMAIN rs /\ rt[l.row] = rs[l.row]
      BY JobRules DEF Closing
    <3>2. Closing(l, m, rs) /\ ~rs[l.row].open
      BY <3>1 DEF Closing
    <3>3. ~EntryBy(k, m)
      BY <3>2 DEF Pair, Half, NoReentry
    <3> QED
      BY <1>1, <3>3
  <2> QED
    BY <2>1, <2>2, <2>3 DEF Half
<1>9. OneRow(m, rt)
  BY <1>2 DEF OneRow
<1> QED
  BY <1>1, <1>7, <1>8, <1>9, IdleHalf DEF Pair

\* The shares of a filled buy added to the open row.
LEMMA RowAddedTo ==
  ASSUME NEW m \in Market, NEW rs, NEW rt, NEW w \in Nat, NEW c, NEW k \in JobType,
         NEW l \in JobType, Fits(k, rs), Fits(l, rs), k.at = "filled", k.order = "buy", k.m = m,
         k.leg # 0, rs[k.leg].open, \A i \in OpenIn(rs, m) : rs[i].sh \in Nat,
         DOMAIN rt = DOMAIN rs, rt[k.leg].m = rs[k.leg].m, rt[k.leg].open,
         rt[k.leg].sh = rs[k.leg].sh + k.qty,
         \A j \in DOMAIN rs : j # k.leg => rt[j] = rs[j],
         ~InLock(l), l.order \notin {"buy", "cash"}, l.then # "cash",
         l.cands = {}, Pair(m, rs, w, c, k, l)
  PROVE  Pair(m, rt, w, c, Idle, l)
<1> DEFINE i == k.leg
           sl == SoldBy(l, m, rs)
<1>1. k.x = m /\ k.then = "none" /\ k.qty \in Nat \ {0} /\ i \in DOMAIN rs /\ rs[i].m = m
  BY JobRules
<1>2. i \in OpenIn(rs, m) /\ OpenIn(rs, m) = {i} /\ OpenIn(rt, m) = {i} /\ rs[i].sh \in Nat
  BY <1>1 DEF OpenIn, Pair, OneRow
<1>3. /\ ~CashedBy(k, m, rs) /\ ~CashedBy(l, m, rs) /\ ~DoomedBy(k, m, rs) /\ ~DoomedBy(l, m, rs)
      /\ BoughtBy(k, m) = k.qty /\ SoldBy(k, m, rs) = 0 /\ BoughtBy(l, m) = 0
  BY <1>1 DEF CashedBy, DoomedBy, BoughtBy, SoldBy
<1>4. /\ \A j \in DOMAIN rs : rt[j].m = rs[j].m /\ (rt[j].open <=> rs[j].open)
      /\ SoldBy(l, m, rt) = sl /\ ~CashedBy(l, m, rt) /\ sl \in Nat
  <2>1. \A j \in DOMAIN rs : rt[j].m = rs[j].m /\ (rt[j].open <=> rs[j].open)
    BY <1>1
  <2>2. SoldBy(l, m, rt) = sl /\ ~CashedBy(l, m, rt)
    BY <2>1, JobRules DEF SoldBy, CashedBy
  <2> QED
    BY <2>1, <2>2, Amounts
<1>5. Balanced(m, rt, w, Idle, l)
  <2>1. w + 0 + sl = rs[i].sh + k.qty + 0
    BY <1>2, <1>3 DEF Pair, Balanced
  <2>2. w + 0 + sl = rt[i].sh + 0 + 0
    <3> DEFINE sh == rs[i].sh
               q == k.qty
    <3>1. rt[i].sh = sh + q /\ w + 0 + sl = sh + q + 0 /\ sh \in Nat /\ q \in Nat
      BY <1>1, <1>2, <2>1
    <3> HIDE DEF sh, q
    <3> QED
      BY <3>1
  <2> HIDE DEF i, sl
  <2> QED
    BY <1>2, <1>3, <1>4, <2>2, IdleHalf DEF Balanced
<1>6. Half(m, rt, w, c, l, Idle)
  <2>1. Cashed(m, rt, w, c, l) /\ Covers(m, w, l) /\ LegIsOpen(m, rt, l)
    BY <1>4 DEF Cashed, CashedBy, Covers, LegIsOpen
  <2>2. ExitsWhole(m, rt, w, l, Idle)
    <3> SUFFICES ASSUME l.order = "exit", l.x = m, rt[l.row].open, rt[l.row].sh = l.sh
                 PROVE  FALSE
      BY DEF ExitsWhole
    <3>1. l.row \in DOMAIN rs /\ rs[l.row].m = m /\ l.sh <= rs[l.row].sh
      BY JobRules
    <3>2. l.row = i
      BY <1>2, <1>4, <3>1 DEF OpenIn
    <3>3. l.sh = rs[i].sh + k.qty /\ l.sh <= rs[i].sh
      BY <3>1, <3>2
    <3> HIDE DEF i
    <3> QED
      BY <1>1, <1>2, <3>3
  <2>3. NoReentry(m, rt, c, l, Idle)
    <3> SUFFICES ASSUME Closing(l, m, rt), ~rt[l.row].open PROVE FALSE
      BY DEF NoReentry
    <3>1. l.row \in DOMAIN rs
      BY JobRules DEF Closing
    <3>2. Closing(l, m, rs) /\ ~rs[l.row].open
      BY <1>4, <3>1 DEF Closing
    <3>3. OpenIn(rs, m) = {}
      BY <3>2 DEF Pair, Half, NoReentry
    <3> QED
      BY <1>2, <3>3
  <2> QED
    BY <2>1, <2>2, <2>3 DEF Half
<1>7. OneRow(m, rt)
  BY <1>2 DEF OneRow
<1> QED
  BY <1>5, <1>6, <1>7, IdleHalf DEF Pair

\* The rows that the sweep has still to look at, in a table that differs elsewhere.
LEMMA LateElsewhere ==
  ASSUME NEW m, NEW rs, NEW rt, NEW cool, NEW cool2, NEW k, NEW n, NEW td, NEW td2,
         cool => cool2, td2 \subseteq td, EntryBy(n, m) => EntryBy(k, m) \/ ~cool,
         SameRows(m, rs, rt), \A c \in td : c[1] \in DOMAIN rs, Late(m, rs, cool, td, k)
  PROVE  Late(m, rt, cool2, td2, n)
<1>1. OpenIn(rt, m) = OpenIn(rs, m)
  BY DEF OpenIn, SameRows
<1>2. \A c \in td : rt[c[1]].m = m /\ ~rt[c[1]].open => rs[c[1]].m = m /\ ~rs[c[1]].open
  BY DEF SameRows
<1> QED
  BY <1>1, <1>2 DEF Late

LEMMA BoughtBooks ==
  ASSUME FInv, LInv', NEW a \in Actor, Bought(a), NEW m \in Market \ excused'
  PROVE  Books(m)'
<1> DEFINE k == job[a]
           c == m \in cooling
           w == wallet[m]
<1>1. /\ LInv /\ TaskStep(a) /\ job'[a] = Idle /\ InLock(k) /\ k.at = "filled" /\ k.order = "buy"
      /\ BoughtShape(k)
  BY BoughtLeads DEF FInv
<1>2. UNCHANGED <<cooling, wallet, stage, todo>>
  BY DEF Bought, account, sweepVars
<1>3. m \in Market /\ m \notin excused
  BY <1>1 DEF BoughtShape
<1>4. PICK b \in Actor : a # b
  BY Actors
<1> DEFINE l == job[b]
<1>5. k \in JobType /\ l \in JobType /\ Fits(k, rows) /\ Fits(l, rows)
  BY <1>1, JobFacts
<1>6. ~InLock(l) /\ l.order \notin {"buy", "cash"} /\ l.then # "cash" /\ l.cands = {}
  BY <1>1, <1>4, Alone
<1>7. w \in Nat /\ \A i \in OpenIn(rows, m) : rows[i].sh \in Nat
  BY <1>1, <1>3, Numbers
<1>8. Pair(m, rows, w, c, k, l)
  BY <1>3, <1>4, BooksOfPair
<1>9. k.x = k.m /\ k.then = "none"
  BY <1>1, <1>5, JobRules
<1>10. stage = "timeouts" => /\ a = "ws" /\ Late(m, rows, c, todo, k)
                             /\ \A d \in todo : d[1] \in DOMAIN rows
  BY <1>1, <1>3, HoldersTodo, Actors DEF FInv, BooksKept, Books, LInv, TodoFits
<1>11. ~EntryBy(Idle, m)
  BY IdlePlain, <1>3
<1> SUFFICES /\ Pair(m, rows', w, c, Idle, l)
             /\ stage = "timeouts" => Late(m, rows', c, todo, Idle)
  BY <1>1, <1>2, <1>3, <1>4, <1>10, TaskBooks
<1> HIDE DEF k, l, c, w
<1>12. CASE k.m # m
  <2>1. SameRows(m, rows, rows')
    <3>1. k.leg # 0 => rows[k.leg].m # m
      BY <1>5, <1>12, JobRules
    <3>2. \/ /\ DOMAIN rows \subseteq DOMAIN rows' /\ \A j \in DOMAIN rows : rows'[j] = rows[j]
             /\ \A j \in DOMAIN rows' \ DOMAIN rows : rows'[j].m = k.m
          \/ /\ k.leg # 0 /\ DOMAIN rows' = DOMAIN rows /\ rows'[k.leg].m = rows[k.leg].m
             /\ \A j \in DOMAIN rows : j # k.leg => rows'[j] = rows[j]
      <4>1. CASE rows' = rows
        BY <4>1
      <4>2. CASE rows' # rows /\ k.leg = 0
        <5> PICK i \in Nat \ {0} :
                 /\ DOMAIN rows' = DOMAIN rows \cup {i}
                 /\ rows'[i] = [m |-> k.m, sh |-> k.qty, legs |-> 0, open |-> TRUE]
                 /\ \A j \in DOMAIN rows : rows'[j] = rows[j]
          BY <1>1, <4>2 DEF BoughtShape
        <5> QED
          OBVIOUS
      <4>3. CASE rows' # rows /\ k.leg # 0
        BY <1>1, <4>3 DEF BoughtShape
      <4> QED
        BY <4>1, <4>2, <4>3
    <3> QED
      BY <1>12, <3>1, <3>2 DEF SameRows
  <2>2. Pair(m, rows', w, c, k, l)
    BY <1>5, <1>8, <2>1, RowsElsewhere
  <2>3. Settled(m, rows', k, l)
    BY <1>1, <1>9, <1>12 DEF Settled, BoughtBy, SoldBy, DoomedBy, CashedBy
  <2>4. Moves(m, rows', w, c, c, k, Idle, l)
    BY <1>3, <2>3, IdlePlain, PlainMoves
  <2>5. Pair(m, rows', w, c, Idle, l)
    BY <2>2, <2>4, JobMoves
  <2>6. stage = "timeouts" => Late(m, rows', c, todo, Idle)
    BY <1>10, <1>11, <2>1, LateElsewhere
  <2> QED
    BY <2>5, <2>6
<1>13. CASE k.m = m /\ k.leg = 0
  <2>1. OpenIn(rows, m) = {} /\ m \notin excused'
    BY <1>1, <1>13 DEF BoughtShape, OpenRows
  <2>2. PICK i \in Nat \ {0} :
            /\ i \notin DOMAIN rows /\ DOMAIN rows' = DOMAIN rows \cup {i}
            /\ rows'[i] = [m |-> k.m, sh |-> k.qty, legs |-> 0, open |-> TRUE]
            /\ \A j \in DOMAIN rows : rows'[j] = rows[j]
    BY <1>1, <1>13, <2>1 DEF BoughtShape
  <2>3. rows'[i].m = m /\ rows'[i].sh = k.qty /\ rows'[i].open
    BY <1>13, <2>2
  <2>4. Pair(m, rows', w, c, Idle, l) /\ EntryBy(k, m)
    BY <1>1, <1>3, <1>5, <1>6, <1>7, <1>8, <1>13, <2>1, <2>2, <2>3, RowEntered
  <2>5. stage = "timeouts" => Late(m, rows', c, todo, Idle)
    BY <1>10, <2>2, <2>4 DEF Late
  <2> QED
    BY <2>4, <2>5
<1>14. CASE k.m = m /\ k.leg # 0
  <2>1. /\ rows[k.leg].open /\ DOMAIN rows' = DOMAIN rows /\ rows'[k.leg].m = rows[k.leg].m
        /\ rows'[k.leg].sh = rows[k.leg].sh + k.qty /\ rows'[k.leg].open
        /\ \A j \in DOMAIN rows : j # k.leg => rows'[j] = rows[j]
    BY <1>1, <1>14 DEF BoughtShape
  <2>2. Pair(m, rows', w, c, Idle, l)
    BY <1>1, <1>3, <1>5, <1>6, <1>7, <1>8, <1>14, <2>1, RowAddedTo
  <2>3. k.leg \in OpenIn(rows, m)
    BY <1>5, <1>14, <2>1, JobRules DEF OpenIn
  <2>4. stage = "timeouts" => Late(m, rows', c, todo, Idle)
    BY <1>10, <2>1, <2>3 DEF Late
  <2> QED
    BY <2>2, <2>4
<1> QED
  BY <1>12, <1>13, <1>14

\* What follows the close of a row that is not open, or not of m, or is kept.
LEMMA ClosePasses ==
  ASSUME NEW m \in Market, NEW rs, NEW w, NEW c, NEW c2, NEW k \in JobType, NEW l \in JobType,
         NEW n, Fits(k, rs), Table(rs), k.then # "none", After(n, k, rs),
         Pair(m, rs, w, c, k, l), k.then = "cash" => l.order # "buy",
         rs[k.row].m = m /\ rs[k.row].open => k.at # "filled" /\ k.then # "cash"
  PROVE  Moves(m, rs, w, c, c2, k, n, l)
<1>1. OneRow(m, rs) /\ Covers(m, w, k) /\ LegIsOpen(m, rs, k) /\ Cashed(m, rs, w, c, k)
  BY DEF Pair, Half
<1>2. /\ Plain(n) /\ Covers(m, w, n) /\ LegIsOpen(m, rs, n)
      /\ EntryBy(n, m) => EntryBy(k, m)
  BY <1>1, AfterPlain
<1>3. k.order \notin {"buy", "cash"} /\ (k.order = "exit" => k.x = rs[k.row].m)
  BY JobRules
<1>4. BoughtBy(k, m) = 0 /\ SoldBy(k, m, rs) = 0 /\ ~DoomedBy(k, m, rs)
  BY <1>3 DEF BoughtBy, SoldBy, DoomedBy
<1>5. CashedBy(k, m, rs) => OpenIn(rs, m) = {} /\ BoughtBy(l, m) = 0
  BY <1>1, <1>3 DEF CashedBy, Cashed, OpenIn, BoughtBy
<1>6. Settled(m, rs, k, l)
  BY <1>4, <1>5 DEF Settled
<1> QED
  BY <1>2, <1>6, PlainMoves

\* The open row of m is closed: its shares were sold, or the wallet has none.
LEMMA RowCloses ==
  ASSUME NEW m \in Market, NEW rs, NEW rt, NEW w \in Nat, NEW c, NEW c2,
         NEW k \in JobType, NEW l \in JobType, NEW n, Fits(k, rs), Fits(l, rs),
         k.then # "none", rs[k.row].m = m, rs[k.row].open, rs[k.row].sh \in Nat \ {0},
         DOMAIN rt = DOMAIN rs, rt[k.row].m = m, ~rt[k.row].open,
         \A j \in DOMAIN rs : j # k.row => rt[j] = rs[j],
         Pair(m, rs, w, c, k, l), c => c2, k.then = "cash" => l.order # "buy",
         Plain(n), Covers(m, w, n), ~EntryBy(n, m),
         k.at = "filled" => k.order = "exit" /\ rs[k.row].sh = k.sh /\ c2,
         k.at # "filled" => w = 0
  PROVE  /\ Pair(m, rt, w, c2, n, l)
         /\ \/ c2 \/ CashedBy(l, m, rs) \/ DoomedBy(l, m, rs)
            \/ l.at = "filled" /\ l.order = "exit" /\ l.row = k.row
<1> DEFINE i == k.row
           bl == BoughtBy(l, m)
           sl == SoldBy(l, m, rs)
<1>1. k.order \notin {"buy", "cash"} /\ (k.order = "exit" => k.x = m) /\ i \in DOMAIN rs
  BY JobRules
<1>2. OpenIn(rs, m) = {i} /\ OpenIn(rt, m) = {}
  BY <1>1 DEF OpenIn, Pair, OneRow
<1>3. \A j \in DOMAIN rs : rt[j].m = rs[j].m /\ (~rs[j].open => ~rt[j].open)
  BY DEF OpenIn
<1>4. bl \in Nat /\ sl \in Nat /\ BoughtBy(k, m) = 0 /\ ~DoomedBy(k, m, rs)
      /\ (k.at # "filled" => SoldBy(k, m, rs) = 0)
  BY <1>1, Amounts DEF BoughtBy, DoomedBy, SoldBy
<1>5. sl # 0 => l.at = "filled" /\ l.order = "exit" /\ l.row = i
  BY <1>2, JobRules DEF SoldBy, OpenIn
<1>6. bl # 0 => l.at = "filled" /\ l.order = "buy"
  BY DEF BoughtBy
<1>7. /\ c2 \/ CashedBy(l, m, rs) \/ DoomedBy(l, m, rs) \/ sl # 0
      /\ CashedBy(l, m, rs) \/ DoomedBy(l, m, rs) \/ w = bl
  <2>1. CASE k.at = "filled"
    BY <1>1, <2>1 DEF Pair, Half, ExitsWhole
  <2>2. CASE k.at # "filled" /\ CashedBy(k, m, rs)
    <3>1. c2 /\ l.order # "buy"
      BY <2>2 DEF CashedBy, Pair, Half, Cashed
    <3> QED
      BY <2>2, <1>6, <3>1
  <2>3. CASE /\ k.at # "filled" /\ ~CashedBy(k, m, rs)
             /\ ~CashedBy(l, m, rs) /\ ~DoomedBy(l, m, rs)
    <3>1. w = 0 /\ SoldBy(k, m, rs) = 0 /\ BoughtBy(k, m) = 0
      BY <1>4, <2>3
    <3>2. w + SoldBy(k, m, rs) + sl = rs[i].sh + BoughtBy(k, m) + bl
      BY <1>2, <1>4, <2>3 DEF Pair, Balanced
    <3> DEFINE sh == rs[i].sh
    <3>3. sh \in Nat \ {0} /\ 0 + 0 + sl = sh + 0 + bl
      BY <3>1, <3>2
    <3> HIDE DEF sh, sl, bl
    <3>4. sl # 0
      BY <1>4, <3>3
    <3> QED
      BY <1>5, <1>6, <3>1, <3>4
  <2> QED
    BY <2>1, <2>2, <2>3
<1>8. Balanced(m, rt, w, n, l)
  <2>1. CashedBy(l, m, rs) => CashedBy(l, m, rt)
    BY <1>3, JobRules DEF CashedBy
  <2>2. DoomedBy(l, m, rs) => DoomedBy(l, m, rt)
    BY <1>3, JobRules DEF DoomedBy
  <2>3. BoughtBy(n, m) = 0
    BY DEF Plain, BoughtBy
  <2>4. bl = 0 + bl
    BY <1>4
  <2> QED
    BY <1>2, <1>7, <2>1, <2>2, <2>3, <2>4 DEF Balanced
<1>9. Half(m, rt, w, c2, n, l)
  BY <1>2 DEF Half, Cashed, CashedBy, LegIsOpen, ExitsWhole, NoReentry, Closing, Plain
<1>10. Half(m, rt, w, c2, l, n)
  <2>1. Cashed(m, rt, w, c2, l)
    <3>1. CashedBy(l, m, rt) => CashedBy(l, m, rs)
      BY <1>3, JobRules DEF CashedBy
    <3>2. l.then = "cash" /\ rt[l.row].m = m => c
      BY <1>3, JobRules DEF Pair, Half, Cashed
    <3> QED
      BY <1>2, <3>1, <3>2 DEF Pair, Half, Cashed
  <2>2. Covers(m, w, l) /\ LegIsOpen(m, rt, l)
    BY <1>2 DEF Pair, Half, LegIsOpen
  <2>3. ExitsWhole(m, rt, w, l, n)
    BY <1>2, <1>3, JobRules DEF ExitsWhole, OpenIn
  <2>4. NoReentry(m, rt, c2, l, n)
    <3> SUFFICES ASSUME Closing(l, m, rt) PROVE c2
      BY <1>2 DEF NoReentry
    <3>1. l.at # "filled" /\ Closing(l, m, rs)
      BY <1>3, JobRules DEF Closing
    <3>2. sl = 0 /\ ~DoomedBy(l, m, rs)
      BY <3>1 DEF SoldBy, DoomedBy
    <3>3. CashedBy(l, m, rs) => c
      BY <3>1 DEF CashedBy, Pair, Half, Cashed
    <3> QED
      BY <1>7, <3>2, <3>3
  <2> QED
    BY <2>1, <2>2, <2>3, <2>4 DEF Half
<1>11. OneRow(m, rt)
  BY <1>2 DEF OneRow
<1> QED
  BY <1>5, <1>7, <1>8, <1>9, <1>10, <1>11 DEF Pair

\* The table after a close, for a market whose open row it is not.
LEMMA ClosedElsewhere ==
  ASSUME LInv, NEW i \in DOMAIN rows, rows' = WithClosed(rows, i), NEW m,
         ~(rows[i].m = m /\ rows[i].open)
  PROVE  SameRows(m, rows, rows')
<1> DEFINE rt == WithClosed(rows, i)
<1>1. /\ DOMAIN rt = DOMAIN rows /\ rt[i].m = rows[i].m
      /\ \A j \in DOMAIN rows : j # i => rt[j] = rows[j]
  BY ClosedRow
<1>2. ~rows[i].open => rt[i] = rows[i]
  <2>1. rows[i] \in Row /\ rt[i] = [rows[i] EXCEPT !.open = FALSE]
    BY RowsAreTable DEF Table, WithClosed
  <2> QED
    BY <2>1 DEF Row
<1> HIDE DEF rt
<1> QED
  BY <1>1, <1>2 DEF SameRows, rt

\* The row stays as it is, or is not the open row of m.
LEMMA ClosePassesBooks ==
  ASSUME FInv, LInv', NEW a \in Actor, ClosesRow(job[a]), CloseTypes(a),
         After(job'[a], job[a], rows'), NEW m \in Market \ excused,
         SameRows(m, rows, rows'), cooling \subseteq cooling',
         rows'[job[a].row].m = m /\ rows'[job[a].row].open
             => job[a].at # "filled" /\ job[a].then # "cash",
         UNCHANGED <<wallet, stage, todo>>
  PROVE  Books(m)'
<1> DEFINE k == job[a]
           n == job'[a]
           c == m \in cooling
           c2 == m \in cooling'
           w == wallet[m]
<1>1. LInv /\ TaskStep(a) /\ Grows(rows, rows') /\ k.then # "none"
  BY DEF FInv, CloseTypes, ClosesRow
<1>2. PICK b \in Actor : a # b
  BY Actors
<1> DEFINE l == job[b]
<1>3. k \in JobType /\ l \in JobType /\ Fits(k, rows) /\ Fits(l, rows)
  BY <1>1, JobFacts
<1>4. Fits(k, rows') /\ Table(rows')
  <2>1. Table(rows)'
    BY RowsAreTable, PTL
  <2> QED
    BY <1>1, <1>3, <2>1, FitsLater DEF Table
<1>5. k.then = "cash" => l.order # "buy"
  BY <1>1, <1>2, Alone DEF InLock
<1>6. Pair(m, rows, w, c, k, l)
  BY <1>2, BooksOfPair
<1>7. stage = "timeouts" => /\ Late(m, rows, c, todo, job["ws"])
                            /\ \A d \in todo : d[1] \in DOMAIN rows
  BY <1>1 DEF FInv, BooksKept, Books, LInv, TodoFits
<1>8. (job["ws"] = k /\ job'["ws"] = n) \/ job'["ws"] = job["ws"]
  BY <1>1, Actors DEF TaskStep
<1>9. c => c2
  OBVIOUS
<1> HIDE DEF k, l, n, c, c2, w
<1>10. Pair(m, rows', w, c, k, l)
  BY <1>3, <1>6, RowsElsewhere
<1>11. Moves(m, rows', w, c, c2, k, n, l)
  BY <1>1, <1>3, <1>4, <1>5, <1>10, ClosePasses DEF k, n
<1>12. Pair(m, rows', w, c2, n, l)
  BY <1>9, <1>10, <1>11, JobMoves
<1>13. EntryBy(n, m) => EntryBy(k, m) \/ ~c
  BY <1>11 DEF Moves
<1>14. stage = "timeouts" => Late(m, rows', c2, todo, job'["ws"])
  BY <1>7, <1>8, <1>9, <1>13, LateElsewhere
<1> QED
  BY <1>1, <1>2, <1>12, <1>14, TaskBooks DEF k, l, n, c2, w

\* The open row of m is closed.
LEMMA RowClosesBooks ==
  ASSUME FInv, LInv', NEW a \in Actor, ClosesRow(job[a]), CloseTypes(a),
         ClosesOrphan(job'[a], job[a]) \/ ClosesSold(job'[a], job[a]),
         NEW m \in Market \ excused', rows[job[a].row].m = m, rows[job[a].row].open,
         UNCHANGED <<wallet, stage, todo>>
  PROVE  Books(m)'
<1> DEFINE k == job[a]
           n == job'[a]
           c == m \in cooling
           c2 == m \in cooling'
           w == wallet[m]
           i == k.row
<1>1. /\ LInv /\ TaskStep(a) /\ Grows(rows, rows') /\ k.then # "none"
      /\ rows' = WithClosed(rows, i) /\ After(n, k, rows')
  BY DEF FInv, CloseTypes, ClosesRow, ClosesOrphan, ClosesSold
<1>2. PICK b \in Actor : a # b
  BY Actors
<1> DEFINE l == job[b]
<1>3. /\ k \in JobType /\ l \in JobType /\ Fits(k, rows) /\ Fits(l, rows)
      /\ i \in DOMAIN rows /\ rows[i].sh \in Nat \ {0} /\ rows[i].m = m /\ rows[i].open
  BY <1>1, JobFacts, CloserFacts
<1>4. Fits(k, rows') /\ Table(rows')
  <2>1. Table(rows)'
    BY RowsAreTable, PTL
  <2> QED
    BY <1>1, <1>3, <2>1, FitsLater DEF Table
<1>5. /\ m \in Market /\ m \notin excused /\ (c => c2) /\ w \in Nat
      /\ k.at = "filled" => k.order = "exit" /\ rows[i].sh = k.sh /\ c2
      /\ k.at # "filled" => w = 0
  BY Numbers DEF FInv, ClosesOrphan, ClosesSold
<1>6. /\ DOMAIN rows' = DOMAIN rows /\ rows'[i].m = m /\ ~rows'[i].open
      /\ \A j \in DOMAIN rows : j # i => rows'[j] = rows[j]
  BY <1>1, <1>3, ClosedRow
<1>7. Pair(m, rows, w, c, k, l)
  BY <1>2, <1>5, BooksOfPair
<1>8. k.then = "cash" => l.order # "buy"
  BY <1>1, <1>2, Alone DEF InLock
<1>9. stage = "timeouts" => Late(m, rows, c, todo, job["ws"]) /\ TodoFits
  BY <1>1, <1>5 DEF FInv, BooksKept, Books, LInv
<1>10. stage = "timeouts" => ~Needs(job["sweep"])
  BY <1>1, SweepIsOut
<1>11. (a = "ws" /\ b = "sweep" /\ job'["ws"] = n) \/ (a = "sweep" /\ k = job["sweep"])
  BY <1>2, Actors
<1> HIDE DEF k, l, n, c, c2, w, i
<1>12. OpenIn(rows, m) = {i} /\ OpenIn(rows', m) = {}
  BY <1>3, <1>6, <1>7 DEF OpenIn, Pair, OneRow, i
<1>13. Plain(n) /\ Covers(m, w, n) /\ ~EntryBy(n, m)
  <2>1. OneRow(m, rows') /\ LegIsOpen(m, rows', k) /\ Covers(m, w, k)
    BY <1>7, <1>12 DEF Pair, Half, OneRow, LegIsOpen
  <2> QED
    BY <1>1, <1>3, <1>4, <1>6, <2>1, AfterPlain DEF i
<1>14. /\ Pair(m, rows', w, c2, n, l)
       /\ \/ c2 \/ CashedBy(l, m, rows) \/ DoomedBy(l, m, rows)
          \/ l.at = "filled" /\ l.order = "exit" /\ l.row = i
  <2> DEFINE rt == rows'
  <2>1. /\ DOMAIN rt = DOMAIN rows /\ rt[k.row].m = m /\ ~rt[k.row].open
        /\ \A j \in DOMAIN rows : j # k.row => rt[j] = rows[j]
    BY <1>6 DEF i
  <2>2. /\ rows[k.row].m = m /\ rows[k.row].open /\ rows[k.row].sh \in Nat \ {0}
        /\ k.at = "filled" => k.order = "exit" /\ rows[k.row].sh = k.sh /\ c2
    BY <1>3, <1>5 DEF i
  <2> HIDE DEF rt
  <2>3. /\ Pair(m, rt, w, c2, n, l)
        /\ \/ c2 \/ CashedBy(l, m, rows) \/ DoomedBy(l, m, rows)
           \/ l.at = "filled" /\ l.order = "exit" /\ l.row = k.row
    BY <1>1, <1>3, <1>5, <1>7, <1>8, <1>13, <2>1, <2>2, RowCloses
  <2> QED
    BY <2>3 DEF rt, i
<1>15. stage = "timeouts" => Late(m, rows', c2, todo, job'["ws"])
  <2> SUFFICES ASSUME stage = "timeouts", NEW d \in todo, rows'[d[1]].m = m, ~rows'[d[1]].open
               PROVE  c2 /\ OpenIn(rows', m) = {} /\ ~EntryBy(job'["ws"], m)
    BY DEF Late
  <2>1. d[1] \in DOMAIN rows /\ d[1] # job["sweep"].row
    BY <1>9 DEF TodoFits
  <2>2. CASE d[1] # i
    <3>1. rows[d[1]].m = m /\ ~rows[d[1]].open
      BY <1>6, <2>1, <2>2
    <3> QED
      BY <1>9, <1>12, <3>1 DEF Late
  <2>3. CASE d[1] = i
    <3>1. a = "ws" /\ b = "sweep" /\ job'["ws"] = n
      BY <1>11, <2>1, <2>3 DEF i
    <3>2. ~CashedBy(l, m, rows) /\ ~DoomedBy(l, m, rows) /\ l.row # i
      BY <1>10, <2>1, <2>3, <3>1 DEF l, Needs, InLock, CashedBy, DoomedBy
    <3> QED
      BY <1>12, <1>13, <1>14, <3>1, <3>2
  <2> QED
    BY <2>2, <2>3
<1> QED
  BY <1>1, <1>2, <1>14, <1>15, TaskBooks DEF k, l, n, c2, w

LEMMA CloseBooks ==
  ASSUME FInv, LInv', NEW a \in Actor, Look(a) \/ Exited(a) \/ NotExited(a),
         NEW m \in Market \ excused'
  PROVE  Books(m)'
<1> DEFINE k == job[a]
           n == job'[a]
           i == k.row
<1>1. LInv /\ CloseTypes(a) /\ CloseShape(n, k) /\ ClosesRow(k) /\ TaskStep(a)
  BY LookLeads, ExitedLeads, NotExitedLeads DEF FInv, CloseTypes
<1>2. UNCHANGED <<wallet, stage, todo>>
  BY DEF Look, Exited, NotExited, account, sweepVars
<1>3. excused \subseteq excused' /\ m \notin excused /\ cooling \subseteq cooling'
  BY <1>1 DEF CloseShape, SendsExit, ClosesOrphan, ClosesSold, Keeps
<1>4. PICK b \in Actor : a # b
  BY Actors
<1> DEFINE l == job[b]
<1>5. /\ k \in JobType /\ l \in JobType /\ Fits(k, rows) /\ Fits(l, rows) /\ Table(rows)
      /\ i \in DOMAIN rows
  BY <1>1, JobFacts, CloserFacts, RowsAreTable
<1>6. CASE SendsExit(n, k)
  <2> DEFINE w == wallet[m]
             c == m \in cooling
             y == rows[i].m
  <2>1. PICK qty \in Nat \ {0} : /\ Sends(n, k, "exit", y, qty)
                                 /\ qty = k.sh \/ (qty = wallet[y] /\ qty <= k.sh)
    BY <1>6 DEF SendsExit
  <2>2. k.at = "look" /\ k.order = "none" /\ rows' = rows /\ cooling' = cooling
    BY <1>5, <1>6 DEF SendsExit, Fits
  <2>3. Pair(m, rows, w, c, k, l) /\ w \in Nat
    BY <1>1, <1>3, <1>4, BooksOfPair, Numbers
  <2>4. qty = k.sh \/ (qty <= k.sh /\ (y = m => qty = w))
    BY <2>1
  <2> HIDE DEF w, c, k, l, n, y
  <2>5. Moves(m, rows, w, c, c, k, n, l)
    BY <1>5, <2>1, <2>2, <2>3, <2>4, SendsExitMoves DEF y, i
  <2> QED
    BY <1>1, <1>2, <1>3, <1>4, <2>2, <2>5, CalmBooks DEF w, c, k, l, n
<1>7. CASE ClosesOrphan(n, k) \/ ClosesSold(n, k)
  <2>1. rows' = WithClosed(rows, i) /\ After(n, k, rows')
    BY <1>7 DEF ClosesOrphan, ClosesSold
  <2>2. CASE rows[i].m = m /\ rows[i].open
    BY <1>1, <1>2, <1>7, <2>2, RowClosesBooks
  <2>3. CASE ~(rows[i].m = m /\ rows[i].open)
    <3>1. SameRows(m, rows, rows') /\ ~rows'[i].open
      BY <1>1, <1>5, <2>1, <2>3, ClosedElsewhere, ClosedRow
    <3> QED
      BY <1>1, <1>2, <1>3, <2>1, <3>1, ClosePassesBooks
  <2> QED
    BY <2>2, <2>3
<1>8. CASE Keeps(n, k)
  <2>1. rows' = rows /\ After(n, k, rows')
    BY <1>8 DEF Keeps
  <2>2. SameRows(m, rows, rows')
    BY <2>1 DEF SameRows
  <2>3. rows'[i].m = m /\ rows'[i].open => k.at # "filled" /\ k.then # "cash"
    BY <1>8, <2>1 DEF Keeps
  <2> QED
    BY <1>1, <1>2, <1>3, <2>1, <2>2, <2>3, ClosePassesBooks
<1> QED
  BY <1>1, <1>6, <1>7, <1>8 DEF CloseShape

\* A cash sale is heard of, and its row is read.
LEMMA CashClosesMoves ==
  ASSUME NEW m, NEW rs, NEW w, NEW c, NEW c2, NEW k, NEW n, NEW l, NEW i, NEW sh,
         k.at = "filled", k.order = "cash", k.then = "none", i \in OpenIn(rs, k.x),
         Closes(n, k, i, sh, "cash"), k.x = m => c2, Pair(m, rs, w, c, k, l)
  PROVE  Moves(m, rs, w, c, c2, k, n, l)
<1>1. OneRow(m, rs) /\ Cashed(m, rs, w, c, k) /\ Covers(m, w, k) /\ LegIsOpen(m, rs, k)
  BY DEF Pair, Half
<1>2. /\ n.at = "look" /\ n.order = "none" /\ n.row = i /\ n.then = "cash"
      /\ n.m = k.m /\ n.leg = k.leg /\ n.cands = k.cands
  BY DEF Closes
<1>3. i \in DOMAIN rs /\ rs[i].m = k.x /\ rs[i].open
  BY DEF OpenIn
<1>4. /\ BoughtBy(k, m) = 0 /\ BoughtBy(n, m) = 0 /\ SoldBy(k, m, rs) = 0 /\ SoldBy(n, m, rs) = 0
      /\ ~DoomedBy(k, m, rs) /\ (CashedBy(k, m, rs) <=> k.x = m) /\ (CashedBy(n, m, rs) <=> k.x = m)
  BY <1>2, <1>3 DEF BoughtBy, SoldBy, DoomedBy, CashedBy
<1>5. Cashed(m, rs, w, c2, n)
  BY <1>1, <1>2, <1>3, <1>4 DEF Cashed, OneRow, OpenIn
<1>6. Covers(m, w, n) /\ LegIsOpen(m, rs, n)
  BY <1>1, <1>2 DEF Covers, LegIsOpen, InLock
<1>7. ExitsWhole(m, rs, w, n, l) /\ NoReentry(m, rs, c2, n, l)
  BY <1>2, <1>3 DEF ExitsWhole, NoReentry
<1>8. EntryBy(n, m) => EntryBy(k, m)
  BY <1>2 DEF EntryBy
<1> QED
  BY <1>4, <1>5, <1>6, <1>7, <1>8 DEF Moves, Half

LEMMA CashSoldBooks ==
  ASSUME FInv, LInv', NEW a \in Actor, CashSold(a), NEW m \in Market \ excused'
  PROVE  Books(m)'
<1> DEFINE k == job[a]
           n == job'[a]
           w == wallet[m]
           cool == m \in cooling
           cool2 == m \in cooling'
<1>1. /\ LInv /\ TaskStep(a) /\ k.order = "cash" /\ k.at = "filled"
      /\ \/ OpenIn(rows, k.x) = {} /\ Sold(n, k)
         \/ \E i \in OpenIn(rows, k.x) : Closes(n, k, i, rows[i].sh, "cash")
      /\ cooling' = cooling \cup {k.x}
  BY CashSoldLeads DEF FInv
<1>2. UNCHANGED <<rows, wallet, stage, todo, excused>>
  BY DEF CashSold, ledger, sweepVars, account
<1>3. PICK b \in Actor : a # b
  BY Actors
<1> DEFINE l == job[b]
<1>4. k.then = "none" /\ InLock(k) /\ l.order # "buy"
  BY <1>1, <1>3, CashFacts, Alone
<1>5. Pair(m, rows, w, cool, k, l) /\ Covers(m, w, k) /\ LegIsOpen(m, rows, k)
  BY <1>2, <1>3, BooksOfPair DEF Pair, Half
<1>6. cooling \subseteq cooling' /\ (k.x = m => cool2)
  BY <1>1
<1>7. CASE OpenIn(rows, k.x) = {} /\ Sold(n, k)
  <2>1. Settled(m, rows, k, l)
    BY <1>1, <1>4, <1>7 DEF Settled, BoughtBy, SoldBy, DoomedBy, CashedBy
  <2>2. /\ k.leg # 0 /\ k.m = m => OpenIn(rows, m) \subseteq {k.leg}
        /\ \A c \in k.cands : c[1] = m => wallet[m] <= c[2]
    BY <1>4, <1>5 DEF Covers, LegIsOpen
  <2>3. Sold(n, k) /\ m \in Market
    BY <1>7
  <2>4. Plain(n) /\ Covers(m, w, n) /\ LegIsOpen(m, rows, n)
        /\ (EntryBy(n, m) => k.m = m /\ k.leg = 0)
    <3> DEFINE rs == rows
    <3>1. /\ k.leg # 0 /\ k.m = m => OpenIn(rs, m) \subseteq {k.leg}
          /\ \A c \in k.cands : c[1] = m => w <= c[2]
      BY <2>2
    <3> HIDE DEF n, w, k, rs
    <3>2. Plain(n) /\ Covers(m, w, n) /\ LegIsOpen(m, rs, n)
          /\ (EntryBy(n, m) => k.m = m /\ k.leg = 0)
      BY <2>3, <3>1, SoldPlain
    <3> QED
      BY <3>2 DEF w, n, k, rs
  <2>5. EntryBy(n, m) => EntryBy(k, m)
    BY <1>1, <2>4 DEF EntryBy
  <2> QED
    BY <1>1, <1>2, <1>3, <1>6, <2>1, <2>4, <2>5, PlainBooks
<1>8. ASSUME NEW i \in OpenIn(rows, k.x), Closes(n, k, i, rows[i].sh, "cash")
      PROVE  Books(m)'
  <2> DEFINE sh == rows[i].sh
  <2>1. Closes(n, k, i, sh, "cash") /\ i \in OpenIn(rows, k.x)
    BY <1>8
  <2> HIDE DEF k, n, l, w, cool, cool2, sh
  <2>2. Moves(m, rows, w, cool, cool2, k, n, l)
    BY <1>1, <1>4, <1>5, <1>6, <2>1, CashClosesMoves
  <2> QED
    BY <1>1, <1>2, <1>3, <1>6, <2>2, CalmBooks DEF k, n, l, w, cool, cool2
<1> QED
  BY <1>1, <1>7, <1>8

-----------------------------------------------------------------------------
(* The steps that are no task's. *)

\* The books of a market that the step does not touch.
LEMMA StillBooks ==
  ASSUME FInv, UNCHANGED <<job, wallet>>, NEW m \in Market \ excused, SameRows(m, rows, rows'),
         cooling' = cooling, stage' = "timeouts" => stage = "timeouts" /\ todo' \subseteq todo
  PROVE  Books(m)'
<1> DEFINE k == job["ws"]
           l == job["sweep"]
           c == m \in cooling
           w == wallet[m]
<1>1. k \in JobType /\ l \in JobType /\ Fits(k, rows) /\ Fits(l, rows)
  BY JobFacts, Actors DEF FInv
<1>2. /\ Pair(m, rows, w, c, k, l)
      /\ stage = "timeouts" => /\ Late(m, rows, c, todo, k)
                               /\ \A d \in todo : d[1] \in DOMAIN rows
  BY DEF FInv, BooksKept, Books, LInv, TodoFits
<1> HIDE DEF k, l, c, w
<1>3. Pair(m, rows', w, c, k, l)
  BY <1>1, <1>2, RowsElsewhere
<1>4. stage' = "timeouts" => Late(m, rows', c, todo', k)
  BY <1>2, LateElsewhere
<1> QED
  BY <1>3, <1>4 DEF Books, k, l, c, w

\* The loop starts to look at the rows that are open.
LEMMA TimeoutsBooks ==
  ASSUME FInv, BeginTimeouts, NEW m \in Market \ excused'
  PROVE  Books(m)'
<1>1. UNCHANGED <<rows, cooling, job, wallet, excused>>
  BY DEF BeginTimeouts, ledger, memory, account
<1>2. Pair(m, rows, wallet[m], m \in cooling, job["ws"], job["sweep"])
  BY <1>1 DEF FInv, BooksKept, Books
<1>3. \A d \in todo' : rows[d[1]].open
  BY DEF BeginTimeouts
<1>4. Late(m, rows', m \in cooling', todo', job'["ws"])
  BY <1>1, <1>3 DEF Late
<1> QED
  BY <1>1, <1>2, <1>4 DEF Books

LEMMA RestingBooks ==
  ASSUME FInv, NEW i \in DOMAIN resting, RestingFills(i), NEW m \in Market \ excused'
  PROVE  Books(m)'
<1>1. /\ m \in Market /\ m \notin excused /\ wallet'[m] = wallet[m]
      /\ UNCHANGED <<rows, cooling, job, stage, todo>>
  BY RestingLeads DEF FInv, ledger, memory, sweepVars
<1> QED
  BY <1>1 DEF FInv, BooksKept, Books

LEMMA ForceCloseBooks ==
  ASSUME FInv, NEW y \in Market, ForceClose(y), NEW m \in Market \ excused'
  PROVE  Books(m)'
<1>1. PICK i \in OpenIn(rows, y) : rows' = WithClosed(rows, i)
  BY ForceCloseLeads DEF FInv
<1>2. /\ m \notin excused /\ m # y /\ UNCHANGED <<cooling, job, wallet, stage, todo>>
  BY ForceCloseLeads DEF FInv, account, sweepVars
<1>3. SameRows(m, rows, rows')
  BY <1>1, <1>2, ClosedElsewhere DEF FInv, OpenIn
<1> QED
  BY <1>2, <1>3, StillBooks

\* With nothing of m under way the jobs may as well be idle.
LEMMA IdlePair ==
  ASSUME NEW m \in Market, NEW rs, NEW w, NEW c, NEW k, NEW l,
         OneRow(m, rs), Balanced(m, rs, w, k, l),
         \A j \in {k, l} : /\ j.at = "filled" => j.x # m
                           /\ j.then = "cash" => rs[j.row].m # m
  PROVE  Pair(m, rs, w, c, Idle, Idle)
<1>1. \A j \in {k, l} : /\ BoughtBy(j, m) = 0 /\ SoldBy(j, m, rs) = 0
                        /\ ~CashedBy(j, m, rs) /\ ~DoomedBy(j, m, rs)
  BY DEF BoughtBy, SoldBy, CashedBy, DoomedBy
<1>2. BoughtBy(Idle, m) = 0 /\ SoldBy(Idle, m, rs) = 0 /\ Half(m, rs, w, c, Idle, Idle)
  BY IdleHalf
<1>3. Balanced(m, rs, w, Idle, Idle)
  BY <1>1, <1>2 DEF Balanced
<1> QED
  BY <1>2, <1>3 DEF Pair

LEMMA CoolingBooks ==
  ASSUME FInv, NEW y \in Market, CoolingEnds(y), NEW m \in Market \ excused'
  PROVE  Books(m)'
<1>1. /\ job["ws"] = Idle /\ job["sweep"] = Idle /\ stage = "sleep"
      /\ UNCHANGED <<rows, wallet, job, stage, excused>>
  BY DEF CoolingEnds, SweepIdle, ledger, sweepVars, account
<1> DEFINE c == m \in cooling
           c2 == m \in cooling'
           w == wallet[m]
<1>2. OneRow(m, rows) /\ Balanced(m, rows, w, Idle, Idle)
  BY <1>1 DEF FInv, BooksKept, Books, Pair
<1>3. Idle.at # "filled" /\ Idle.then # "cash"
  BY IdleFields
<1> HIDE DEF c, c2, w
<1>4. Pair(m, rows, w, c2, Idle, Idle)
  BY <1>2, <1>3, IdlePair
<1> QED
  BY <1>1, <1>4 DEF Books, c2, w

LEMMA RestartBooks ==
  ASSUME FInv, Restart, NEW m \in Market \ excused'
  PROVE  Books(m)'
<1> DEFINE k == job["ws"]
           l == job["sweep"]
           c == m \in cooling
           c2 == m \in cooling'
           w == wallet[m]
<1>1. /\ UNCHANGED <<rows, wallet>> /\ job' = [a \in Actor |-> Idle] /\ stage' = "sleep"
      /\ m \in Market /\ m \notin excused
      /\ \A a \in Actor : (job[a].at = "filled" => job[a].x # m)
                          /\ (job[a].then = "cash" => rows[job[a].row].m # m)
  BY RestartLeads DEF FInv, CashClose
<1>2. OneRow(m, rows) /\ Balanced(m, rows, w, k, l)
  BY <1>1 DEF FInv, BooksKept, Books, Pair
<1>3. \A j \in {k, l} : /\ j.at = "filled" => j.x # m
                        /\ j.then = "cash" => rows[j.row].m # m
  BY <1>1, Actors
<1>4. job'["ws"] = Idle /\ job'["sweep"] = Idle
  BY <1>1, Actors
<1> HIDE DEF k, l, c, c2, w
<1>5. Pair(m, rows, w, c2, Idle, Idle)
  BY <1>1, <1>2, <1>3, IdlePair
<1> QED
  BY <1>1, <1>4, <1>5 DEF Books, c2, w

LEMMA SweepBooks ==
  ASSUME FInv, LInv', Sweep, NEW m \in Market \ excused'
  PROVE  Books(m)'
<1>1. CASE SweepRow
  BY <1>1, SweepRowBooks
<1>2. CASE BeginTimeouts
  BY <1>2, TimeoutsBooks
<1>3. CASE BeginSweep \/ Enumerate \/ ApplyScreen \/ ScreenFails \/ EndSweep
  <2>1. UNCHANGED <<job, wallet, rows, cooling, excused>> /\ stage' # "timeouts"
    BY <1>3 DEF BeginSweep, Enumerate, ApplyScreen, ScreenFails, EndSweep, Subscribe,
       ledger, memory, account
  <2>2. SameRows(m, rows, rows')
    BY <2>1 DEF SameRows
  <2> QED
    BY <2>1, <2>2, StillBooks
<1> QED
  BY <1>1, <1>2, <1>3 DEF Sweep

LEMMA UserBooks ==
  ASSUME FInv, NEW y \in Market,
         AddMarket(y) \/ SetStatus(y) \/ DeleteMarket(y) \/ InflightEnds(y),
         NEW m \in Market \ excused'
  PROVE  Books(m)'
<1>1. UNCHANGED <<job, wallet, rows, cooling, stage, todo, excused>>
  BY DEF AddMarket, SetStatus, DeleteMarket, InflightEnds, Edited, ledger, memory,
     sweepVars, account
<1>2. SameRows(m, rows, rows')
  BY <1>1 DEF SameRows
<1> QED
  BY <1>1, <1>2, StillBooks

LEMMA NextBooks ==
  ASSUME FInv, Next
  PROVE  FInv'
<1>1. LInv'
  BY NextKeeps DEF FInv
<1> SUFFICES ASSUME NEW m \in Market \ excused' PROVE Books(m)'
  BY <1>1 DEF FInv, BooksKept
<1>2. ASSUME NEW a \in Actor, NEW y \in Market, OnUpdate(a, y) PROVE Books(m)'
  BY <1>1, <1>2, UpdateBooks
<1>3. ASSUME NEW a \in Actor, Handle(a) PROVE Books(m)'
  BY <1>1, <1>3, AcquireBooks, BalanceBooks, HeldBooks, BoughtBooks, NotBoughtBooks,
     CashSoldBooks, UnsoldBooks, CloseBooks DEF Handle
<1>4. ASSUME NEW a \in Actor, Match(a) \/ Refuse(a) \/ Strand(a) PROVE Books(m)'
  BY <1>1, <1>4, MatchBooks, RefuseBooks
<1>5. ASSUME NEW i \in DOMAIN resting, RestingFills(i) PROVE Books(m)'
  BY <1>5, RestingBooks
<1>6. CASE Sweep
  BY <1>1, <1>6, SweepBooks
<1>7. ASSUME NEW y \in Market,
             \/ AddMarket(y) \/ SetStatus(y) \/ DeleteMarket(y)
             \/ ForceClose(y) \/ CoolingEnds(y) \/ InflightEnds(y)
      PROVE  Books(m)'
  BY <1>7, UserBooks, ForceCloseBooks, CoolingBooks
<1>8. CASE Restart
  BY <1>8, RestartBooks
<1> QED
  BY <1>2, <1>3, <1>4, <1>5, <1>6, <1>7, <1>8 DEF Next

LEMMA StutterBooks ==
  ASSUME FInv, UNCHANGED vars
  PROVE  FInv'
<1>1. LInv'
  BY StutterKeeps DEF FInv
<1>2. UNCHANGED <<rows, wallet, cooling, job, stage, todo, excused>>
  BY DEF vars, ledger, memory, sweepVars, account
<1>3. BooksKept'
  BY <1>2 DEF FInv, BooksKept, Books
<1> QED
  BY <1>1, <1>3 DEF FInv

LEMMA InitFInv ==
  ASSUME Init
  PROVE  FInv
<1>1. LInv
  BY InitLInv
<1>2. /\ rows = <<>> /\ DOMAIN rows = {} /\ job["ws"] = Idle /\ job["sweep"] = Idle
      /\ stage = "sleep"
  BY Actors DEF Init
<1>3. ASSUME NEW m \in Market PROVE Books(m)
  <2> DEFINE w == wallet[m]
             c == m \in cooling
  <2>1. w = 0 /\ OpenIn(rows, m) = {}
    BY <1>2 DEF Init, OpenIn
  <2>2. OneRow(m, rows)
    BY <2>1 DEF OneRow
  <2>3. Balanced(m, rows, w, Idle, Idle)
    BY <2>1, IdleHalf DEF Balanced
  <2>4. Idle.at # "filled" /\ Idle.then # "cash"
    BY IdleFields
  <2> HIDE DEF w, c
  <2>5. Pair(m, rows, w, c, Idle, Idle)
    BY <1>3, <2>2, <2>3, <2>4, IdlePair
  <2> QED
    BY <1>2, <2>5 DEF Books, w, c
<1> QED
  BY <1>1, <1>3 DEF FInv, BooksKept

-----------------------------------------------------------------------------
(* The theorems. *)

LEMMA BooksOfInvariant ==
  ASSUME FInv
  PROVE  MoneyAccounted
<1>1. ASSUME NEW m \in Market, m \notin excused, ~Unsettled(m)
      PROVE  \/ OpenRows(m) = {} /\ wallet[m] = 0
             \/ \E i \in OpenRows(m) : OpenRows(m) = {i} /\ rows[i].sh = wallet[m]
  <2> DEFINE k == job["ws"]
             l == job["sweep"]
             c == m \in cooling
             w == wallet[m]
  <2>1. OneRow(m, rows) /\ Balanced(m, rows, w, k, l)
    BY <1>1 DEF FInv, BooksKept, Books, Pair
  <2>2. \A j \in {k, l} : /\ j.at = "filled" => j.x # m
                          /\ j.then = "cash" => rows[j.row].m # m
    BY <1>1, Actors DEF Unsettled, CashClose
  <2>3. w \in Nat /\ \A i \in OpenIn(rows, m) : rows[i].sh \in Nat
    BY Numbers DEF FInv
  <2> HIDE DEF k, l, c, w
  <2>4. Balanced(m, rows, w, Idle, Idle)
    BY <2>1, <2>2, IdlePair DEF Pair
  <2>5. /\ OpenIn(rows, m) = {} => w = 0 + 0
        /\ \A i \in OpenIn(rows, m) : w + 0 + 0 = rows[i].sh + 0 + 0
    BY <2>4, IdleHalf DEF Balanced
  <2>6. CASE OpenIn(rows, m) = {}
    BY <2>5, <2>6 DEF OpenRows, w
  <2>7. ASSUME NEW i \in OpenIn(rows, m)
        PROVE  OpenRows(m) = {i} /\ rows[i].sh = w /\ i \in OpenRows(m)
    <3>1. OpenIn(rows, m) = {i}
      BY <2>1, <2>7 DEF OneRow
    <3>2. rows[i].sh = w
      <4> DEFINE sh == rows[i].sh
      <4>1. sh \in Nat /\ w + 0 + 0 = sh + 0 + 0
        BY <2>3, <2>5, <2>7
      <4> HIDE DEF sh
      <4>2. sh = w
        BY <2>3, <4>1
      <4> QED
        BY <4>2 DEF sh
    <3> QED
      BY <3>1, <3>2 DEF OpenRows
  <2> QED
    BY <2>6, <2>7 DEF w
<1>2. BooksAgree
  BY <1>1 DEF BooksAgree
<1> QED
  BY <1>2 DEF MoneyAccounted, FInv, LInv

\* Both parts of the invariant hold in every reachable state, for all markets, limits and
\* bounds: the steps of the two tasks, of the exchange, of the screener, of the user and of
\* the restarts keep them.
THEOREM Invariant == Spec => []FInv
<1>1. Init => FInv
  BY InitFInv
<1>2. FInv /\ [Next]_vars => FInv'
  BY NextBooks, StutterBooks
<1> QED
  BY <1>1, <1>2, PTL DEF Spec

\* The ledger, the memory of the engine, its jobs and its account have their types: a lock
\* never has a task twice, the wallet and the cash never go below zero.
THEOREM TypeCorrect == Spec => []TypeOK
<1>1. FInv => TypeOK
  BY DEF FInv, LInv
<1> QED
  BY <1>1, Invariant, PTL

\* What the engine owns is what its rows say unless one of the recorded causes came in
\* between, and without faults and restarts the order under way is covered by the cash.
THEOREM MoneyIsAccounted == Spec => []MoneyAccounted
<1>1. FInv => MoneyAccounted
  BY BooksOfInvariant
<1> QED
  BY <1>1, Invariant, PTL

\* A market has at most one open row, however its price ticks, exits, add-ons and
\* timeouts interleave, unless one of the recorded causes came in between.
OneOpenRow == \A m \in Market \ excused : OneRow(m, rows)

THEOREM OneOpenRowAlways == Spec => []OneOpenRow
<1>1. FInv => OneOpenRow
  BY DEF FInv, BooksKept, Books, Pair, OneOpenRow
<1> QED
  BY <1>1, Invariant, PTL

\* Only an edit of the watch list lifts an exclusion: neither the screener, whatever it
\* verified before the user's edit, nor a restart does.
THEOREM ExclusionStands == Spec => UserExclusionStands
<1> DEFINE Kept == \A m \in Market : watch[m] = "excluded" /\ watch'[m] # "excluded" =>
                       left'.edits < left.edits
<1>1. FInv /\ [Next]_vars => Kept
  BY ExclusionKept DEF FInv
<1>2. UserExclusionStands <=> [][Kept]_vars
  BY DEF UserExclusionStands
<1> HIDE DEF Kept
<1> QED
  BY <1>1, <1>2, Invariant, PTL DEF Spec

=============================================================================
