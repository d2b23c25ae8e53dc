------------------------------ MODULE MarketFeed ------------------------------
(* Prices and bars from Binance: the worker that holds one mark price stream   *)
(* open and reconnects with a growing delay, and the requests for bars, which  *)
(* stop while the exchange asks for a pause. The two share nothing, so each    *)
(* has its own clock. Times run in units of five seconds, rounded up; delays   *)
(* are what is left of them.                                                   *)
EXTENDS Naturals, FiniteSets, FiniteSetsExt

CONSTANTS
    Calls,      \* requests for bars under way at once
    Pauses,     \* what a Retry-After header asks for (0: there is none)
    MaxRefusals, MaxRelaunches

VARIABLES
    mode,       \* the worker: "connect", "up", "wait"
    wait, delay, streak,    \* its pause, what the next one builds on, DNS errors in a row
    heard,      \* the age of the connection, and whether it brought a price
    age,        \* of the price
    calm,       \* time since the network last failed or the process started
    ban,        \* _klines_ban_until
    call,       \* each request for bars
    asked,      \* the pause that the exchange asked for
    excuse, refusals,       \* an answer out of order or a restart ended the pause
    relaunches

stream   == <<mode, wait, delay, streak, heard, age, calm>>
klines   == <<ban, call, asked, excuse, refusals>>
feedVars == <<stream, klines, relaunches>>

\* In units: a price is stale after 60 s, a silent connection counts as failed after 40 s,
\* reconnects wait 3 s at least, 5 s after a DNS error, and build on 30 s at most.
Stale     == 12
Silent    == 8
MinWait   == 1
DnsFloor  == 1
MaxDelay  == 6
MaxWait   == 12
Forever   == Stale + 1
\* The longest that one pause after a failure may last.
Patience  == MaxWait + 1

FeedInit ==
    /\ mode = "connect" /\ wait = 0 /\ delay = 1 /\ streak = 0
    /\ heard = [for |-> 0, price |-> FALSE] /\ age = Forever /\ calm = 0
    /\ relaunches = 0
    /\ ban = 0 /\ asked = 0 /\ excuse = FALSE /\ refusals = 0
    /\ call = [c \in Calls |-> "idle"]
-----------------------------------------------------------------------------
(* The worker.                                                               *)

Up(n, d) == (n + d - 1) \div d

\* 1.2 to the power of the DNS errors in a row, eight at most, in per cent.
Growth == <<120, 144, 173, 207, 249, 299, 358, 430>>

\* Mutant: the pause after DNS errors has no limit.
DnsWaitUnbounded(n) == Up(Max({delay, DnsFloor}) * Growth[Min({n, 8})], 100)
DnsWait(n) == Min({Up(Max({delay, DnsFloor}) * Growth[Min({n, 8})], 100), MaxWait})

Sleep(time, jitter) == mode' = "wait" /\ wait' = time + jitter

DnsError(jitter) ==
    /\ streak' = Min({streak + 1, 8})
    /\ Sleep(DnsWait(streak + 1), jitter)
    /\ delay' = Min({2 * delay, MaxDelay})
\* Mutant: what the pauses build on grows without limit.
FailureUnbounded(jitter) ==
    /\ streak' = 0
    /\ Sleep(Min({Max({MinWait, delay}), MaxWait}), jitter)
    /\ delay' = Min({Max({Up(3 * delay, 2), MinWait}), 2 * MaxDelay})
\* Errors of the network, and others.
Failure(jitter) ==
    /\ streak' = 0
    /\ Sleep(Max({MinWait, delay}), jitter)
    /\ delay' = Min({Max({Up(3 * delay, 2), MinWait}), MaxDelay})

Connect ==
    /\ mode = "connect"
    /\ \/ /\ mode' = "up" /\ heard' = [for |-> 0, price |-> FALSE]
          /\ UNCHANGED <<wait, delay, streak, calm>>
       \/ /\ \E jitter \in {0, 1} : DnsError(jitter) \/ Failure(jitter)
          /\ calm' = 0 /\ UNCHANGED heard
    /\ UNCHANGED <<age, klines, relaunches>>

\* markPriceUpdate: the first one of a connection ends the growth of the delays.
Receive ==
    /\ mode = "up" /\ age # 0
    /\ age' = 0
    /\ heard' = [heard EXCEPT !.price = TRUE]
    /\ IF heard.price THEN UNCHANGED <<delay, streak>> ELSE delay' = 1 /\ streak' = 0
    /\ UNCHANGED <<mode, wait, calm, klines, relaunches>>

\* A connection that is closed in order is opened again at once, unless it was silent for
\* long; an error is waited for.
Closed ==
    /\ mode = "up" /\ calm' = 0
    /\ \/ /\ ~heard.price /\ heard.for > Silent
          /\ \E jitter \in {0, 1} : Failure(jitter)
       \/ /\ heard.price \/ heard.for <= Silent
          /\ mode' = "connect" /\ UNCHANGED <<wait, delay, streak>>
    /\ UNCHANGED <<heard, age, klines, relaunches>>
Broken ==
    /\ mode = "up" /\ calm' = 0
    /\ \E jitter \in {0, 1} : Failure(jitter)
    /\ UNCHANGED <<heard, age, klines, relaunches>>

Wake ==
    /\ mode = "wait" /\ wait = 0 /\ mode' = "connect"
    /\ UNCHANGED <<wait, delay, streak, heard, age, calm, klines, relaunches>>
\* Time passes; a stream that is up and brings nothing is a failure of the network.
StreamTick ==
    /\ mode = "up" \/ (mode = "wait" /\ wait > 0)
    /\ wait' = IF mode = "wait" THEN wait - 1 ELSE wait
    /\ age' = Min({age + 1, Forever})
    /\ heard' = IF mode = "up" THEN [heard EXCEPT !.for = Min({@ + 1, Silent + 1})] ELSE heard
    /\ calm' = IF mode = "up" /\ age > 0 THEN 0 ELSE Min({calm + 1, Patience + 1})
    /\ UNCHANGED <<mode, delay, streak, klines, relaunches>>
StreamRestart ==
    /\ relaunches < MaxRelaunches /\ relaunches' = relaunches + 1
    /\ mode' = "connect" /\ wait' = 0 /\ delay' = 1 /\ streak' = 0 /\ calm' = 0
    /\ heard' = [for |-> 0, price |-> FALSE] /\ age' = Forever
    /\ UNCHANGED klines
StreamNext == Connect \/ Receive \/ Closed \/ Broken \/ Wake \/ StreamTick \/ StreamRestart
-----------------------------------------------------------------------------
(* Requests for bars.                                                        *)

StartCall(c) ==
    /\ call[c] = "idle" /\ ban = 0
    /\ call' = [call EXCEPT ![c] = "sent"]
    /\ UNCHANGED <<stream, ban, asked, excuse, refusals, relaunches>>
Answered(c) ==
    /\ call[c] = "sent" /\ call' = [call EXCEPT ![c] = "idle"]
    /\ UNCHANGED <<stream, ban, asked, excuse, refusals, relaunches>>

\* 418 and 429: the pause is the header's, or else 300 s and 60 s. An answer that comes
\* after the pause has begun sets it anew, and may make it shorter.
\* Mutant: the header is not read.
CooldownByStatus(status, header) == IF status = 418 THEN 60 ELSE 12
Cooldown(status, header) ==
    IF header > 0 THEN header ELSE IF status = 418 THEN 60 ELSE 12
Refused(c, status, header) ==
    /\ call[c] = "sent" /\ refusals < MaxRefusals
    /\ call' = [call EXCEPT ![c] = "idle"]
    /\ ban' = Cooldown(status, header)
    /\ asked' = Max({asked, header})
    /\ excuse' = (excuse \/ ban' < ban)
    /\ refusals' = refusals + 1
    /\ UNCHANGED <<stream, relaunches>>

Less(t) == IF t = 0 THEN 0 ELSE t - 1
BarsTick ==
    /\ ban' = Less(ban) /\ asked' = Less(asked) /\ excuse' = (excuse /\ asked' > 0)
    /\ UNCHANGED <<stream, call, refusals, relaunches>>
BarsRestart ==
    /\ relaunches < MaxRelaunches /\ relaunches' = relaunches + 1
    /\ ban' = 0 /\ call' = [c \in Calls |-> "idle"] /\ excuse' = TRUE
    /\ UNCHANGED <<stream, asked, refusals>>
BarsNext ==
    \/ \E c \in Calls : StartCall(c) \/ Answered(c)
                        \/ \E status \in {418, 429}, h \in Pauses : Refused(c, status, h)
    \/ BarsTick \/ BarsRestart

FeedSpec == FeedInit /\ [][StreamNext \/ BarsNext]_feedVars
-----------------------------------------------------------------------------
FeedTypeOK ==
    /\ mode \in {"connect", "up", "wait"} /\ wait \in 0..Patience
    /\ delay \in 1..MaxDelay /\ streak \in 0..8
    /\ age \in 0..Forever /\ calm \in 0..(Patience + 1)
    /\ call \in [Calls -> {"idle", "sent"}] /\ refusals \in 0..MaxRefusals

\* Whatever failures came before: when the network has been well for as long as one pause
\* can last, the price is as fresh as the stream can make it.
FeedRecovers == calm > Patience => age <= 1

\* No request for bars starts in the pause that the exchange asked for, unless an answer to
\* a request that was under way when the pause began, or a restart, ended it early.
PauseIsKept ==
    [][(\E c \in Calls : call[c] = "idle" /\ call'[c] = "sent") => asked = 0 \/ excuse]_feedVars
=============================================================================
