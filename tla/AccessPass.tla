------------------------------ MODULE AccessPass ------------------------------
(* Guest passes: a code that an administrator hands out and can extend or      *)
(* revoke, the row that stands for it (table access_passes), and the session   *)
(* cookies that its logins leave in browsers. Each request is one step of the  *)
(* event loop. A pass that slides is moved on by every visit.                  *)
EXTENDS Naturals, FiniteSets, FiniteSetsExt

CONSTANTS
    Guest,      \* browsers
    MaxPass,    \* passes that are issued
    Ttl,        \* lifetimes and extensions that an administrator asks for
    Days,       \* limits (max_days) on a pass that slides
    Slack,      \* _SLIDE_WRITE_THRESHOLD_SEC
    Long,       \* the life of a cookie whose pass has no limit
    Horizon     \* the clock of the model stops here

ASSUME AccessAssumption ==
    /\ {MaxPass, Long, Horizon} \subseteq Nat /\ Slack \in Nat \ {0}
    /\ Ttl \subseteq Nat \ {0} /\ Days \subseteq Nat \ {0}
    /\ \E longest \in Ttl : \A ttl \in Ttl : ttl <= longest
    /\ \E longest \in Days \union {Long} : \A days \in Days \union {Long} : days <= longest

VARIABLES
    now,
    passes,     \* the rows
    cookie,     \* of each browser
    visited,    \* when each pass last let somebody in
    granted,    \* until when an administrator let each pass live
    extended    \* browsers whose pass was extended by hand since they logged in

accessVars == <<now, passes, cookie, visited, granted, extended>>

PassId   == 1..MaxPass
Never    == Horizon + Max(Days \union {Long}) + 2 * Max(Ttl)
NoPass   == [issued |-> FALSE]
NoCookie == [pass |-> 0, exp |-> 0]
\* sliding = 0: the expiry is fixed; limit = Never: max_expires_at is NULL.
Row == [issued : {TRUE}, expires : 0..Never, sliding : {0} \union Ttl, limit : 0..Never,
        revoked : BOOLEAN]

AccessInit ==
    /\ now = 0
    /\ passes = [i \in PassId |-> NoPass]
    /\ cookie = [g \in Guest |-> NoCookie]
    /\ visited = [i \in PassId |-> 0] /\ granted = [i \in PassId |-> 0]
    /\ extended = {}

Issued == {i \in PassId : passes[i] # NoPass}
Active(i) == i \in Issued /\ ~passes[i].revoked /\ passes[i].expires > now

\* Ids are handed out in turn. Nothing asks for a lifetime that fits under the limit.
Create(ttl, sliding, days) ==
    /\ \E i \in PassId :
        /\ Issued = 1..(i - 1)
        /\ passes' = [passes EXCEPT ![i] =
               [issued |-> TRUE, expires |-> now + ttl, revoked |-> FALSE,
                sliding |-> IF sliding THEN ttl ELSE 0,
                limit |-> IF sliding /\ days # 0 THEN now + days ELSE Never]]
        /\ granted' = [granted EXCEPT ![i] = now + ttl]
    /\ UNCHANGED <<now, cookie, visited, extended>>

\* A visit moves the expiry on, never past the limit, and never back: an extension by hand
\* may have taken it further. Small moves are saved up.
\* Mutant: any move is made, backwards too.
SlideAnywhere(pass) ==
    IF pass.sliding = 0 THEN pass
    ELSE [pass EXCEPT !.expires = Min({now + pass.sliding, pass.limit})]
Slide(pass) ==
    LET target == Min({now + pass.sliding, pass.limit}) IN
    IF pass.sliding = 0 \/ target < pass.expires + Slack THEN pass
    ELSE [pass EXCEPT !.expires = target]

\* The cookie of a pass that slides lasts to the limit, or for long if there is none.
CookieEnd(pass) ==
    IF pass.sliding = 0 THEN pass.expires
    ELSE Max({pass.expires, IF pass.limit = Never THEN now + Long ELSE pass.limit})

\* With the code, typed in or in a link.
Login(g, i) ==
    /\ Active(i)
    /\ LET pass == Slide(passes[i]) IN
        /\ passes' = [passes EXCEPT ![i] = pass]
        /\ cookie' = [cookie EXCEPT ![g] = [pass |-> i, exp |-> CookieEnd(pass)]]
    /\ visited' = [visited EXCEPT ![i] = now]
    /\ extended' = extended \ {g}
    /\ UNCHANGED <<now, granted>>

\* The gate in front of every page: the cookie, then the row as it is now.
LoggedIn(g) == cookie[g].pass # 0 /\ cookie[g].exp > now
Visit(g) ==
    /\ LoggedIn(g) /\ Active(cookie[g].pass)
    /\ passes' = [passes EXCEPT ![cookie[g].pass] = Slide(@)]
    /\ visited' = [visited EXCEPT ![cookie[g].pass] = now]
    /\ UNCHANGED <<now, cookie, granted, extended>>
Logout(g) ==
    /\ cookie[g] # NoCookie
    /\ cookie' = [cookie EXCEPT ![g] = NoCookie]
    /\ UNCHANGED <<now, passes, visited, granted, extended>>

\* A pass that has expired comes to life again; one that was revoked does not.
\* Mutant: the limit stays where it is.
ExtendWithinLimit(i, hours) ==
    /\ i \in Issued /\ ~passes[i].revoked
    /\ passes' = [passes EXCEPT ![i].expires = Max({@, now}) + hours]
    /\ granted' = [granted EXCEPT ![i] = passes'[i].expires]
    /\ extended' = extended \union {g \in Guest : cookie[g].pass = i}
    /\ UNCHANGED <<now, cookie, visited>>
Extend(i, hours) ==
    /\ i \in Issued /\ ~passes[i].revoked
    /\ LET end == Max({passes[i].expires, now}) + hours IN
        /\ end < Never
        /\ passes' = [passes EXCEPT ![i].expires = end, ![i].limit = Max({@, end})]
        /\ granted' = [granted EXCEPT ![i] = end]
    /\ extended' = extended \union {g \in Guest : cookie[g].pass = i}
    /\ UNCHANGED <<now, cookie, visited>>
Revoke(i) ==
    /\ i \in Issued /\ ~passes[i].revoked
    /\ passes' = [passes EXCEPT ![i].revoked = TRUE]
    /\ UNCHANGED <<now, cookie, visited, granted, extended>>

AccessTick == now < Horizon /\ now' = now + 1 /\ UNCHANGED <<passes, cookie, visited, granted, extended>>

AccessNext ==
    \/ \E ttl \in Ttl, sliding \in BOOLEAN, days \in {0} \union Days : Create(ttl, sliding, days)
    \/ \E g \in Guest : Visit(g) \/ Logout(g) \/ \E i \in PassId : Login(g, i)
    \/ \E i \in PassId : Revoke(i) \/ \E hours \in Ttl : Extend(i, hours)
    \/ AccessTick
AccessSpec == AccessInit /\ [][AccessNext]_accessVars
-----------------------------------------------------------------------------
AccessTypeOK ==
    /\ now \in 0..Horizon
    /\ passes \in [PassId -> Row \union {NoPass}]
    /\ cookie \in [Guest -> [pass : 0..MaxPass, exp : 0..Never]]
    /\ visited \in [PassId -> 0..Horizon] /\ granted \in [PassId -> 0..Never] /\ extended \subseteq Guest

\* A pass that was issued with a lifetime beyond its limit and has not moved since.
BornBeyond(pass) ==
    \E days \in Days : days < pass.sliding /\ pass.expires + days = pass.limit + pass.sliding

\* No visit takes back what an administrator granted. A pass outlives its limit only if it
\* was issued so, and only an extension by hand moves the limit. One that slides lasts its time from the last visit,
\* short of the moves that were saved up. And a browser that logged in with a pass is let in for as long as
\* the pass is active: its cookie runs out first only if the pass was extended by hand
\* since the last login, or has no limit and the login is long ago.
PassesHold ==
    \A i \in Issued : LET pass == passes[i] IN
        /\ granted[i] <= pass.expires
        /\ pass.expires <= pass.limit \/ BornBeyond(pass)
        /\ pass.sliding # 0 =>
              pass.expires + Slack > Min({visited[i] + pass.sliding, pass.limit})
        /\ \A g \in Guest : (cookie[g].pass = i /\ Active(i) /\ ~LoggedIn(g)) =>
              g \in extended \/ (pass.sliding # 0 /\ pass.limit = Never)
=============================================================================
