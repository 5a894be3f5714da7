------------------------------ MODULE RateLimits ------------------------------
(* The limits on how often an address may call (middleware/ratelimit.go).       *)
(* RateLimiter counts in Redis with one call and limits the counter's life with *)
(* a second one, whose error is dropped; AuthRateLimiter and ContactRateLimiter *)
(* count, limit and ban in one script. Time is a tick that every key with an    *)
(* expiry grows older by. Redis keys of different prefixes never meet: one      *)
(* counter and one script per address stand for all of them.                    *)
EXTENDS Integers, FiniteSets

CONSTANTS
  Address,       \* client IPs
  Visit,         \* requests under way
  MaxRequests,   \* requests per window
  Window,        \* ticks a counter lives
  BanTime,       \* ticks a ban lasts
  MaxCount,      \* bound: what a counter reaches
  MaxLostExpiry  \* bound: calls of EXPIRE that are lost

\* 1 minute against 15 and 5.
ASSUME LimitsAssumption ==
  /\ MaxRequests \in Nat \ {0} /\ Window \in Nat \ {0}
  /\ BanTime \in Nat /\ Window <= BanTime
  /\ MaxCount \in Nat /\ MaxLostExpiry \in Nat

VARIABLES
  hits,         \* ratelimit:<prefix>:<address>; count 0 for no key, ttl 0 for no expiry
  tries,        \* auth:rate:ip:<address>, contact:rate:ip:<address>
  ban,          \* auth:ban:ip:<address>, contact:ban:ip:<address>: what is left of it
  cookieBan,    \* auth:ban:cookie:<value> of the one cookie that several addresses send
  visit,        \* where a request is in its middleware
  lostExpiry    \* history: addresses whose EXPIRE was lost

limitVars == << hits, tries, ban, cookieBan, visit, lostExpiry >>

NoKey == [count |-> 0, ttl |-> 0]
Outside == [at |-> "outside"]
Inside == [at: {"expire"}, address: Address] \cup [at: {"script"}, address: Address, cookie: BOOLEAN]

LimitsInit ==
  /\ hits = [a \in Address |-> NoKey]
  /\ tries = [a \in Address |-> NoKey]
  /\ ban = [a \in Address |-> 0]
  /\ cookieBan = 0
  /\ visit = [v \in Visit |-> Outside]
  /\ lostExpiry = {}

Enter(v, step) == visit[v] = Outside /\ visit' = [visit EXCEPT ![v] = step]
Leave(v) == visit' = [visit EXCEPT ![v] = Outside]

-----------------------------------------------------------------------------
(* RateLimiter: two calls. *)

\* Mutant: the first request of a window finds a counter of 2.
CountFromTwo(v, a) ==
  /\ hits[a].count < MaxCount
  /\ hits' = [hits EXCEPT ![a].count = @ + 1]
  /\ IF hits[a].count = 1 THEN Enter(v, [at |-> "expire", address |-> a])
                          ELSE visit[v] = Outside /\ UNCHANGED visit
  /\ UNCHANGED << tries, ban, cookieBan, lostExpiry >>

\* INCR. Only the first request of a window goes on to limit the counter's life.
Count(v, a) ==
  /\ hits[a].count < MaxCount
  /\ hits' = [hits EXCEPT ![a].count = @ + 1]
  /\ IF hits[a].count = 0 THEN Enter(v, [at |-> "expire", address |-> a])
                          ELSE visit[v] = Outside /\ UNCHANGED visit
  /\ UNCHANGED << tries, ban, cookieBan, lostExpiry >>

\* EXPIRE; its error is dropped, and the process may die before it.
Expire(v) ==
  /\ visit[v].at = "expire"
  /\ \/ /\ hits' = [hits EXCEPT ![visit[v].address].ttl = IF hits[visit[v].address].count = 0 THEN 0 ELSE Window]
        /\ UNCHANGED lostExpiry
     \/ /\ Cardinality(lostExpiry) < MaxLostExpiry
        /\ lostExpiry' = lostExpiry \cup {visit[v].address}
        /\ UNCHANGED hits
  /\ Leave(v)
  /\ UNCHANGED << tries, ban, cookieBan >>

-----------------------------------------------------------------------------
(* AuthRateLimiter and ContactRateLimiter: a script. *)

\* EXISTS of the cookie's ban: a request that sends a banned cookie is refused
\* here. Nobody looks at a cookie for contacts.
PassCookie(v, a) ==
  /\ \E cookie \in BOOLEAN : /\ cookie => cookieBan = 0
                             /\ Enter(v, [at |-> "script", address |-> a, cookie |-> cookie])
  /\ UNCHANGED << hits, tries, ban, cookieBan, lostExpiry >>

\* Redis does not answer about the cookie: the script decides.
CookieUnknown(v, a) ==
  /\ Enter(v, [at |-> "script", address |-> a, cookie |-> TRUE])
  /\ UNCHANGED << hits, tries, ban, cookieBan, lostExpiry >>

\* Mutant: the script counts before it looks for a ban.
RunScriptCountFirst(v) ==
  /\ visit[v].at = "script"
  /\ LET a == visit[v].address
     IN /\ tries[a].count < MaxCount
        /\ tries' = [tries EXCEPT ![a] = [count |-> @.count + 1, ttl |-> IF @.count = 0 THEN Window ELSE @.ttl]]
        /\ IF ban[a] = 0 /\ tries[a].count >= MaxRequests
           THEN /\ ban' = [ban EXCEPT ![a] = BanTime]
                /\ cookieBan' = IF visit[v].cookie THEN BanTime ELSE cookieBan
           ELSE UNCHANGED << ban, cookieBan >>
  /\ Leave(v)
  /\ UNCHANGED << hits, lostExpiry >>

\* A banned address leaves no trace; whoever exceeds the limit is banned, and so
\* is the cookie.
RunScript(v) ==
  /\ visit[v].at = "script"
  /\ LET a == visit[v].address
     IN IF ban[a] > 0
        THEN UNCHANGED << tries, ban, cookieBan >>
        ELSE /\ tries' = [tries EXCEPT ![a] = [count |-> @.count + 1, ttl |-> IF @.count = 0 THEN Window ELSE @.ttl]]
             /\ IF tries[a].count >= MaxRequests
                THEN /\ ban' = [ban EXCEPT ![a] = BanTime]
                     /\ cookieBan' = IF visit[v].cookie THEN BanTime ELSE cookieBan
                ELSE UNCHANGED << ban, cookieBan >>
  /\ Leave(v)
  /\ UNCHANGED << hits, lostExpiry >>

\* Redis does not answer: the request is let through.
ScriptFails(v) ==
  /\ visit[v].at = "script"
  /\ Leave(v)
  /\ UNCHANGED << hits, tries, ban, cookieBan, lostExpiry >>

-----------------------------------------------------------------------------
(* Time. *)

Older(ttl) == IF ttl = 0 THEN 0 ELSE ttl - 1

\* A key goes with the last tick of its life; one without an expiry stays.
Aged(key) == IF key.ttl = 1 THEN NoKey ELSE [count |-> key.count, ttl |-> Older(key.ttl)]

Tick ==
  /\ hits' = [a \in Address |-> Aged(hits[a])]
  /\ tries' = [a \in Address |-> Aged(tries[a])]
  /\ ban' = [a \in Address |-> Older(ban[a])]
  /\ cookieBan' = Older(cookieBan)
  /\ UNCHANGED << visit, lostExpiry >>

LimitsNext ==
  \/ \E v \in Visit :
       \/ \E a \in Address : Count(v, a) \/ PassCookie(v, a) \/ CookieUnknown(v, a)
       \/ Expire(v) \/ RunScript(v) \/ ScriptFails(v)
  \/ Tick

LimitsSpec == LimitsInit /\ [][LimitsNext]_limitVars

-----------------------------------------------------------------------------
(* Properties. *)

LimitsTypeOK ==
  /\ hits \in [Address -> [count: Nat, ttl: 0..Window]]
  /\ tries \in [Address -> [count: Nat, ttl: 0..Window]]
  /\ ban \in [Address -> 0..BanTime]
  /\ cookieBan \in 0..BanTime
  /\ visit \in [Visit -> {Outside} \cup Inside]
  /\ lostExpiry \subseteq Address

\* A counter that nothing will ever remove is one whose EXPIRE was lost.
CountersEnd ==
  \A a \in Address :
    hits[a].count > 0 /\ hits[a].ttl = 0
    => a \in lostExpiry \/ \E v \in Visit : visit[v].at = "expire" /\ visit[v].address = a

\* Whoever is over the limit of the script is banned, so that when the ban is
\* over the requests that led to it are forgotten.
BansEnd == \A a \in Address : tries[a].count > MaxRequests => ban[a] > 0

\* A cookie is not refused for longer than an address that sent it.
CookieBansEnd == cookieBan > 0 => \E a \in Address : ban[a] >= cookieBan

\* Every refusal ends: a counter over the limit goes with its window unless an
\* EXPIRE was lost, and a ban ends with the requests and the cookies it was for
\* (RateLimiter, AuthRateLimiter, ContactRateLimiter). Stripe's webhook is
\* behind such a counter too.
RefusalsEnd == CountersEnd /\ BansEnd /\ CookieBansEnd

\* Why bans end: a counter of the script has an expiry, and if it is over the
\* limit it goes no later than the ban.
TriesAge ==
  \A a \in Address :
    /\ tries[a].count > 0 => tries[a].ttl > 0
    /\ tries[a].count > MaxRequests => tries[a].ttl <= ban[a]

LimitsInv == RefusalsEnd /\ TriesAge
=============================================================================
