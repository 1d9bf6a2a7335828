------------------------------- MODULE RateLimiter -------------------------------
(***************************************************************************)
(* The fixed-window rate limiter in front of the public endpoints:         *)
(* rate_limit in src/app.rs.  The map is behind a mutex, so that one       *)
(* request's check is one action; the monotonic clock, which it reads      *)
(* twice, may run on between the two reads.  Time is counted in ticks and  *)
(* kept as ages, so that it is not bounded.                                *)
(***************************************************************************)
EXTENDS Integers, FiniteSets

CONSTANTS IP,           \* the client addresses
          Limit,        \* RATE_LIMIT_PER_MINUTE
          Window,       \* `window', in ticks of the clock
          MaxCount      \* bound of `count'

ASSUME LimitAssumption ==
  /\ Limit \in Nat \ {0} /\ Window \in Nat \ {0} /\ MaxCount \in Nat /\ MaxCount > Limit

Age == 0..Window

\* No entry in the map: the client has never come.
NoEntry == [age |-> Window, count |-> 0]

VARIABLES hits,     \* RATE_LIMIT_HITS: how long ago the window began, and its count
          served    \* how many requests of a client were passed on, by their age

limiterVars == <<hits, served>>

LimiterTypeOK ==
  /\ hits \in [IP -> [age : Age, count : 0..MaxCount]]
  /\ served \in [IP -> [Age -> Nat]]

LimiterInit ==
  /\ hits = [ip \in IP |-> NoEntry]
  /\ served = [ip \in IP |-> [n \in Age |-> 0]]

Older(age, n) == IF age + n > Window THEN Window ELSE age + n

\* What n more ticks, at most one, make of the entries and of the history.
Aged(n) == [ip \in IP |-> [hits[ip] EXCEPT !.age = Older(@, n)]]
Past(n) == [ip \in IP |-> [age \in Age |-> IF age < n THEN 0 ELSE served[ip][age - n]]]

ClockTick ==
  /\ hits' = Aged(1)
  /\ served' = Past(1)

\* Mutant: the count starts again, the window does not.
KeepsWindow(entry, n) ==
  IF entry.count = 0 THEN [age |-> n, count |-> 1]
  ELSE IF entry.age + n >= Window
         THEN [age |-> Older(entry.age, n), count |-> 1]
         ELSE [age |-> entry.age + n, count |-> entry.count + 1]

\* Mutant: without the reset.
NeverResets(entry, n) ==
  IF entry.count = 0 THEN [age |-> n, count |-> 1]
  ELSE [age |-> Older(entry.age, n), count |-> entry.count + 1]

\* The entry after one more request: or_insert, the reset, the increment.  A new
\* window begins at `now', elapsed() is read n ticks later.
Counted(entry, n) ==
  IF entry.count = 0 \/ entry.age + n >= Window
    THEN [age |-> n, count |-> 1]
    ELSE [age |-> entry.age + n, count |-> entry.count + 1]

\* Whether a request of the client is passed on.
Passes(ip, n) == Counted(hits[ip], n).count <= Limit

rate_limit(ip, n) ==
  /\ hits[ip].count < MaxCount
  /\ hits' = [Aged(n) EXCEPT ![ip] = Counted(hits[ip], n)]
  /\ served' = IF Passes(ip, n) THEN [Past(n) EXCEPT ![ip][0] = @ + 1] ELSE Past(n)

-----------------------------------------------------------------------------
(* Properties *)

\* The requests of these ages that were passed on, told apart by age and number.
PassedOn(ip, ages) == UNION {{<<age, i>> : i \in 1..served[ip][age]} : age \in ages}

ServedWithin(ip, ages) == Cardinality(PassedOn(ip, ages))

\* The limit is one per fixed window, and windows begin when the client says: in
\* a span of the length of a window that straddles two of them, a client may be
\* served twice the limit, but never more, wherever the span lies.
AtMostTwiceTheLimit == \A ip \in IP : ServedWithin(ip, 0..Window - 1) <= 2 * Limit

\* Nobody is refused on account of others or of what is long past: a client whose
\* next request would be refused has been served Limit times in the last Window
\* ticks, and the one begun.
RefusedOnlyAboveTheLimit ==
  \A ip \in IP : ~ Passes(ip, 0) => ServedWithin(ip, Age) >= Limit
=============================================================================
