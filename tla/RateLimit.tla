----------------------------- MODULE RateLimit -----------------------------
(***************************************************************************)
(* The rate limiter of the API (packages/server/src/middleware/            *)
(* rateLimit.js): a token bucket per API key, kept in Redis and updated by *)
(* one Lua script, with the time each API instance reads before the call.  *)
(*                                                                         *)
(* A bucket of one key.  Amounts are counted in 1/Minute of a token, so    *)
(* the refill of capacity/60000 tokens per ms is Capacity per unit of time *)
(* and a request takes Minute.                                             *)
(***************************************************************************)
EXTENDS Integers

CONSTANTS
  Capacity,    \* requests per minute
  Minute,      \* length of a minute
  Ttl,         \* after which Redis drops an unused bucket, two minutes
  MaxLag,      \* a request's time is at most this much behind Redis' clock
  MaxClock,    \* bound on time
  MaxRegress   \* bound on the time refilled twice

\* A request is evaluated within Ttl - Minute of the time it carries: clocks
\* that differ, a slow event loop and a slow call together.
ASSUME RateAssumption ==
  /\ Capacity \in Nat \ {0}
  /\ Minute \in Nat \ {0}
  /\ MaxLag \in Nat
  /\ Ttl \in Nat
  /\ Ttl >= Minute + MaxLag
  /\ MaxClock \in Nat
  /\ MaxRegress \in Nat

VARIABLES
  clock,       \* Redis' time
  present,     \* the key exists
  tokens, ts,  \* its fields; kept here after the key is dropped
  touched,     \* time of its last PEXPIRE
  since,       \* history: ts when the window under observation began
  granted,     \* history: requests let through in the window
  regressed    \* history: by how much ts went back in the window, in total

vars == <<clock, present, tokens, ts, touched, since, granted, regressed>>

Full == Capacity * Minute

Smaller(a, b) == IF a < b THEN a ELSE b
Larger(a, b) == IF a > b THEN a ELSE b

\* A variant with a bug: the bucket has no upper limit.
RefilledPastCapacity(now) ==
  IF present THEN tokens + Larger(0, now - ts) * Capacity ELSE Full

\* A variant with a bug: the operands of the subtraction are swapped.
RefilledBackwards(now) ==
  IF present THEN Smaller(Full, tokens + Larger(0, ts - now) * Capacity) ELSE Full

\* tokens before the request is charged
Refilled(now) ==
  IF present THEN Smaller(Full, tokens + Larger(0, now - ts) * Capacity) ELSE Full

Allowed(now) == Refilled(now) >= Minute

TypeOK ==
  /\ clock \in Nat
  /\ present \in BOOLEAN
  /\ tokens \in 0..Full
  /\ ts \in Int
  /\ touched \in Nat
  /\ since \in Int
  /\ granted \in Nat
  /\ regressed \in Nat

Init ==
  /\ clock = 0
  /\ present = FALSE
  /\ tokens = 0
  /\ ts = 0 - Minute - MaxLag
  /\ touched = 0
  /\ since = ts
  /\ granted = 0
  /\ regressed = 0

-----------------------------------------------------------------------------
\* rateLimitHandler: EVAL of the script with the time `now` of an instance
Request(now) ==
  /\ now \in (clock - MaxLag)..clock
  /\ regressed' = regressed + Larger(0, ts - now)
  /\ regressed' <= MaxRegress
  /\ tokens' = IF Allowed(now) THEN Refilled(now) - Minute ELSE Refilled(now)
  /\ granted' = IF Allowed(now) THEN granted + 1 ELSE granted
  /\ ts' = now
  /\ touched' = clock
  /\ present' = TRUE
  /\ UNCHANGED <<clock, since>>

\* PEXPIRE takes effect
Expire ==
  /\ present
  /\ clock >= touched + Ttl
  /\ present' = FALSE
  /\ UNCHANGED <<clock, tokens, ts, touched, since, granted, regressed>>

PassTime ==
  /\ clock < MaxClock
  /\ clock' = clock + 1
  /\ UNCHANGED <<present, tokens, ts, touched, since, granted, regressed>>

\* An observer begins a new window at any time.
StartWindow ==
  /\ since' = ts
  /\ granted' = 0
  /\ regressed' = 0
  /\ UNCHANGED <<clock, present, tokens, ts, touched>>

Next ==
  \/ \E now \in (clock - MaxLag)..clock : Request(now)
  \/ Expire
  \/ PassTime
  \/ StartWindow

Spec == Init /\ [][Next]_vars

-----------------------------------------------------------------------------
\* FR-8.2 (README): in any window of time a key gets at most Capacity requests
\* through, plus the refill for the length of the window.  The length is that
\* of the times the requests carry; whenever one carries an earlier time than
\* the one before, the bucket refills for the difference twice, which the bound
\* grants it.
RateBound ==
  granted * Minute + tokens <= Full + Capacity * (ts - since + regressed)

\* A client that has been silent for a minute, and the largest lag on top of it,
\* finds a full bucket, whichever instance it asks and whether or not Redis has
\* dropped the key.
IdleIsServed ==
  clock >= touched + Minute + MaxLag =>
    \A now \in (clock - MaxLag)..clock : Refilled(now) = Full

\* A time never runs ahead of Redis' clock, and a bucket is dropped only when
\* it would be full again.
DroppedWhenFull ==
  /\ ts <= touched
  /\ touched <= clock
  /\ ~present => clock >= ts + Minute + MaxLag

\* The inductive invariant behind RateBound and IdleIsServed.
BucketInvariant == TypeOK /\ DroppedWhenFull /\ RateBound
=============================================================================
