-------------------------- MODULE RateLimitProofs --------------------------
(***************************************************************************)
(* For every capacity, length of a minute and lag the TTL has room for: a  *)
(* key never gets more through than its bucket and the refill allow, and a *)
(* client that was silent for a minute is not turned away.                 *)
(***************************************************************************)
EXTENDS RateLimit, TLAPS

\* A bucket never holds more than Full, and never less than nothing.
LEMMA RefilledRange ==
  ASSUME TypeOK, NEW now \in Int
  PROVE  Refilled(now) \in 0..Full /\ Full \in Nat
<1>1. Full \in Nat
  BY RateAssumption DEF Full
<1>2. Larger(0, now - ts) \in Nat
  BY DEF TypeOK, Larger
<1>3. Larger(0, now - ts) * Capacity \in Nat
  BY <1>2, RateAssumption
<1> QED
  BY <1>1, <1>3 DEF TypeOK, Refilled, Smaller

\* What refilling adds is paid for by the time that passes, and by the time
\* that passes twice.
LEMMA RefillIsPaid ==
  ASSUME BucketInvariant, NEW now \in (clock - MaxLag)..clock
  PROVE  granted * Minute + Refilled(now)
           <= Full + Capacity * (now - since + regressed + Larger(0, ts - now))
<1> DEFINE fresh == Larger(0, now - ts)
           back == Larger(0, ts - now)
<1>1. /\ now \in Int /\ ts \in Int /\ since \in Int /\ clock \in Nat
      /\ regressed \in Nat /\ granted \in Nat /\ Minute \in Nat /\ Capacity \in Nat
      /\ tokens \in Int /\ 0 <= tokens /\ MaxLag \in Nat
  BY RateAssumption, RefilledRange DEF BucketInvariant, TypeOK
<1>2. Full \in Nat /\ granted * Minute \in Nat
  BY <1>1 DEF Full
<1>3. /\ fresh \in Nat /\ back \in Nat
      /\ fresh + ts = now + back
  BY <1>1 DEF Larger
<1>4. granted * Minute + tokens <= Full + Capacity * (ts - since + regressed)
  BY DEF BucketInvariant, RateBound
<1>5. now - since + regressed + back = (ts - since + regressed) + fresh
  <2> HIDE DEF fresh, back
  <2> QED
    BY <1>1, <1>3
<1> DEFINE held == ts - since + regressed
<1>6. held \in Int
  BY <1>1
<1>7. Capacity * (held + fresh) = Capacity * held + fresh * Capacity
  <2> HIDE DEF held, fresh
  <2> QED
    BY <1>1, <1>3, <1>6
<1>8. Capacity * held \in Int /\ fresh * Capacity \in Nat
  <2> HIDE DEF held, fresh
  <2> QED
    BY <1>1, <1>3, <1>6
<1>9. CASE present
  <2>1. Refilled(now) <= tokens + fresh * Capacity
    BY <1>1, <1>2, <1>8, <1>9 DEF Refilled, Smaller
  <2>2. Refilled(now) \in Int
    BY <1>1, <1>2, RefilledRange DEF BucketInvariant
  <2> HIDE DEF held, fresh, back
  <2> QED
    BY <1>1, <1>2, <1>4, <1>5, <1>7, <1>8, <2>1, <2>2 DEF held, back
<1>10. CASE ~present
  <2>1. Refilled(now) = Full
    BY <1>10 DEF Refilled
  <2>2. fresh >= Minute
    BY <1>1, <1>10 DEF BucketInvariant, DroppedWhenFull, Larger
  <2>3. fresh * Capacity >= Full
    <3> HIDE DEF fresh
    <3> QED
      BY <1>1, <1>3, <2>2 DEF Full
  <2> HIDE DEF held, fresh, back
  <2> QED
    BY <1>1, <1>2, <1>4, <1>5, <1>7, <1>8, <2>1, <2>3 DEF held, back
<1> QED
  BY <1>9, <1>10

\* No bucket exists at the start.
LEMMA BucketInit == Init => BucketInvariant
<1> SUFFICES ASSUME Init PROVE BucketInvariant
  OBVIOUS
<1>1. Full \in Nat
  BY RateAssumption DEF Full
<1>2. Minute \in Nat /\ MaxLag \in Nat
  BY RateAssumption
<1>3. ts \in Int /\ ts + Minute + MaxLag = 0 /\ ts <= 0
  BY <1>2 DEF Init
<1>4. TypeOK /\ DroppedWhenFull
  <2>1. clock = 0 /\ present = FALSE /\ tokens = 0 /\ touched = 0 /\ since = ts
        /\ granted = 0 /\ regressed = 0
    BY DEF Init
  <2>2. TypeOK
    <3>1. present \in BOOLEAN
      BY <2>1
    <3>2. tokens \in 0..Full /\ clock \in Nat /\ touched \in Nat /\ since \in Int
          /\ granted \in Nat /\ regressed \in Nat
      BY <1>1, <1>3, <2>1
    <3> QED
      BY <1>3, <3>1, <3>2 DEF TypeOK
  <2>3. clock >= ts + Minute + MaxLag
    BY <1>2, <1>3, <2>1
  <2> QED
    BY <1>3, <2>1, <2>2, <2>3 DEF DroppedWhenFull
<1>5. ts - since + regressed = 0 /\ granted * Minute + tokens = 0
  BY <1>2, <1>3 DEF Init
<1>6. RateBound
  BY <1>1, <1>5, RateAssumption DEF RateBound
<1> QED
  BY <1>4, <1>6 DEF BucketInvariant

\* Every step keeps the invariant.
LEMMA BucketStep == BucketInvariant /\ [Next]_vars => BucketInvariant'
<1> SUFFICES ASSUME BucketInvariant, [Next]_vars PROVE BucketInvariant'
  OBVIOUS
<1>0. Full' = Full /\ Full \in Nat
  BY RateAssumption DEF Full
<1>1. ASSUME NEW now \in (clock - MaxLag)..clock, Request(now) PROVE BucketInvariant'
  <2>1. /\ now \in Int /\ now <= clock /\ clock \in Nat /\ ts \in Int /\ since \in Int
        /\ regressed \in Nat /\ granted \in Nat
        /\ Minute \in Nat /\ Capacity \in Nat
    BY <1>1, RateAssumption DEF BucketInvariant, TypeOK
  <2>2. Refilled(now) \in 0..Full
    BY <2>1, RefilledRange DEF BucketInvariant
  <2>3. Larger(0, ts - now) \in Nat
    BY <2>1 DEF Larger
  <2>4. tokens' \in 0..Full /\ granted' \in Nat
    BY <1>1, <1>0, <2>1, <2>2 DEF Request, Allowed
  <2>5. TypeOK' /\ DroppedWhenFull'
    BY <1>0, <1>1, <2>1, <2>3, <2>4 DEF Request, BucketInvariant, TypeOK, DroppedWhenFull
  <2>6. granted' * Minute + tokens' = granted * Minute + Refilled(now)
    <3>1. (granted + 1) * Minute = granted * Minute + Minute
      BY <2>1
    <3>2. granted * Minute \in Nat
      BY <2>1
    <3> QED
      BY <1>1, <2>1, <2>2, <3>1, <3>2 DEF Request
  <2>7. ts' - since' + regressed' = now - since + regressed + Larger(0, ts - now)
    BY <1>1, <2>1, <2>3 DEF Request
  <2>8. RateBound'
    BY <1>0, <2>6, <2>7, RefillIsPaid DEF RateBound
  <2> QED
    BY <2>5, <2>8 DEF BucketInvariant
<1>2. CASE Expire
  <2>1. TypeOK' /\ RateBound'
    BY <1>0, <1>2 DEF Expire, BucketInvariant, TypeOK, RateBound
  <2>2. DroppedWhenFull'
    BY <1>2, RateAssumption DEF Expire, BucketInvariant, TypeOK, DroppedWhenFull
  <2> QED
    BY <2>1, <2>2 DEF BucketInvariant
<1>3. CASE PassTime
  <2>1. TypeOK' /\ RateBound'
    BY <1>0, <1>3 DEF PassTime, BucketInvariant, TypeOK, RateBound
  <2>2. DroppedWhenFull'
    BY <1>3, RateAssumption DEF PassTime, BucketInvariant, TypeOK, DroppedWhenFull
  <2> QED
    BY <2>1, <2>2 DEF BucketInvariant
<1>4. CASE StartWindow
  <2>1. TypeOK' /\ DroppedWhenFull'
    BY <1>0, <1>4 DEF StartWindow, BucketInvariant, TypeOK, DroppedWhenFull
  <2>2. ts' - since' + regressed' = 0 /\ granted' * Minute = 0
    BY <1>4, RateAssumption DEF StartWindow, BucketInvariant, TypeOK
  <2>3. tokens' \in 0..Full
    BY <1>4 DEF StartWindow, BucketInvariant, TypeOK
  <2>4. RateBound'
    BY <1>0, <2>2, <2>3, RateAssumption DEF RateBound
  <2> QED
    BY <2>1, <2>4 DEF BucketInvariant
<1>5. CASE UNCHANGED vars
  BY <1>0, <1>5 DEF vars, BucketInvariant, TypeOK, DroppedWhenFull, RateBound
<1> QED
  BY <1>1, <1>2, <1>3, <1>4, <1>5 DEF Next

\* A bucket nobody used for a minute is full.
LEMMA SilentBucketIsFull == BucketInvariant => IdleIsServed
<1> SUFFICES ASSUME BucketInvariant, clock >= touched + Minute + MaxLag,
                    NEW now \in (clock - MaxLag)..clock
             PROVE  Refilled(now) = Full
  BY DEF IdleIsServed
<1>1. /\ now \in Int /\ ts \in Int /\ tokens \in Int /\ 0 <= tokens
      /\ Minute \in Nat /\ Capacity \in Nat /\ Full \in Nat
  BY RateAssumption, RefilledRange DEF BucketInvariant, TypeOK
<1>2. Larger(0, now - ts) \in Nat /\ Larger(0, now - ts) >= Minute
  BY <1>1, RateAssumption DEF BucketInvariant, TypeOK, DroppedWhenFull, Larger
<1>3. ASSUME NEW n \in Nat, n >= Minute PROVE n * Capacity >= Full /\ n * Capacity \in Nat
  BY <1>1, <1>3 DEF Full
<1>4. Larger(0, now - ts) * Capacity >= Full /\ Larger(0, now - ts) * Capacity \in Nat
  BY <1>2, <1>3
<1> QED
  BY <1>1, <1>4 DEF Refilled, Smaller

\* The bucket is within its bounds, and Redis only drops one that is full again,
\* so that the bucket a client starts over with grants nothing extra.
THEOREM BucketIsSound == Spec => []BucketInvariant
BY BucketInit, BucketStep, PTL DEF Spec

\* FR-8.2: over any window a key gets at most Capacity requests through plus the
\* refill for its length, for every capacity, minute and lag.
THEOREM RateIsBounded == Spec => []RateBound
<1>1. BucketInvariant => RateBound
  BY DEF BucketInvariant
<1> QED
  BY <1>1, BucketIsSound, PTL

\* FR-8.2: a client that was silent for a minute has its full burst.
THEOREM SilentClientIsServed == Spec => []IdleIsServed
BY BucketIsSound, SilentBucketIsFull, PTL
=============================================================================
