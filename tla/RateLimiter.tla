---------------------------- MODULE RateLimiter ----------------------------
(***************************************************************************)
(* One token bucket: the Lua script of RateLimiter.consume, run by Redis   *)
(* as one step, for one key.  Tokens are kept in the units the script      *)
(* divides by: Window units are one token, and a millisecond adds Refill   *)
(* units, so the arithmetic is exact where Lua's is rounded.               *)
(*                                                                         *)
(* Bounds are stated about any stretch of time: since is a moment that may *)
(* be moved to the present at will, admitted counts from it.  A lost key   *)
(* (Redis restarted) and a clock set back start a new stretch.             *)
(***************************************************************************)
EXTENDS Integers

CONSTANTS
    Capacity,   \* tokens of a full bucket
    Refill,     \* tokens added in a window
    Window,     \* milliseconds of a window
    PerSecond,  \* milliseconds of a second: 1000
    Steps,      \* how far the clock may move at once
    MaxTime     \* bound on the clock

ASSUME LimiterAssumption ==
    /\ Capacity \in Nat \ {0} /\ Refill \in Nat \ {0} /\ Window \in Nat \ {0}
    /\ PerSecond \in Nat \ {0}
    /\ Steps \subseteq Nat \ {0} /\ MaxTime \in Nat

VARIABLES
    clock,      \* TIME of Redis, in milliseconds
    tokens,     \* HGET tokens, in units
    time,       \* HGET time
    expires,    \* when the key goes away
    delay,      \* what the last call returned: 0, or how long to wait
    since,      \* ghost: start of the stretch
    admitted    \* ghost: calls admitted in it

limiterVars == <<clock, tokens, time, expires, delay, since, admitted>>

FullBucket == Capacity * Window

LimiterTypeOK ==
    /\ clock \in Nat /\ time \in Nat /\ expires \in Nat /\ since \in Nat
    /\ tokens \in 0 .. FullBucket
    /\ delay \in Nat
    /\ admitted \in Nat

LimiterInit ==
    /\ clock = 0 /\ since = 0
    /\ tokens = FullBucket /\ time = 0 /\ expires = 0
    /\ delay = 0
    /\ admitted = 0

-----------------------------------------------------------------------------
(* Deliberately wrong variants, one step away from the code: a run in which  *)
(* one of them takes the place of its original must fail.                    *)

HalfLife(now) == now + (Window \div (2 * Refill)) \* for Expiry
RoundedDown(ms) == IF ms >= PerSecond THEN ms \div PerSecond ELSE 1  \* for RetryAfter

-----------------------------------------------------------------------------
Capped(units) == IF units > FullBucket THEN FullBucket ELSE units

Elapsed == IF clock > time THEN clock - time ELSE 0

\* A key that is missing, or has expired, stands for a full bucket.
Available ==
    IF clock >= expires THEN FullBucket ELSE Capped(tokens + Elapsed * Refill)

\* math.ceil of units over Refill.
Wait(units) == (units + Refill - 1) \div Refill

\* The header of a refusal, in seconds: at least one, and math.ceil of the script's result.
RetryAfter(ms) ==
    LET seconds == (ms + PerSecond - 1) \div PerSecond IN IF seconds > 1 THEN seconds ELSE 1

\* PEXPIRE with twice the time an empty bucket needs to fill.
Expiry(now) == now + Wait(2 * FullBucket)

Consume ==
    /\ IF Available >= Window
       THEN /\ tokens' = Available - Window
            /\ delay' = 0
            /\ admitted' = admitted + 1
       ELSE /\ tokens' = Available
            /\ delay' = Wait(Window - Available)
            /\ UNCHANGED admitted
    /\ time' = clock
    /\ expires' = Expiry(clock)
    /\ UNCHANGED <<clock, since>>

Advance(n) ==
    /\ clock + n <= MaxTime
    /\ clock' = clock + n
    /\ UNCHANGED <<tokens, time, expires, delay, since, admitted>>

\* A new stretch begins, now or, n > 0, with the clock set back.
Mark(n) ==
    /\ n <= clock
    /\ clock' = clock - n
    /\ since' = clock - n
    /\ admitted' = 0
    /\ UNCHANGED <<tokens, time, expires, delay>>

\* Redis comes back without its data.
LoseKey ==
    /\ tokens' = FullBucket /\ time' = clock /\ expires' = clock
    /\ since' = clock
    /\ admitted' = 0
    /\ delay' = 0
    /\ UNCHANGED clock

LimiterNext ==
    \/ Consume
    \/ \E n \in Steps : Advance(n)
    \/ \E n \in Steps \cup {0} : Mark(n)
    \/ LoseKey

LimiterSpec == LimiterInit /\ [][LimiterNext]_limiterVars

-----------------------------------------------------------------------------
(* Properties. *)

\* In any stretch of time no more calls are admitted than a full bucket and the
\* refill of that time allow: one at a boundary less would not do, and a key that
\* expired, or was read a millisecond before it would, gives nothing away.
AdmitsWithinRate == Window * admitted <= FullBucket + Refill * (clock - since)

\* Whoever was refused last and comes back after the seconds it was told gets its token,
\* though the header is rounded twice and the key may expire meanwhile; a second sooner it
\* would be refused again.
RetryAfterIsLeast ==
    delay > 0 =>
        /\ clock >= time + RetryAfter(delay) * PerSecond => Available >= Window
        /\ clock \in time .. time + (RetryAfter(delay) - 1) * PerSecond => Available < Window
=============================================================================
