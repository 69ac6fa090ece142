------------------------------ MODULE RateLimit ------------------------------
(***************************************************************************)
(* enforce_write_rate_limit (api/rate_limit.py): the counter of one client *)
(* and path in Redis, charged by concurrent requests with two calls, INCR  *)
(* and EXPIRE, and the sliding window in memory when Redis fails.          *)
(***************************************************************************)
EXTENDS Integers, Sequences

CONSTANTS
    Charges,    \* requests in flight
    WriteLimit, \* the 60 requests a window admits
    Window,     \* the 60 seconds of a window, in ticks
    MaxCount,   \* bound: the counter in Redis
    MaxTime     \* bound: the clock

ASSUME LimitConstantsOK == WriteLimit \in Nat \ {0} /\ Window \in Nat /\ MaxTime \in Nat

VARIABLES
    count,    \* the counter, 0 when there is no key
    expires,  \* whether the key has an expiry
    charge,   \* where each request stands in _charge_redis
    hits,     \* the times in the memory window
    clock,
    broken    \* history: the last charge to end failed or was cut off

limitVars == <<count, expires, charge, hits, clock, broken>>

LimitInit ==
    /\ count = 0 /\ expires = FALSE
    /\ charge = [c \in Charges |-> "idle"]
    /\ hits = <<>> /\ clock = 0 /\ broken = FALSE

Move(c, step) == charge' = [charge EXCEPT ![c] = step]
Ends(c, badly) == Move(c, "idle") /\ broken' = badly

\* The first charge of a key goes on to EXPIRE, a later one looks at its TTL.
Incr(c) ==
    /\ charge[c] = "idle" /\ count < MaxCount
    /\ count' = count + 1
    /\ Move(c, IF count = 0 THEN "expire" ELSE "ttl")
    /\ UNCHANGED <<expires, hits, clock, broken>>
TtlUnrepaired(c) ==
    /\ charge[c] = "ttl"
    /\ Ends(c, FALSE)
    /\ UNCHANGED <<count, expires, hits, clock>>
\* A key without an expiry, left so by a charge cut off, is given one.
Ttl(c) ==
    /\ charge[c] = "ttl"
    /\ IF count > 0 /\ expires THEN Ends(c, FALSE) ELSE Move(c, "expire") /\ UNCHANGED broken
    /\ UNCHANGED <<count, expires, hits, clock>>
Expire(c) ==
    /\ charge[c] = "expire"
    /\ expires' = (count > 0)
    /\ Ends(c, FALSE)
    /\ UNCHANGED <<count, hits, clock>>

\* A call fails: _charge_memory drops what left the window, then admits up to
\* the limit.
Kept == SelectSeq(hits, LAMBDA h : clock - h <= Window)
FallBack(c) ==
    /\ hits' = IF Len(Kept) >= WriteLimit THEN Kept ELSE Append(Kept, clock)
    /\ Ends(c, TRUE)
    /\ UNCHANGED <<count, expires, clock>>
\* The process stops between two calls.
CutOff(c) ==
    /\ charge[c] # "idle"
    /\ Ends(c, TRUE)
    /\ UNCHANGED <<count, expires, hits, clock>>

KeyExpires ==
    /\ expires
    /\ count' = 0 /\ expires' = FALSE
    /\ UNCHANGED <<charge, hits, clock, broken>>
Tick ==
    /\ clock < MaxTime
    /\ clock' = clock + 1
    /\ UNCHANGED <<count, expires, charge, hits, broken>>

LimitNext ==
    \/ \E c \in Charges : Incr(c) \/ Ttl(c) \/ Expire(c) \/ FallBack(c) \/ CutOff(c)
    \/ KeyExpires \/ Tick
LimitSpec == LimitInit /\ [][LimitNext]_limitVars

-----------------------------------------------------------------------------
\* No client is locked out for good: a counter without an expiry is about to
\* be given one by a charge under way, unless the last charge failed or was cut
\* off, and then the next charge that ends gives it one, however the charges
\* and the expiry of the key interleave.
NoLockout ==
    (count > 0 /\ ~expires /\ \A c \in Charges : charge[c] = "idle") => broken
=============================================================================
