----------------------------- MODULE RateLimiter -----------------------------
(***************************************************************************)
(* core/rate_limiter.rs: concurrent callers of RateLimiter::acquire.       *)
(*                                                                         *)
(* `acquire` reads the clock BEFORE it takes the lock, so the instant it   *)
(* prunes with, and records, may be older than the moment it is granted;   *)
(* another caller may have pruned and pushed with a younger one meanwhile. *)
(* Each is an action here: Arrive reads the clock, Acquire is the critical *)
(* section.  MaxSkew bounds how long a caller waits in between.            *)
(***************************************************************************)
EXTENDS Integers, FiniteSets

CONSTANTS Callers,
          Limit,      \* limit
          Window,     \* window, in ticks of the clock
          MaxSkew,    \* ticks between reading the clock and holding the lock, at most
          MaxTime,    \* bound on the clock
          MaxGrants   \* bound on the calls granted

ASSUME LimiterAssumption ==
    /\ Limit \in Nat
    /\ Window \in Nat \ {0}
    /\ MaxSkew \in Nat
    /\ MaxTime \in Nat
    /\ MaxGrants \in Nat

Times == 0..MaxTime

\* One granted call: a number to tell it from the others, the instant it was
\* recorded with, and the time it was granted.
Grant == [id : 1..MaxGrants, stamp : Times, at : Times]

VARIABLES
    clock,
    arrived,     \* callers between reading the clock and taking the lock
    now,         \* the instant each of them read
    timestamps,  \* the Vec behind the mutex
    granted      \* history: every call ever granted

vars == <<clock, arrived, now, timestamps, granted>>

TypeOK ==
    /\ clock \in Times
    /\ arrived \in SUBSET Callers
    /\ now \in [Callers -> Times]
    /\ granted \in SUBSET Grant
    /\ timestamps \in SUBSET granted

Init ==
    /\ clock = 0
    /\ arrived = {}
    /\ now = [c \in Callers |-> 0]
    /\ timestamps = {}
    /\ granted = {}

-----------------------------------------------------------------------------
\* Instant::duration_since, which is zero when `earlier` is the later one.
DurationSince(t, earlier) == IF t >= earlier THEN t - earlier ELSE 0

\* Mutant: an instant exactly one window old still counts.
RetainedTooLong(n) == {g \in timestamps : DurationSince(n, g.stamp) <= Window}

\* Mutant: an instant is dropped a tick before its window is over.
RetainedTooShort(n) == {g \in timestamps : DurationSince(n, g.stamp) < Window - 1}

\* `timestamps.retain(...)`
Retained(n) == {g \in timestamps : DurationSince(n, g.stamp) < Window}

\* Mutant: one call too many fits.
FullOffByOne(kept) == Cardinality(kept) > Limit

Full(kept) == Cardinality(kept) >= Limit

\* `let now = Instant::now();`
Arrive(c) ==
    /\ c \notin arrived
    /\ arrived' = arrived \cup {c}
    /\ now' = [now EXCEPT ![c] = clock]
    /\ UNCHANGED <<clock, timestamps, granted>>

\* The critical section, with room for one more.
Grants(c) ==
    LET g == [id |-> Cardinality(granted) + 1, stamp |-> now[c], at |-> clock]
    IN  /\ c \in arrived
        /\ Cardinality(granted) < MaxGrants
        /\ ~Full(Retained(now[c]))
        /\ arrived' = arrived \ {c}
        /\ timestamps' = Retained(now[c]) \cup {g}
        /\ granted' = granted \cup {g}
        /\ UNCHANGED <<clock, now>>

\* Mutant: a refused call is recorded like a granted one.
ExceededRecorded(c) ==
    LET g == [id |-> Cardinality(granted) + 1, stamp |-> now[c], at |-> clock]
    IN  /\ c \in arrived
        /\ Full(Retained(now[c]))
        /\ arrived' = arrived \ {c}
        /\ timestamps' = Retained(now[c]) \cup {g}
        /\ UNCHANGED <<clock, now, granted>>

\* The critical section, without: Err(RateLimitExceeded).  The pruning stays.
Exceeded(c) ==
    /\ c \in arrived
    /\ Full(Retained(now[c]))
    /\ arrived' = arrived \ {c}
    /\ timestamps' = Retained(now[c])
    /\ UNCHANGED <<clock, now, granted>>

Tick ==
    /\ clock < MaxTime
    /\ \A c \in arrived : clock < now[c] + MaxSkew
    /\ clock' = clock + 1
    /\ UNCHANGED <<arrived, now, timestamps, granted>>

Next ==
    \/ Tick
    \/ \E c \in Callers : Arrive(c) \/ Grants(c) \/ Exceeded(c)

Spec == Init /\ [][Next]_vars

-----------------------------------------------------------------------------
\* The calls granted during the last n ticks, the present one included.
GrantedDuring(n) == {g \in granted : g.at > clock - n}

\* What `acquire` guarantees about real time: at most `limit` calls granted in
\* any span of one window less the time a caller waits for the lock.
LimitPerUnskewedWindow == Cardinality(GrantedDuring(Window - MaxSkew)) <= Limit

\* The Vec never grows past the limit, so its memory and the scan are bounded.
BoundedMemory == Cardinality(timestamps) <= Limit

\* A call is refused only when `limit` calls were granted with instants less
\* than one window before its own: an instant pruned too late, or kept twice,
\* would refuse a caller within its rights.
RefusedOnlyOverLimit ==
    [][\A c \in Callers :
          c \in arrived \ arrived' /\ granted' = granted
             => Cardinality({g \in granted : now[c] - g.stamp < Window}) >= Limit]_vars

\* The doc comment of RateLimiter: at most `limit` calls per `window`.  A
\* caller that waited for the lock with an old instant breaks it.
LimitPerWindow == Cardinality(GrantedDuring(Window)) <= Limit
=============================================================================
