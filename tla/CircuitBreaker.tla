--------------------------- MODULE CircuitBreaker ---------------------------
(***************************************************************************)
(* core/circuit_breaker.rs: concurrent callers of CircuitBreaker::execute. *)
(*                                                                         *)
(* `execute` takes the lock twice, once to decide and once to record the   *)
(* result, and awaits the wrapped call in between with the lock free.      *)
(* Each critical section is one action; between the two the caller is in   *)
(* flight, any other caller may run, time may pass, and the future may be  *)
(* dropped, in which case neither on_success nor on_failure ever runs.     *)
(***************************************************************************)
EXTENDS BreakerRules, FiniteSets

CONSTANT Callers

VARIABLES
    inner,      \* the Inner behind the mutex
    in_flight,  \* callers that await the call they were let make
    \* history, read by the properties alone
    stale,      \* those in flight since before the breaker last opened
    trials,     \* those in flight that were let through half-open
    fail_age    \* ticks since the last failure recorded, up to ResetTimeout

vars == <<inner, in_flight, stale, trials, fail_age>>

TypeOK ==
    /\ inner \in Breaker
    /\ in_flight \in SUBSET Callers
    /\ stale \in SUBSET in_flight
    /\ trials \in SUBSET in_flight
    /\ fail_age \in Ages

Init ==
    /\ inner = FreshBreaker
    /\ in_flight = {}
    /\ stale = {}
    /\ trials = {}
    /\ fail_age = ResetTimeout

-----------------------------------------------------------------------------
\* The first critical section lets the call through.
Begin(c) ==
    /\ c \notin in_flight
    /\ Admits(inner)
    /\ inner' = Admit(inner)
    /\ in_flight' = in_flight \cup {c}
    /\ trials' = IF inner'.state = "HalfOpen" THEN trials \cup {c} ELSE trials
    /\ UNCHANGED <<stale, fail_age>>

\* The first critical section returns Err(Open).
Rejected(c) ==
    /\ c \notin in_flight
    /\ ~Admits(inner)
    /\ inner' = Refuse(inner)
    /\ UNCHANGED <<in_flight, stale, trials, fail_age>>

Leave(c) ==
    /\ c \in in_flight
    /\ in_flight' = in_flight \ {c}
    /\ trials' = trials \ {c}

Succeed(c) ==
    /\ Leave(c)
    /\ inner' = OnSuccess(inner)
    /\ stale' = stale \ {c}
    /\ UNCHANGED fail_age

Fail(c) ==
    /\ Leave(c)
    /\ inner' = OnFailure(inner)
    /\ stale' = IF inner'.state = "Open" THEN in_flight' ELSE stale \ {c}
    /\ fail_age' = 0

\* The caller drops the future at its await.
Dropped(c) ==
    /\ Leave(c)
    /\ stale' = stale \ {c}
    /\ UNCHANGED <<inner, fail_age>>

Tick ==
    /\ inner' = Aged(inner)
    /\ fail_age' = Older(fail_age)
    /\ UNCHANGED <<in_flight, stale, trials>>

Next ==
    \/ Tick
    \/ \E c \in Callers : Begin(c) \/ Rejected(c) \/ Succeed(c) \/ Fail(c) \/ Dropped(c)

\* Time passes, callers keep coming, and a call in flight ends: the call the
\* program wraps sends finitely many requests, each under a timeout.
Fairness ==
    /\ WF_vars(Tick)
    /\ WF_vars(\E c \in Callers : Begin(c))
    /\ \A c \in Callers : WF_vars(Succeed(c) \/ Fail(c))

Spec     == Init /\ [][Next]_vars
FairSpec == Spec /\ Fairness

-----------------------------------------------------------------------------
\* The breaker is closed exactly while fewer than `failure_threshold` failures
\* were recorded since the last success, whatever the order in which calls
\* admitted closed, half-open or before an opening come back.
ClosedIffUnderThreshold ==
    inner.state = "Closed" <=> inner.failure_count < FailureThreshold

\* While the breaker is open, the reset timeout counts from the last failure
\* recorded, including that of a call admitted long before the opening.
OpenSinceLastFailure ==
    inner.state = "Open" => inner.opened_at = fail_age

\* A half-open breaker has seen no failure for a whole reset timeout: two
\* trial calls never straddle a failure.
HalfOpenAfterQuiet ==
    inner.state = "HalfOpen" => fail_age = ResetTimeout

\* Every call in flight under an open breaker started before it opened: none
\* slips through while it is open.
OpenSealsOffCalls ==
    inner.state = "Open" => in_flight = stale

\* Unless the breaker is closed, a call is let through only a whole reset
\* timeout after the last failure recorded.
NoCallSoonAfterFailure ==
    [][\A c \in Callers :
          c \in in_flight' \ in_flight /\ inner.state # "Closed"
             => fail_age = ResetTimeout]_vars

\* An open breaker does not refuse for ever: the calls still in flight can
\* restart its reset timeout, but only finitely often.
OpenIsLeft == inner.state = "Open" ~> inner.state # "Open"

\* The doc comment of CircuitBreaker: after the reset timeout ONE trial call
\* is let through to decide.  The code lets every call through half-open.
AtMostOneTrial == Cardinality(trials) <= 1
=============================================================================
