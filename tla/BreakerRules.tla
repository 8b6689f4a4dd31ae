---------------------------- MODULE BreakerRules ----------------------------
(***************************************************************************)
(* The transition rules of core/circuit_breaker.rs on one breaker's        *)
(* `Inner`, without its callers: what `execute` asks before the call, and  *)
(* what `on_success` and `on_failure` do after it.  CircuitBreaker puts    *)
(* concurrent callers around these rules.                                  *)
(*                                                                         *)
(* A breaker is the record [state, failure_count, opened_at].  The code    *)
(* keeps an Instant in `opened_at` and asks one question of it: has        *)
(* `reset_timeout` elapsed?  So `opened_at` holds here the age of that     *)
(* Instant, which stops at ResetTimeout, or None.  `failure_count`, a u32, *)
(* is only ever compared with the threshold, set to zero and incremented:  *)
(* all its values from CountCap on behave alike, and CountCap stands for   *)
(* them.  It is a bound of the model, not of the code.                     *)
(***************************************************************************)
EXTENDS Integers

CONSTANTS FailureThreshold,  \* failure_threshold
          ResetTimeout,      \* reset_timeout, in ticks of the clock
          CountCap,          \* where failure_count saturates
          None               \* opened_at before the first opening

ASSUME BreakerAssumption ==
    /\ FailureThreshold \in Nat \ {0}
    /\ ResetTimeout \in Nat \ {0}
    /\ CountCap \in Nat /\ CountCap >= FailureThreshold
    /\ None \notin Nat

States == {"Closed", "Open", "HalfOpen"}
Ages   == 0..ResetTimeout

Breaker == [state         : States,
            failure_count : 0..CountCap,
            opened_at     : Ages \cup {None}]

FreshBreaker == [state |-> "Closed", failure_count |-> 0, opened_at |-> None]

\* `opened_at.map(|at| at.elapsed()).unwrap_or_default()`
Elapsed(b) == IF b.opened_at = None THEN 0 ELSE b.opened_at

\* The test at the head of `execute`: only an open breaker refuses.
Admits(b) == b.state = "Open" => Elapsed(b) >= ResetTimeout

\* Mutant: the open state is left only by the call's result.
AdmitStaysOpen(b) == b

\* What `execute` leaves behind when it lets the call through.
Admit(b) == IF b.state = "Open" THEN [b EXCEPT !.state = "HalfOpen"] ELSE b

\* Mutant: a refused call restarts the reset timeout.
RefuseRestartsClock(b) == [b EXCEPT !.opened_at = 0]

\* What `execute` leaves behind when it refuses the call: nothing new.
Refuse(b) == b

\* Mutant: a success takes one failure off the count, which may be zero.
OnSuccessDecays(b) ==
    [state |-> "Closed", failure_count |-> b.failure_count - 1, opened_at |-> b.opened_at]

OnSuccess(b) == [state |-> "Closed", failure_count |-> 0, opened_at |-> b.opened_at]

\* Mutant: only a failure that finds the breaker closed opens it.
OnFailureNoRestart(b) ==
    LET n == IF b.failure_count < CountCap THEN b.failure_count + 1 ELSE CountCap
    IN  IF b.state = "HalfOpen" \/ (b.state = "Closed" /\ n >= FailureThreshold)
        THEN [state |-> "Open", failure_count |-> n, opened_at |-> 0]
        ELSE [b EXCEPT !.failure_count = n]

\* Mutant: a failed trial call does not open the breaker again.
OnFailureKeepsHalfOpen(b) ==
    LET n == IF b.failure_count < CountCap THEN b.failure_count + 1 ELSE CountCap
    IN  IF b.state # "HalfOpen" /\ n >= FailureThreshold
        THEN [state |-> "Open", failure_count |-> n, opened_at |-> 0]
        ELSE [b EXCEPT !.failure_count = n]

OnFailure(b) ==
    LET n == IF b.failure_count < CountCap THEN b.failure_count + 1 ELSE CountCap
    IN  IF b.state = "HalfOpen" \/ n >= FailureThreshold
        THEN [state |-> "Open", failure_count |-> n, opened_at |-> 0]
        ELSE [b EXCEPT !.failure_count = n]

\* One tick of an age that stops at ResetTimeout.
Older(age) == IF age < ResetTimeout THEN age + 1 ELSE age

\* One tick of the monotonic clock, as `opened_at` sees it.
Aged(b) == IF b.opened_at = None THEN b ELSE [b EXCEPT !.opened_at = Older(@)]
=============================================================================
