------------------------ MODULE CircuitBreakerProofs ------------------------
(***************************************************************************)
(* Proofs about CircuitBreaker, for any set of callers, any threshold and  *)
(* any reset timeout.                                                      *)
(***************************************************************************)
EXTENDS CircuitBreaker, TLAPS

-----------------------------------------------------------------------------
(* What the rules return.                                                   *)

\* One tick keeps an age an age, and never takes the last one back.
LEMMA OlderIsAge ==
    ASSUME NEW age \in Ages
    PROVE  Older(age) \in Ages /\ (age = ResetTimeout => Older(age) = ResetTimeout)
BY BreakerAssumption DEF Older, Ages

\* The rules map breakers to breakers.
LEMMA RulesKeepBreaker ==
    ASSUME NEW b \in Breaker
    PROVE  /\ Admit(b) \in Breaker
           /\ OnSuccess(b) \in Breaker
           /\ OnFailure(b) \in Breaker
           /\ Aged(b) \in Breaker
<1>1. Admit(b) \in Breaker
  BY DEF Admit, Breaker, States
<1>2. OnSuccess(b) \in Breaker
  BY BreakerAssumption DEF OnSuccess, Breaker, States
<1>3. OnFailure(b) \in Breaker
  BY BreakerAssumption DEF OnFailure, Breaker, States, Ages
<1>4. Aged(b) \in Breaker
  BY OlderIsAge DEF Aged, Breaker
<1>5. QED
  BY <1>1, <1>2, <1>3, <1>4

\* What a failure does to a breaker whose state agrees with its count: it opens
\* it, with a fresh reset timeout, or leaves it closed under the threshold.
LEMMA FailureOpens ==
    ASSUME NEW b \in Breaker,
           b.state = "Closed" <=> b.failure_count < FailureThreshold
    PROVE  \/ /\ OnFailure(b).state = "Open"
              /\ OnFailure(b).opened_at = 0
              /\ OnFailure(b).failure_count >= FailureThreshold
           \/ /\ OnFailure(b).state = "Closed"
              /\ OnFailure(b).failure_count < FailureThreshold
<1> DEFINE n == IF b.failure_count < CountCap THEN b.failure_count + 1 ELSE CountCap
<1>1. /\ n \in 0..CountCap
      /\ b.failure_count >= FailureThreshold => n >= FailureThreshold
  BY BreakerAssumption DEF Breaker
<1>2. CASE b.state = "HalfOpen" \/ n >= FailureThreshold
  <2>1. OnFailure(b) = [state |-> "Open", failure_count |-> n, opened_at |-> 0]
    BY <1>2 DEF OnFailure
  <2>2. n >= FailureThreshold
    BY <1>1, <1>2, BreakerAssumption DEF Breaker
  <2>3. QED
    BY <2>1, <2>2
<1>3. CASE ~(b.state = "HalfOpen" \/ n >= FailureThreshold)
  <2>1. OnFailure(b) = [b EXCEPT !.failure_count = n]
    BY <1>3 DEF OnFailure
  <2>2. b.state = "Closed" /\ n < FailureThreshold
    BY <1>1, <1>3, BreakerAssumption DEF Breaker
  <2>3. QED
    BY <2>1, <2>2 DEF Breaker
<1>4. QED
  BY <1>2, <1>3

-----------------------------------------------------------------------------
\* The conjunction that is inductive.  No part of it is inductive alone: that
\* a failure under an open breaker restarts the timeout needs the count to be
\* at the threshold already, and that a trial call follows a quiet time needs
\* the age of the opening to be that of the last failure.
IInv ==
    /\ TypeOK
    /\ ClosedIffUnderThreshold
    /\ OpenSinceLastFailure
    /\ HalfOpenAfterQuiet
    /\ OpenSealsOffCalls

LEMMA InitIInv == Init => IInv
BY BreakerAssumption
   DEF Init, IInv, TypeOK, FreshBreaker, Breaker, States, Ages,
       ClosedIffUnderThreshold, OpenSinceLastFailure, HalfOpenAfterQuiet, OpenSealsOffCalls

LEMMA BeginKeepsIInv ==
    ASSUME IInv, NEW c \in Callers, Begin(c)
    PROVE  IInv'
<1> USE DEF IInv
<1>1. inner \in Breaker /\ inner' = Admit(inner) /\ inner' \in Breaker
  BY RulesKeepBreaker DEF TypeOK, Begin
<1>2. inner'.failure_count = inner.failure_count /\ inner'.opened_at = inner.opened_at
  BY <1>1 DEF Admit, Breaker
<1>3. inner'.state = IF inner.state = "Open" THEN "HalfOpen" ELSE inner.state
  BY <1>1 DEF Admit, Breaker
<1>4. TypeOK'
  BY <1>1 DEF TypeOK, Begin
<1>5. ClosedIffUnderThreshold'
  BY <1>2, <1>3 DEF ClosedIffUnderThreshold
<1>6. inner'.state # "Open"
  BY <1>3
<1>7. HalfOpenAfterQuiet'
  <2>1. CASE inner.state = "Open"
    <3>1. fail_age >= ResetTimeout
      BY <2>1, <1>1, BreakerAssumption
      DEF Begin, Admits, Elapsed, OpenSinceLastFailure, TypeOK, Ages, Breaker
    <3>2. QED
      BY <3>1, BreakerAssumption DEF HalfOpenAfterQuiet, Begin, TypeOK, Ages
  <2>2. CASE inner.state # "Open"
    BY <2>2, <1>3 DEF HalfOpenAfterQuiet, Begin
  <2>3. QED
    BY <2>1, <2>2
<1>8. QED
  BY <1>4, <1>5, <1>6, <1>7 DEF OpenSinceLastFailure, OpenSealsOffCalls

LEMMA SucceedKeepsIInv ==
    ASSUME IInv, NEW c \in Callers, Succeed(c)
    PROVE  IInv'
<1> USE DEF IInv
<1>1. inner \in Breaker /\ inner' = OnSuccess(inner) /\ inner' \in Breaker
  BY RulesKeepBreaker DEF TypeOK, Succeed
<1>2. inner'.state = "Closed" /\ inner'.failure_count = 0
  BY <1>1 DEF OnSuccess, Breaker
<1>3. TypeOK'
  BY <1>1 DEF TypeOK, Succeed, Leave
<1>4. ClosedIffUnderThreshold'
  BY <1>2, BreakerAssumption DEF ClosedIffUnderThreshold
<1>5. QED
  BY <1>2, <1>3, <1>4 DEF OpenSinceLastFailure, HalfOpenAfterQuiet, OpenSealsOffCalls

LEMMA FailKeepsIInv ==
    ASSUME IInv, NEW c \in Callers, Fail(c)
    PROVE  IInv'
<1> USE DEF IInv
<1>1. inner \in Breaker /\ inner' = OnFailure(inner) /\ inner' \in Breaker
  BY RulesKeepBreaker DEF TypeOK, Fail
<1>2. \/ /\ inner'.state = "Open"
         /\ inner'.opened_at = 0
         /\ inner'.failure_count >= FailureThreshold
      \/ /\ inner'.state = "Closed"
         /\ inner'.failure_count < FailureThreshold
  BY <1>1, FailureOpens DEF ClosedIffUnderThreshold
<1>3. TypeOK'
  BY <1>1, BreakerAssumption DEF TypeOK, Fail, Leave, Ages
<1>4. ClosedIffUnderThreshold'
  BY <1>1, <1>2, BreakerAssumption DEF ClosedIffUnderThreshold, Breaker
<1>5. OpenSinceLastFailure' /\ HalfOpenAfterQuiet' /\ OpenSealsOffCalls'
  BY <1>2 DEF OpenSinceLastFailure, HalfOpenAfterQuiet, OpenSealsOffCalls, Fail
<1>6. QED
  BY <1>3, <1>4, <1>5

LEMMA DroppedKeepsIInv ==
    ASSUME IInv, NEW c \in Callers, Dropped(c)
    PROVE  IInv'
BY DEF IInv, TypeOK, Dropped, Leave, ClosedIffUnderThreshold, OpenSinceLastFailure,
       HalfOpenAfterQuiet, OpenSealsOffCalls

LEMMA TickKeepsIInv ==
    ASSUME IInv, Tick
    PROVE  IInv'
<1> USE DEF IInv
<1>1. inner \in Breaker /\ inner' = Aged(inner) /\ inner' \in Breaker
  BY RulesKeepBreaker DEF TypeOK, Tick
<1>2. inner'.state = inner.state /\ inner'.failure_count = inner.failure_count
  BY <1>1 DEF Aged, Breaker
<1>3. inner.opened_at # None => inner'.opened_at = Older(inner.opened_at)
  BY <1>1 DEF Aged, Breaker
<1>4. fail_age \in Ages /\ fail_age # None /\ fail_age' = Older(fail_age)
  BY BreakerAssumption DEF TypeOK, Tick, Ages
<1>5. TypeOK'
  BY <1>1, <1>4, OlderIsAge DEF TypeOK, Tick
<1>6. ClosedIffUnderThreshold'
  BY <1>2 DEF ClosedIffUnderThreshold
<1>7. OpenSinceLastFailure'
  BY <1>2, <1>3, <1>4 DEF OpenSinceLastFailure
<1>8. HalfOpenAfterQuiet'
  BY <1>2, <1>4, OlderIsAge DEF HalfOpenAfterQuiet
<1>9. OpenSealsOffCalls'
  BY <1>2 DEF OpenSealsOffCalls, Tick
<1>10. QED
  BY <1>5, <1>6, <1>7, <1>8, <1>9

LEMMA NextKeepsIInv == IInv /\ [Next]_vars => IInv'
<1> SUFFICES ASSUME IInv, [Next]_vars PROVE IInv'
  OBVIOUS
<1>1. CASE Tick
  BY <1>1, TickKeepsIInv
<1>2. ASSUME NEW c \in Callers, Begin(c) PROVE IInv'
  BY <1>2, BeginKeepsIInv
<1>3. ASSUME NEW c \in Callers, Rejected(c) PROVE IInv'
  BY <1>3 DEF Rejected, Refuse, IInv, TypeOK, ClosedIffUnderThreshold,
              OpenSinceLastFailure, HalfOpenAfterQuiet, OpenSealsOffCalls
<1>4. ASSUME NEW c \in Callers, Succeed(c) PROVE IInv'
  BY <1>4, SucceedKeepsIInv
<1>5. ASSUME NEW c \in Callers, Fail(c) PROVE IInv'
  BY <1>5, FailKeepsIInv
<1>6. ASSUME NEW c \in Callers, Dropped(c) PROVE IInv'
  BY <1>6, DroppedKeepsIInv
<1>7. CASE UNCHANGED vars
  BY <1>7 DEF vars, IInv, TypeOK, ClosedIffUnderThreshold,
              OpenSinceLastFailure, HalfOpenAfterQuiet, OpenSealsOffCalls
<1>8. QED
  BY <1>1, <1>2, <1>3, <1>4, <1>5, <1>6, <1>7 DEF Next

LEMMA Inductive == Spec => []IInv
BY InitIInv, NextKeepsIInv, PTL DEF Spec

\* The variables keep their types.
THEOREM TypeCorrect == Spec => []TypeOK
BY Inductive, PTL DEF IInv

\* A breaker is closed exactly while it counts fewer failures than its
\* threshold.  The half-open case of on_failure is thus never what opens it.
THEOREM ClosedByCount == Spec => []ClosedIffUnderThreshold
BY Inductive, PTL DEF IInv

\* The reset timeout of an open breaker counts from the last failure recorded.
THEOREM TimeoutFromLastFailure == Spec => []OpenSinceLastFailure
BY Inductive, PTL DEF IInv

\* A half-open breaker has recorded no failure for a whole reset timeout.
THEOREM TrialsFollowQuiet == Spec => []HalfOpenAfterQuiet
BY Inductive, PTL DEF IInv

\* No call starts and stays in flight under an open breaker.
THEOREM OpenAdmitsNothing == Spec => []OpenSealsOffCalls
BY Inductive, PTL DEF IInv

LEMMA StepIsQuiet ==
    ASSUME IInv, [Next]_vars, NEW c \in Callers,
           c \in in_flight' \ in_flight, inner.state # "Closed"
    PROVE  fail_age = ResetTimeout
<1>1. Begin(c)
  BY DEF Next, vars, Tick, Begin, Rejected, Succeed, Fail, Dropped, Leave
<1>2. CASE inner.state = "HalfOpen"
  BY <1>2 DEF IInv, HalfOpenAfterQuiet
<1>3. CASE inner.state = "Open"
  BY <1>1, <1>3, BreakerAssumption
  DEF Begin, Admits, Elapsed, IInv, OpenSinceLastFailure, TypeOK, Ages, Breaker
<1>4. QED
  BY <1>2, <1>3 DEF IInv, TypeOK, Breaker, States

\* After a failure that leaves the breaker other than closed, no call is let
\* through for a whole reset timeout.
THEOREM QuietAfterFailure == Spec => NoCallSoonAfterFailure
<1>1. IInv /\ [Next]_vars
        => [\A c \in Callers :
               c \in in_flight' \ in_flight /\ inner.state # "Closed"
                  => fail_age = ResetTimeout]_vars
  BY StepIsQuiet
<1>2. QED
  BY <1>1, Inductive, PTL DEF Spec, NoCallSoonAfterFailure
=============================================================================
