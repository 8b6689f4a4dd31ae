------------------------- MODULE CallPipelineProofs -------------------------
(***************************************************************************)
(* Proofs about CallPipeline, for any number of calls, any retry_attempts  *)
(* and any rate limits: the safety invariants, and that the pipeline       *)
(* implements CallContract.                                                *)
(***************************************************************************)
EXTENDS CallPipeline, SequenceTheorems, TLAPS

\* A call has reported exactly when it is done.
ReportedIffDone == \A c \in Calls : result[c] = "none" <=> pc[c] # "done"

Proper(c) == IF config.transport = "Http" THEN c ELSE Operator

\* What a call sends, or is about to, holds the proper credential, which makes
\* the request of one try of one call unique.
HeadersProper ==
    /\ \A c \in Calls : pc[c] \in {"sending", "awaiting"} => header[c] = Proper(c)
    /\ \A r \in sent : r.header = Proper(r.call)

\* Where a call is before its execution begins.
Before == {"new", "lookup", "waiting", "locked"}

\* The tries sent are those before the present one, and the present one only
\* while it is awaited or once the call is done.  The first is try 0.
TriesInOrder ==
    /\ \A r \in sent : r.n <= attempt[r.call]
    /\ \A c \in Calls : pc[c] \in {"sending", "awaiting"} => attempt[c] \in Tries
    /\ \A r \in sent : pc[r.call] = "sending" => r.n < attempt[r.call]
    /\ \A c \in Calls : pc[c] \in Before => attempt[c] = 0

\* A call sends nothing before it is let through, nor when it is refused.
Unsent(c) == \A r \in sent : r.call # c

UnsentUnlessExecuted ==
    \A c \in Calls :
        pc[c] \in Before \/ result[c] \in Refusals
            => Unsent(c)

\* Every answer is to a request that reached the API.
AnswersAreToReceived ==
    \A a \in answers : \E r \in received : r.call = a.call /\ r.n = a.n

\* The client stops at the first answer it gets.
ReadEndsCall ==
    \A a \in read : pc[a.call] = "done" /\ a.n = attempt[a.call]

CallsInv ==
    /\ Serialized
    /\ ReportedIffDone
    /\ HeadersProper
    /\ TriesInOrder
    /\ UnsentUnlessExecuted
    /\ AnswersAreToReceived
    /\ ReadEndsCall

IInv == TypeOK /\ OperatorStaysHome /\ CallsInv

-----------------------------------------------------------------------------
\* The two ways a step moves a call: on to another place, or to its end.
Moved(c, place) ==
    /\ pc' \in [Calls -> Places]
    /\ pc'[c] = place
    /\ \A d \in Calls \ {c} : pc'[d] = pc[d]

Ended(c, r) ==
    /\ Moved(c, "done")
    /\ result' \in [Calls -> Results]
    /\ result'[c] = r
    /\ \A d \in Calls \ {c} : result'[d] = result[d]
    /\ holder' \in Calls \cup {Nobody}
    /\ \A d \in Calls \ {c} : holder = d => holder' = d

\* Other calls keep their header and their attempt; c never goes back a try.
Forward(c) ==
    /\ attempt' \in [Calls -> 0..(RetryAttempts + 1)]
    /\ attempt'[c] >= attempt[c]
    /\ \A d \in Calls \ {c} : attempt'[d] = attempt[d] /\ header'[d] = header[d]

LEMMA GotoMoves ==
    ASSUME TypeOK, NEW c \in Calls, NEW place \in Places, Goto(c, place)
    PROVE  Moved(c, place)
BY DEF TypeOK, Goto, Moved

LEMMA FinishEnds ==
    ASSUME TypeOK, NEW c \in Calls, NEW r \in Results, Finish(c, r)
    PROVE  Ended(c, r)
<1>1. Moved(c, "done")
  BY GotoMoves DEF Finish, Places
<1>2. /\ result' \in [Calls -> Results]
      /\ result'[c] = r
      /\ \A d \in Calls \ {c} : result'[d] = result[d]
  BY DEF TypeOK, Finish
<1>3. /\ holder' \in Calls \cup {Nobody}
      /\ \A d \in Calls \ {c} : holder = d => holder' = d
  BY DEF TypeOK, Finish
<1>4. QED
  BY <1>1, <1>2, <1>3 DEF Ended

LEMMA SameForward ==
    ASSUME TypeOK, NEW c \in Calls, UNCHANGED <<attempt, header>>
    PROVE  Forward(c)
BY PipelineAssumption DEF TypeOK, Forward

\* A call that ends keeps the invariant when it is refused only with nothing
\* sent, and reads only the answer to its present try.
LEMMA EndKeepsCallsInv ==
    ASSUME TypeOK, CallsInv, NEW c \in Calls, NEW r \in Results \ {"none"},
           pc[c] # "done", Ended(c, r), Forward(c),
           UNCHANGED <<config, sent, received, answers>>,
           r \in Refusals => Unsent(c),
           \A a \in read' \ read : a.call = c /\ a.n = attempt'[c]
    PROVE  CallsInv'
<1> USE DEF CallsInv
<1>1. /\ \A d \in Calls \ {c} : pc'[d] = pc[d] /\ result'[d] = result[d]
      /\ \A d \in Calls \ {c} : holder = d => holder' = d
      /\ pc'[c] = "done" /\ result'[c] = r
  BY DEF Ended, Moved
<1>2. \A d \in Calls \ {c} : attempt'[d] = attempt[d] /\ header'[d] = header[d]
  BY DEF Forward
<1>3. /\ \A q \in sent : q.call \in Calls /\ q.n \in Tries
      /\ \A a \in read : a.call \in Calls
      /\ attempt[c] \in Nat /\ attempt'[c] \in Nat /\ attempt'[c] >= attempt[c]
  BY PipelineAssumption DEF TypeOK, Forward, Requests, Answers
<1>4. Serialized'
  BY <1>1 DEF Serialized, Working
<1>5. ReportedIffDone'
  BY <1>1 DEF ReportedIffDone
<1>6. HeadersProper'
  BY <1>1, <1>2 DEF HeadersProper, Proper
<1>7. TriesInOrder'
  <2>1. \A q \in sent : q.n <= attempt'[q.call]
    BY <1>2, <1>3, PipelineAssumption DEF TriesInOrder, Tries
  <2>2. \A d \in Calls : pc'[d] \in {"sending", "awaiting"} => attempt'[d] \in Tries
    BY <1>1, <1>2 DEF TriesInOrder
  <2>3. \A q \in sent : pc'[q.call] = "sending" => q.n < attempt'[q.call]
    BY <1>1, <1>2, <1>3 DEF TriesInOrder
  <2>4. \A d \in Calls : pc'[d] \in Before => attempt'[d] = 0
    BY <1>1, <1>2 DEF TriesInOrder, Before, Places
  <2>5. QED
    BY <2>1, <2>2, <2>3, <2>4 DEF TriesInOrder
<1>8. UnsentUnlessExecuted'
  BY <1>1 DEF UnsentUnlessExecuted, Unsent, Before
<1>9. AnswersAreToReceived'
  BY DEF AnswersAreToReceived
<1>10. ReadEndsCall'
  BY <1>1, <1>2, <1>3 DEF ReadEndsCall
<1>11. QED
  BY <1>4, <1>5, <1>6, <1>7, <1>8, <1>9, <1>10

\* A call that moves on without a request keeps the invariant when it works only
\* as the holder, and is ready to send only a next try with a proper header.
LEMMA MoveKeepsCallsInv ==
    ASSUME TypeOK, CallsInv, NEW c \in Calls, NEW place \in Places \ {"new", "done", "awaiting"},
           pc[c] # "done", Moved(c, place), Forward(c),
           UNCHANGED <<config, result, sent, received, answers, read>>,
           holder' = holder \/ (holder = Nobody /\ holder' = c),
           place \in Working => holder' = c,
           place # "sending" => Unsent(c) /\ attempt'[c] = 0,
           place = "sending" => /\ header'[c] = Proper(c)
                                /\ attempt'[c] \in Tries
                                /\ \A q \in sent : q.call = c => q.n < attempt'[c]
    PROVE  CallsInv'
<1> USE DEF CallsInv
<1>1. /\ \A d \in Calls \ {c} : pc'[d] = pc[d]
      /\ pc'[c] = place
  BY DEF Moved
<1>2. \A d \in Calls \ {c} : attempt'[d] = attempt[d] /\ header'[d] = header[d]
  BY DEF Forward
<1>3. /\ \A q \in sent : q.call \in Calls /\ q.n \in Tries
      /\ \A a \in read : a.call \in Calls
      /\ attempt[c] \in Nat /\ attempt'[c] \in Nat /\ attempt'[c] >= attempt[c]
  BY PipelineAssumption DEF TypeOK, Forward, Requests, Answers
<1>4. result[c] = "none"
  BY DEF ReportedIffDone
<1>5. Serialized'
  BY <1>1, PipelineAssumption DEF Serialized, Working
<1>6. ReportedIffDone'
  BY <1>1, <1>4 DEF ReportedIffDone
<1>7. HeadersProper'
  BY <1>1, <1>2 DEF HeadersProper, Proper, Places
<1>8. TriesInOrder'
  <2>1. \A q \in sent : q.n <= attempt'[q.call]
    BY <1>2, <1>3, PipelineAssumption DEF TriesInOrder, Tries
  <2>2. \A d \in Calls : pc'[d] \in {"sending", "awaiting"} => attempt'[d] \in Tries
    BY <1>1, <1>2 DEF TriesInOrder
  <2>3. \A q \in sent : pc'[q.call] = "sending" => q.n < attempt'[q.call]
    BY <1>1, <1>2, <1>3 DEF TriesInOrder
  <2>4. \A d \in Calls : pc'[d] \in Before => attempt'[d] = 0
    BY <1>1, <1>2 DEF TriesInOrder, Before, Places
  <2>5. QED
    BY <2>1, <2>2, <2>3, <2>4 DEF TriesInOrder
<1>9. UnsentUnlessExecuted'
  <2>1. "none" \notin Refusals
    BY DEF Refusals
  <2>2. \A d \in Calls \ {c} :
           pc'[d] \in Before \/ result'[d] \in Refusals
              => Unsent(d)
    BY <1>1 DEF UnsentUnlessExecuted
  <2>3. pc'[c] \in Before \/ result'[c] \in Refusals
              => Unsent(c)
    BY <1>1, <1>4, <2>1 DEF Before, Places
  <2>4. QED
    BY <2>2, <2>3 DEF UnsentUnlessExecuted, Unsent
<1>10. AnswersAreToReceived'
  BY DEF AnswersAreToReceived
<1>11. ReadEndsCall'
  BY <1>1, <1>2, <1>3 DEF ReadEndsCall
<1>12. QED
  BY <1>5, <1>6, <1>7, <1>8, <1>9, <1>10, <1>11

-----------------------------------------------------------------------------
LEMMA InitIInv == Init => IInv
<1> SUFFICES ASSUME Init PROVE IInv
  OBVIOUS
<1>1. FreshClient \in [breaker : Breaker, granted : Nat]
  BY BreakerAssumption DEF FreshClient, FreshBreaker, Breaker, States
<1>2. TypeOK
  BY <1>1, PipelineAssumption DEF Init, TypeOK, Places, Results
<1>3. CallsInv
  BY DEF Init, CallsInv, Serialized, ReportedIffDone, HeadersProper, TriesInOrder,
         UnsentUnlessExecuted, Unsent, AnswersAreToReceived, ReadEndsCall, Working, Before
<1>4. QED
  BY <1>2, <1>3 DEF Init, IInv, OperatorStaysHome

LEMMA ArriveKeepsIInv ==
    ASSUME IInv, NEW c \in Calls, Arrive(c)
    PROVE  IInv'
<1> USE DEF IInv
<1>1. Moved(c, "lookup") /\ Forward(c)
  BY GotoMoves, SameForward DEF Arrive, Places
<1>2. TypeOK'
  BY <1>1 DEF TypeOK, Arrive, Moved
<1>3. Unsent(c) /\ attempt'[c] = 0
  BY DEF Arrive, CallsInv, UnsentUnlessExecuted, TriesInOrder, Before
<1>4. CallsInv'
  BY <1>1, <1>3, MoveKeepsCallsInv DEF Arrive, Places, Working
<1>5. QED
  BY <1>2, <1>4 DEF Arrive, OperatorStaysHome

LEMMA UnauthorizedKeepsIInv ==
    ASSUME IInv, NEW c \in Calls, Unauthorized(c)
    PROVE  IInv'
<1> USE DEF IInv
<1>1. Ended(c, "unauthorized") /\ Forward(c)
  BY FinishEnds, SameForward DEF Unauthorized, Results, Refusals
<1>2. TypeOK'
  BY <1>1 DEF TypeOK, Unauthorized, Ended, Moved
<1>3. Unsent(c)
  BY DEF Unauthorized, CallsInv, UnsentUnlessExecuted, Before
<1>4. CallsInv'
  BY <1>1, <1>3, EndKeepsCallsInv DEF Unauthorized, Results, Refusals
<1>5. QED
  BY <1>2, <1>4 DEF Unauthorized, OperatorStaysHome

LEMMA LookupKeepsIInv ==
    ASSUME IInv, NEW c \in Calls, Lookup(c)
    PROVE  IInv'
<1> USE DEF IInv
<1>1. Moved(c, "waiting") /\ Forward(c)
  BY GotoMoves, SameForward DEF Lookup, Places
<1>2. TypeOK'
  BY <1>1 DEF TypeOK, Lookup, Moved
<1>3. Unsent(c) /\ attempt'[c] = 0
  BY DEF Lookup, CallsInv, UnsentUnlessExecuted, TriesInOrder, Before
<1>4. CallsInv'
  BY <1>1, <1>3, MoveKeepsCallsInv DEF Lookup, Places, Working
<1>5. QED
  BY <1>2, <1>4 DEF Lookup, OperatorStaysHome

LEMMA NotFoundKeepsIInv ==
    ASSUME IInv, NEW c \in Calls, NotFound(c)
    PROVE  IInv'
<1> USE DEF IInv
<1>1. Ended(c, "not_found") /\ Forward(c)
  BY FinishEnds, SameForward DEF NotFound, Results, Refusals
<1>2. TypeOK'
  BY <1>1 DEF TypeOK, NotFound, Ended, Moved
<1>3. Unsent(c)
  BY DEF NotFound, CallsInv, UnsentUnlessExecuted, Before
<1>4. CallsInv'
  BY <1>1, <1>3, EndKeepsCallsInv DEF NotFound, Results, Refusals
<1>5. QED
  BY <1>2, <1>4 DEF NotFound, OperatorStaysHome

LEMMA LockKeepsIInv ==
    ASSUME IInv, NEW c \in Calls, Lock(c)
    PROVE  IInv'
<1> USE DEF IInv
<1>1. Moved(c, "locked") /\ Forward(c)
  BY GotoMoves, SameForward DEF Lock, Places
<1>2. TypeOK'
  BY <1>1 DEF TypeOK, Lock, Moved
<1>3. Unsent(c) /\ attempt'[c] = 0
  BY DEF Lock, CallsInv, UnsentUnlessExecuted, TriesInOrder, Before
<1>4. CallsInv'
  BY <1>1, <1>3, MoveKeepsCallsInv DEF Lock, Places, Working
<1>5. QED
  BY <1>2, <1>4 DEF Lock, OperatorStaysHome

LEMMA InvalidKeepsIInv ==
    ASSUME IInv, NEW c \in Calls, Invalid(c)
    PROVE  IInv'
<1> USE DEF IInv
<1>1. Ended(c, "invalid") /\ Forward(c)
  BY FinishEnds, SameForward DEF Invalid, Results, Refusals
<1>2. TypeOK'
  BY <1>1 DEF TypeOK, Invalid, Ended, Moved
<1>3. Unsent(c)
  BY DEF Invalid, CallsInv, UnsentUnlessExecuted, Before
<1>4. CallsInv'
  BY <1>1, <1>3, EndKeepsCallsInv DEF Invalid, Results, Refusals
<1>5. QED
  BY <1>2, <1>4 DEF Invalid, OperatorStaysHome

\* The rules of the breaker that a call meets map breakers to breakers.
LEMMA RulesKeepBreaker ==
    ASSUME NEW b \in Breaker
    PROVE  Admit(b) \in Breaker /\ OnSuccess(b) \in Breaker /\ OnFailure(b) \in Breaker
<1>1. Admit(b) \in Breaker
  BY DEF Admit, Breaker, States
<1>2. OnSuccess(b) \in Breaker
  BY BreakerAssumption DEF OnSuccess, Breaker, States
<1>3. OnFailure(b) \in Breaker
  BY BreakerAssumption DEF OnFailure, Breaker, States, Ages
<1>4. QED
  BY <1>1, <1>2, <1>3

\* A new client is a client.
LEMMA NewClients ==
    /\ FreshClient \in [breaker : Breaker, granted : Nat]
    /\ [FreshClient EXCEPT !.granted = 1] \in [breaker : Breaker, granted : Nat]
    /\ [breaker |-> Admit(FreshBreaker), granted |-> 1] \in [breaker : Breaker, granted : Nat]
<1>1. FreshBreaker \in Breaker
  BY BreakerAssumption DEF FreshBreaker, Breaker, States
<1>2. QED
  BY <1>1, RulesKeepBreaker DEF FreshClient

LEMMA RefusedEarlyKeepsIInv ==
    ASSUME IInv, NEW c \in Calls, RefusedEarly(c)
    PROVE  IInv'
<1> USE DEF IInv
<1>1. PICK r \in {"rate_limited", "bad_url"} : Finish(c, r)
  BY DEF RefusedEarly, RateLimited, BadUrl
<1>2. Ended(c, r) /\ Forward(c)
  BY <1>1, FinishEnds, SameForward DEF RefusedEarly, RateLimited, BadUrl, Results, Refusals
<1>3. TypeOK'
  BY <1>2, NewClients DEF TypeOK, RefusedEarly, RateLimited, BadUrl, Ended, Moved
<1>4. Unsent(c)
  BY DEF RefusedEarly, RateLimited, BadUrl, CallsInv, UnsentUnlessExecuted, Before
<1>5. CallsInv'
  BY <1>2, <1>4, EndKeepsCallsInv DEF RefusedEarly, RateLimited, BadUrl, Results, Refusals
<1>6. QED
  BY <1>3, <1>5 DEF RefusedEarly, RateLimited, BadUrl, OperatorStaysHome

\* The header a call gets is the proper one or none.
LEMMA AuthHeaderProper ==
    ASSUME TypeOK, OperatorStaysHome, NEW c \in Calls, NEW found \in Lookups
    PROVE  /\ AuthHeader(c, found) \in {Proper(c), None}
           /\ AuthHeader(c, found) \in Credentials \cup {None}
           /\ config.transport = "Http" => AuthHeader(c, found) # Operator
BY PipelineAssumption DEF AuthHeader, Proper, Credentials

LEMMA ExecuteKeepsIInv ==
    ASSUME IInv, NEW c \in Calls, Execute(c)
    PROVE  IInv'
<1> USE DEF IInv
<1>1. PICK found \in Lookups :
         /\ header' = [header EXCEPT ![c] = AuthHeader(c, found)]
         /\ LET unsaved == config.transport = "Stdio" /\ found = "unsaved"
            IN  cached' = IF AuthHeader(c, found) = Operator \/ unsaved
                          THEN Operator ELSE cached
         /\ IF AuthHeader(c, found) # None /\ Admits(FreshBreaker)
            THEN Goto(c, "sending") /\ UNCHANGED <<holder, result>>
            ELSE Finish(c, IF AuthHeader(c, found) = None
                           THEN "no_credentials" ELSE "breaker_open")
  BY DEF Execute
<1> DEFINE h == AuthHeader(c, found)
<1>2. /\ h \in {Proper(c), None}
      /\ h \in Credentials \cup {None}
      /\ config.transport = "Http" => h # Operator
  BY AuthHeaderProper
<1> HIDE DEF h
<1>3. Forward(c)
  BY <1>1, PipelineAssumption DEF Execute, TypeOK, Forward
<1>4. /\ header' \in [Calls -> Credentials \cup {None}]
      /\ cached' \in {None, Operator}
      /\ header'[c] = h
  BY <1>1, <1>2 DEF TypeOK, h
<1>5. OperatorStaysHome'
  BY <1>1, <1>2 DEF Execute, OperatorStaysHome, h
<1>6. Unsent(c) /\ pc[c] = "locked" /\ holder = c
  BY DEF Execute, CallsInv, UnsentUnlessExecuted, Before, Serialized, Working
<1>7. CASE h # None /\ Admits(FreshBreaker)
  <2>1. Moved(c, "sending") /\ UNCHANGED <<holder, result>>
    BY <1>1, <1>7, GotoMoves DEF Places, h
  <2>2. TypeOK'
    BY <2>1, <1>4, NewClients DEF TypeOK, Execute, Moved
  <2>3. /\ header'[c] = Proper(c)
        /\ attempt'[c] \in Tries
        /\ \A q \in sent : q.call = c => q.n < attempt'[c]
    <3>1. attempt[c] = 0
      BY <1>6 DEF CallsInv, TriesInOrder, Before
    <3>2. QED
      BY <1>2, <1>4, <1>6, <1>7, <3>1, PipelineAssumption DEF Execute, Tries, Unsent
  <2>4. CallsInv'
    BY <2>1, <2>3, <1>3, <1>6, MoveKeepsCallsInv DEF Execute, Places, Working
  <2>5. QED
    BY <2>2, <2>4, <1>5
<1>8. CASE ~(h # None /\ Admits(FreshBreaker))
  <2>1. PICK r \in {"no_credentials", "breaker_open"} : Ended(c, r)
    BY <1>1, <1>8, FinishEnds DEF Results, Refusals, h
  <2>2. TypeOK'
    BY <2>1, <1>4, NewClients DEF TypeOK, Execute, Ended, Moved
  <2>3. CallsInv'
    BY <2>1, <1>3, <1>6, EndKeepsCallsInv DEF Execute, Results, Refusals
  <2>4. QED
    BY <2>2, <2>3, <1>5
<1>9. QED
  BY <1>7, <1>8

LEMMA SendKeepsIInv ==
    ASSUME IInv, NEW c \in Calls, Send(c)
    PROVE  IInv'
<1> USE DEF IInv, CallsInv
<1> DEFINE q == [call |-> c, n |-> attempt[c], header |-> header[c]]
<1>1. /\ pc[c] = "sending"
      /\ sent' = sent \cup {q}
      /\ UNCHANGED <<config, holder, cached, header, attempt, received, answers, result, read>>
  BY DEF Send
<1>2. Moved(c, "awaiting")
  BY GotoMoves DEF Send, Places
<1>3. pc'[c] = "awaiting" /\ \A d \in Calls \ {c} : pc'[d] = pc[d]
  BY <1>2 DEF Moved
<1>4. header[c] = Proper(c) /\ attempt[c] \in Tries /\ attempt[c] \in Nat
  BY <1>1, PipelineAssumption DEF HeadersProper, TriesInOrder, Tries
<1>5. q \in Requests
  BY <1>4 DEF Requests, Proper, Credentials
<1>6. TypeOK'
  BY <1>2, <1>5 DEF TypeOK, Send, Moved
<1>7. \A r \in sent : r.call \in Calls /\ r.n \in Nat
  BY PipelineAssumption DEF TypeOK, Requests, Tries
<1>8. Serialized'
  BY <1>1, <1>3 DEF Serialized, Working
<1>9. ReportedIffDone'
  BY <1>1, <1>3 DEF ReportedIffDone
<1>10. HeadersProper'
  BY <1>1, <1>3, <1>4 DEF HeadersProper, Proper
<1>11. TriesInOrder'
  <2>1. \A r \in sent' : r.n <= attempt'[r.call]
    BY <1>1, <1>4, <1>7 DEF TriesInOrder
  <2>2. \A r \in sent' : pc'[r.call] = "sending" => r.n < attempt'[r.call]
    BY <1>1, <1>3, <1>7 DEF TriesInOrder
  <2>3. \A d \in Calls : /\ pc'[d] \in {"sending", "awaiting"} => attempt'[d] \in Tries
                         /\ pc'[d] \in Before => attempt'[d] = 0
    BY <1>1, <1>3, <1>4 DEF TriesInOrder, Before
  <2>4. QED
    BY <2>1, <2>2, <2>3 DEF TriesInOrder
<1>12. UnsentUnlessExecuted'
  <2>1. result[c] = "none" /\ "none" \notin Refusals
    BY <1>1 DEF ReportedIffDone, Refusals
  <2>2. QED
    BY <1>1, <1>3, <2>1 DEF UnsentUnlessExecuted, Unsent, Before
<1>13. AnswersAreToReceived'
  BY <1>1 DEF AnswersAreToReceived
<1>14. ReadEndsCall'
  <2>1. \A a \in read : a.call \in Calls
    BY DEF TypeOK, Answers
  <2>2. QED
    BY <1>1, <1>3, <2>1 DEF ReadEndsCall
<1>15. QED
  BY <1>1, <1>6, <1>8, <1>9, <1>10, <1>11, <1>12, <1>13, <1>14 DEF OperatorStaysHome

\* What reading an answer, and recording it, leave.
LEMMA ReadStep ==
    ASSUME TypeOK, NEW c \in Calls, NEW status \in {"success", "error"}, Read(c, status)
    PROVE  /\ read' \in SUBSET answers
           /\ \A a \in read' \ read : a.call = c /\ a.n = attempt[c]
BY DEF TypeOK, Read

LEMMA RecordStep ==
    ASSUME TypeOK, NEW success \in BOOLEAN, Record(success)
    PROVE  client' \in [breaker : Breaker, granted : Nat] /\ streak' \in Nat
<1>1. /\ OnSuccess(client.breaker) \in Breaker
      /\ OnFailure(client.breaker) \in Breaker
  BY RulesKeepBreaker DEF TypeOK
<1>2. PICK b \in Breaker : client' = [client EXCEPT !.breaker = b]
  BY <1>1 DEF Record
<1>3. client' \in [breaker : Breaker, granted : Nat]
  BY <1>2 DEF TypeOK
<1>4. streak' \in Nat
  BY DEF TypeOK, Record
<1>5. QED
  BY <1>3, <1>4

\* Until its first try leaves, a call has sent nothing.
LEMMA UnsentAtFirst ==
    ASSUME IInv, NEW c \in Calls, pc[c] = "sending", attempt[c] = 0
    PROVE  Unsent(c)
<1> SUFFICES ASSUME NEW r \in sent, r.call = c PROVE FALSE
  BY DEF Unsent
<1>1. r.n \in Nat
  BY PipelineAssumption DEF IInv, TypeOK, Requests, Tries
<1>2. r.n < 0
  BY DEF IInv, CallsInv, TriesInOrder
<1>3. QED
  BY <1>1, <1>2

LEMMA BadMethodKeepsIInv ==
    ASSUME IInv, NEW c \in Calls, BadMethod(c)
    PROVE  IInv'
<1>1. Unsent(c)
  BY UnsentAtFirst DEF BadMethod
<1> USE DEF IInv
<1>2. Ended(c, "bad_method") /\ Forward(c)
  BY FinishEnds, SameForward DEF BadMethod, Results, Refusals
<1>3. client' \in [breaker : Breaker, granted : Nat]
  BY RulesKeepBreaker DEF TypeOK, BadMethod
<1>4. TypeOK'
  BY <1>2, <1>3 DEF TypeOK, BadMethod, Ended, Moved
<1>5. CallsInv'
  BY <1>1, <1>2, EndKeepsCallsInv DEF BadMethod, Results, Refusals
<1>6. QED
  BY <1>4, <1>5 DEF BadMethod, OperatorStaysHome

LEMMA RespondedKeepsIInv ==
    ASSUME IInv, NEW c \in Calls, Responded(c)
    PROVE  IInv'
<1> USE DEF IInv
<1>1. Ended(c, "ok") /\ Forward(c)
  BY FinishEnds, SameForward DEF Responded, Results
<1>2. /\ read' \in SUBSET answers
      /\ \A a \in read' \ read : a.call = c /\ a.n = attempt'[c]
  BY ReadStep DEF Responded
<1>3. TypeOK'
  BY <1>1, <1>2, RecordStep DEF TypeOK, Responded, Ended, Moved
<1>4. CallsInv'
  BY <1>1, <1>2, EndKeepsCallsInv DEF Responded, Results, Refusals
<1>5. QED
  BY <1>3, <1>4 DEF Responded, OperatorStaysHome

LEMMA StatusErrorKeepsIInv ==
    ASSUME IInv, NEW c \in Calls, StatusError(c)
    PROVE  IInv'
<1> USE DEF IInv
<1>1. Ended(c, "http_error") /\ Forward(c)
  BY FinishEnds, SameForward DEF StatusError, Results, Failures
<1>2. /\ read' \in SUBSET answers
      /\ \A a \in read' \ read : a.call = c /\ a.n = attempt'[c]
  BY ReadStep DEF StatusError
<1>3. TypeOK'
  BY <1>1, <1>2, RecordStep DEF TypeOK, StatusError, Ended, Moved
<1>4. CallsInv'
  BY <1>1, <1>2, EndKeepsCallsInv DEF StatusError, Results, Refusals, Failures
<1>5. QED
  BY <1>3, <1>4 DEF StatusError, OperatorStaysHome

LEMMA TransportErrorKeepsIInv ==
    ASSUME IInv, NEW c \in Calls, TransportError(c)
    PROVE  IInv'
<1> USE DEF IInv
<1>1. /\ pc[c] = "awaiting"
      /\ attempt' = [attempt EXCEPT ![c] = @ + 1]
      /\ UNCHANGED <<config, carries, queue, cached, header, sent, received, answers, read>>
  BY DEF TransportError
<1>2. attempt[c] \in Tries /\ attempt[c] \in Nat
  BY <1>1, PipelineAssumption DEF CallsInv, TriesInOrder, Tries
<1>3. attempt' \in [Calls -> 0..(RetryAttempts + 1)] /\ attempt'[c] = attempt[c] + 1
  BY <1>1, <1>2, PipelineAssumption DEF TypeOK, Tries
<1>4. Forward(c)
  BY <1>1, <1>2, <1>3 DEF TypeOK, Forward
<1>5. CASE attempt[c] + 1 > RetryAttempts
  <2>1. Ended(c, "unreachable") /\ Record(FALSE)
    BY <1>5, FinishEnds DEF TransportError, Results, Failures
  <2>2. TypeOK'
    BY <1>1, <1>3, <2>1, RecordStep DEF TypeOK, Ended, Moved
  <2>3. CallsInv'
    BY <1>1, <1>4, <2>1, EndKeepsCallsInv DEF Results, Refusals, Failures
  <2>4. QED
    BY <1>1, <2>2, <2>3 DEF OperatorStaysHome
<1>6. CASE ~(attempt[c] + 1 > RetryAttempts)
  <2>1. Goto(c, "sending") /\ UNCHANGED <<holder, client, result, streak>>
    BY <1>6 DEF TransportError
  <2>2. Moved(c, "sending")
    BY <2>1, GotoMoves DEF Places
  <2>3. TypeOK'
    BY <1>1, <1>3, <2>1, <2>2 DEF TypeOK, Moved
  <2>4. holder' = c
    BY <1>1, <2>1 DEF CallsInv, Serialized, Working
  <2>5. /\ header'[c] = Proper(c)
        /\ attempt'[c] \in Tries
        /\ \A r \in sent : r.call = c => r.n < attempt'[c]
    <3>1. header'[c] = Proper(c)
      BY <1>1 DEF CallsInv, HeadersProper
    <3>2. attempt'[c] \in Tries
      BY <1>2, <1>3, <1>6, PipelineAssumption DEF Tries
    <3>3. \A r \in sent : r.n \in Nat /\ (r.call = c => r.n <= attempt[c])
      BY PipelineAssumption DEF CallsInv, TriesInOrder, TypeOK, Requests, Tries
    <3>4. QED
      BY <1>2, <1>3, <3>1, <3>2, <3>3
  <2>6. CallsInv'
    BY <1>1, <1>4, <2>1, <2>2, <2>4, <2>5, MoveKeepsCallsInv DEF Places
  <2>7. QED
    BY <1>1, <2>3, <2>6 DEF OperatorStaysHome
<1>7. QED
  BY <1>5, <1>6

LEMMA ReceiveKeepsIInv ==
    ASSUME IInv, NEW r \in sent, Receive(r)
    PROVE  IInv'
<1> USE DEF IInv, CallsInv
<1>1. PICK status \in {"success", "error"} :
         answers' = answers \cup {[call |-> r.call, n |-> r.n, status |-> status]}
  BY DEF Receive
<1>2. r.call \in Calls /\ r.n \in Tries
  BY DEF TypeOK, Requests
<1>3. TypeOK'
  BY <1>1, <1>2 DEF TypeOK, Receive, Answers
<1>4. AnswersAreToReceived'
  BY <1>1 DEF AnswersAreToReceived, Receive
<1>5. QED
  BY <1>3, <1>4 DEF Receive, OperatorStaysHome, Serialized, ReportedIffDone, HeadersProper,
                    Proper, TriesInOrder, UnsentUnlessExecuted, Unsent, ReadEndsCall

LEMMA UnchangedKeepsIInv == IInv /\ UNCHANGED vars => IInv'
BY DEF vars, IInv, CallsInv, TypeOK, OperatorStaysHome, Serialized, ReportedIffDone,
       HeadersProper, Proper, TriesInOrder, UnsentUnlessExecuted, Unsent,
       AnswersAreToReceived, ReadEndsCall

LEMMA NextKeepsIInv == IInv /\ [Next]_vars => IInv'
<1> SUFFICES ASSUME IInv, [Next]_vars PROVE IInv'
  OBVIOUS
<1>1. ASSUME NEW c \in Calls, Arrive(c) \/ Unauthorized(c) PROVE IInv'
  BY <1>1, ArriveKeepsIInv, UnauthorizedKeepsIInv
<1>2. ASSUME NEW c \in Calls, Serve(c) PROVE IInv'
  BY <1>2, LookupKeepsIInv, NotFoundKeepsIInv, LockKeepsIInv, InvalidKeepsIInv,
     RefusedEarlyKeepsIInv, ExecuteKeepsIInv, BadMethodKeepsIInv, SendKeepsIInv,
     RespondedKeepsIInv, StatusErrorKeepsIInv, TransportErrorKeepsIInv DEF Serve
<1>3. ASSUME NEW r \in sent, Receive(r) PROVE IInv'
  BY <1>3, ReceiveKeepsIInv
<1>4. CASE UNCHANGED vars
  BY <1>4, UnchangedKeepsIInv
<1>5. QED
  BY <1>1, <1>2, <1>3, <1>4 DEF Next, Idle

LEMMA Inductive == Spec => []IInv
BY InitIInv, NextKeepsIInv, PTL DEF Spec

\* The variables keep their types.
THEOREM TypeCorrect == Spec => []TypeOK
BY Inductive, PTL DEF IInv

\* However many calls there are, only the holder of the auth mutex works.
THEOREM CallsAreSerialized == Spec => []Serialized
BY Inductive, PTL DEF IInv, CallsInv

\* Over HTTP the shared AuthManager never loads the operator's credential.
THEOREM OperatorIsNeverLoaded == Spec => []OperatorStaysHome
BY Inductive, PTL DEF IInv

\* Every request holds the credential of its own caller over HTTP, and the
\* operator's over stdio.
THEOREM CredentialsAreOwn == Spec => []OwnCredential
<1>1. IInv => OwnCredential
  BY DEF IInv, CallsInv, HeadersProper, Proper, OwnCredential
<1>2. QED
  BY <1>1, Inductive, PTL

\* A try whose answer the client got is its call's last.
THEOREM AnswersAreFinal == Spec => []AnswerIsFinal
<1>1. IInv => AnswerIsFinal
  BY DEF IInv, CallsInv, TriesInOrder, ReadEndsCall, AnswerIsFinal
<1>2. QED
  BY <1>1, Inductive, PTL

-----------------------------------------------------------------------------
(* Progress: the parts of it that no fairness is needed for.                *)

\* Each call that waits has one place in the queue, and nothing else has.
QueueExact ==
    /\ \A c \in Calls : pc[c] = "waiting" <=> \E i \in 1..Len(queue) : queue[i] = c
    /\ \A i, j \in 1..Len(queue) : i # j => queue[i] # queue[j]

HolderWorks == holder # Nobody => pc[holder] \in Working

QueueInv == QueueExact /\ HolderWorks

\* A call that waits waits for one that works, or for the first in the queue to take
\* a mutex that is free.
NoLostWaiter ==
    \A c \in Calls : pc[c] = "waiting" =>
        IF holder = Nobody THEN queue # <<>> /\ pc[Head(queue)] = "waiting"
                           ELSE pc[holder] \in Working

\* The steps that a call is from its end, at most.
Left(c) ==
    CASE pc[c] = "new"      -> 2 * RetryAttempts + 6
      [] pc[c] = "lookup"   -> 2 * RetryAttempts + 5
      [] pc[c] = "waiting"  -> 2 * RetryAttempts + 4
      [] pc[c] = "locked"   -> 2 * RetryAttempts + 3
      [] pc[c] = "sending"  -> 2 * (RetryAttempts + 1 - attempt[c])
      [] pc[c] = "awaiting" -> 2 * (RetryAttempts + 1 - attempt[c]) - 1
      [] pc[c] = "done"     -> 0

\* A step of a call brings it nearer to its end, and no step takes any further away.
Nearer(c) == Left(c)' <= Left(c) /\ (pc'[c] # pc[c] => Left(c)' < Left(c))

GetsOn == [][\A c \in Calls : Nearer(c)]_vars

\* The kinds of step a call makes.
Enters(c) == pc[c] = "new" /\ Moved(c, "lookup") /\ UNCHANGED <<queue, holder, attempt>>

Works(c) ==
    /\ UNCHANGED <<queue, holder>>
    /\ \/ pc[c] = "locked" /\ Moved(c, "sending") /\ UNCHANGED attempt
       \/ pc[c] = "sending" /\ Moved(c, "awaiting") /\ UNCHANGED attempt
       \/ /\ pc[c] = "awaiting" /\ Moved(c, "sending")
          /\ attempt' = [attempt EXCEPT ![c] = @ + 1] /\ attempt'[c] <= RetryAttempts

Leaves(c) ==
    /\ pc[c] \notin {"waiting", "done"} /\ Moved(c, "done")
    /\ UNCHANGED queue
    /\ holder' = IF holder = c THEN Nobody ELSE holder
    /\ \A d \in Calls \ {c} : attempt'[d] = attempt[d]

LEMMA StepsOfACall ==
    ASSUME IInv, NEW c \in Calls, Arrive(c) \/ Unauthorized(c) \/ Serve(c)
    PROVE  Enters(c) \/ Lookup(c) \/ Lock(c) \/ Works(c) \/ Leaves(c)
<1> USE DEF IInv
<1>1. CASE Arrive(c)
  BY <1>1, GotoMoves DEF Arrive, Enters, Places
<1>2. CASE Unauthorized(c) \/ NotFound(c) \/ Invalid(c)
  BY <1>2, GotoMoves DEF Unauthorized, NotFound, Invalid, Finish, Leaves, Places
<1>3. CASE RefusedEarly(c)
  BY <1>3, GotoMoves DEF RefusedEarly, RateLimited, BadUrl, Finish, Leaves, Places
<1>4. CASE Execute(c)
  <2>1. pc[c] = "locked" /\ UNCHANGED <<queue, attempt>>
    BY <1>4 DEF Execute
  <2>2. \/ Goto(c, "sending") /\ UNCHANGED holder
        \/ \E r \in Results : Finish(c, r)
    BY <1>4 DEF Execute, Results, Refusals
  <2>3. CASE Goto(c, "sending") /\ UNCHANGED holder
    BY <2>1, <2>3, GotoMoves DEF Works, Places
  <2>4. CASE \E r \in Results : Finish(c, r)
    BY <2>1, <2>4, GotoMoves DEF Finish, Leaves, Places
  <2> QED  BY <2>2, <2>3, <2>4
<1>5. CASE Send(c)
  BY <1>5, GotoMoves DEF Send, Works, Places
<1>6. CASE BadMethod(c) \/ Responded(c) \/ StatusError(c)
  BY <1>6, GotoMoves DEF BadMethod, Responded, StatusError, Finish, Leaves, Places
<1>7. CASE TransportError(c)
  <2>1. /\ pc[c] = "awaiting" /\ UNCHANGED queue
        /\ attempt' = [attempt EXCEPT ![c] = @ + 1]
        /\ attempt[c] \in Nat /\ attempt'[c] = attempt[c] + 1
    BY <1>7, PipelineAssumption DEF TransportError, TypeOK
  <2>2. CASE attempt[c] + 1 > RetryAttempts
    BY <1>7, <2>1, <2>2, GotoMoves DEF TransportError, Finish, Leaves, Places, TypeOK
  <2>3. CASE ~(attempt[c] + 1 > RetryAttempts)
    <3>1. Goto(c, "sending") /\ UNCHANGED holder
      BY <1>7, <2>3 DEF TransportError
    <3>2. attempt'[c] <= RetryAttempts
      BY <2>1, <2>3, PipelineAssumption
    <3>3. Moved(c, "sending")
      BY <3>1, GotoMoves DEF Places
    <3> QED  BY <2>1, <3>1, <3>2, <3>3 DEF Works
  <2> QED  BY <2>2, <2>3
<1> QED  BY <1>1, <1>2, <1>3, <1>4, <1>5, <1>6, <1>7 DEF Serve

LEMMA QueueKept == IInv /\ QueueInv /\ [Next]_vars => QueueInv'
<1> SUFFICES ASSUME IInv, QueueInv, [Next]_vars  PROVE QueueInv'
  OBVIOUS
<1> USE DEF QueueInv
<1>1. Len(queue) \in Nat /\ \A i \in 1..Len(queue) : queue[i] \in Calls
  BY LenProperties DEF IInv, TypeOK
<1>2. ASSUME NEW c \in Calls, Enters(c) \/ Works(c) \/ Leaves(c)
      PROVE  QueueInv'
  <2>1. /\ UNCHANGED queue
        /\ pc[c] # "waiting" /\ pc'[c] # "waiting"
        /\ \A d \in Calls \ {c} : pc'[d] = pc[d]
    BY <1>2 DEF Enters, Works, Leaves, Moved
  <2>2. QueueExact'
    BY <2>1 DEF QueueExact
  <2>3. HolderWorks'
    BY <1>2, <2>1, PipelineAssumption DEF Enters, Works, Leaves, Moved, HolderWorks, Working,
       IInv, TypeOK
  <2> QED  BY <2>2, <2>3
<1>3. ASSUME NEW c \in Calls, Lookup(c)  PROVE QueueInv'
  <2>1. pc[c] = "lookup" /\ Moved(c, "waiting") /\ UNCHANGED holder
    BY <1>3, GotoMoves DEF Lookup, IInv, Places
  <2>2. /\ Len(queue') = Len(queue) + 1
        /\ \A i \in 1..Len(queue) : queue'[i] = queue[i]
        /\ queue'[Len(queue) + 1] = c
    BY <1>3, AppendProperties DEF Lookup, IInv, TypeOK
  <2>3. \A i \in 1..Len(queue) : queue[i] # c
    BY <2>1 DEF QueueExact
  <2>4. QueueExact'
    BY <1>1, <2>1, <2>2, <2>3 DEF QueueExact, Moved
  <2>5. HolderWorks'
    BY <2>1 DEF HolderWorks, Moved, Working, IInv, TypeOK
  <2> QED  BY <2>4, <2>5
<1>4. ASSUME NEW c \in Calls, Lock(c)  PROVE QueueInv'
  <2>1. pc[c] = "waiting" /\ Moved(c, "locked") /\ holder' = c
    BY <1>4, GotoMoves DEF Lock, IInv, Places
  <2>2. /\ Len(queue) >= 1 /\ queue[1] = c
        /\ Len(queue') = Len(queue) - 1
        /\ \A i \in 1..Len(queue') : queue'[i] = queue[i + 1]
    BY <1>1, <1>4, EmptySeq, HeadTailProperties DEF Lock, IInv, TypeOK
  <2>3. \A d \in Calls \ {c} : pc'[d] = pc[d]
    BY <2>1 DEF Moved
  <2>4. \A i \in 1..Len(queue') : /\ i + 1 \in 1..Len(queue)
                                 /\ queue'[i] \in Calls \ {c}
    BY <1>1, <2>2 DEF QueueExact
  <2>5. ASSUME NEW d \in Calls
        PROVE  pc'[d] = "waiting" <=> \E i \in 1..Len(queue') : queue'[i] = d
    <3>1. CASE d = c
      BY <2>1, <2>4, <3>1 DEF Moved
    <3>2. ASSUME d # c, NEW i \in 1..Len(queue), queue[i] = d
          PROVE  \E j \in 1..Len(queue') : queue'[j] = d
      <4>1. i - 1 \in 1..Len(queue') /\ (i - 1) + 1 = i
        BY <1>1, <2>2, <3>2
      <4> QED  BY <2>2, <3>2, <4>1
    <3>3. CASE d # c
      BY <2>2, <2>3, <2>4, <3>2, <3>3 DEF QueueExact
    <3> QED  BY <3>1, <3>3
  <2>6. \A i, j \in 1..Len(queue') : i # j => queue'[i] # queue'[j]
    BY <1>1, <2>2, <2>4 DEF QueueExact
  <2>7. QueueExact'
    BY <2>5, <2>6 DEF QueueExact
  <2>8. HolderWorks'
    BY <2>1 DEF HolderWorks, Moved, Working
  <2> QED  BY <2>7, <2>8
<1>5. CASE UNCHANGED <<pc, queue, holder>>
  BY <1>5 DEF QueueExact, HolderWorks
<1> QED
  BY <1>2, <1>3, <1>4, <1>5, StepsOfACall DEF Next, Receive, Idle, vars

LEMMA CallsGetOn ==
    ASSUME IInv, [Next]_vars, NEW d \in Calls
    PROVE  Nearer(d)
<1>1. /\ attempt[d] \in 0..(RetryAttempts + 1) /\ RetryAttempts \in Nat
      /\ pc[d] \in Places
      /\ pc[d] \in {"sending", "awaiting"} => attempt[d] \in 0..RetryAttempts
      /\ pc[d] = "locked" => attempt[d] = 0
  BY PipelineAssumption DEF IInv, TypeOK, CallsInv, TriesInOrder, Tries, Before
<1>2. Left(d) \in Nat /\ (pc[d] # "done" => Left(d) > 0)
  BY <1>1 DEF Left, Places
<1>3. ASSUME NEW c \in Calls, Arrive(c) \/ Unauthorized(c) \/ Serve(c), c # d
      PROVE  pc'[d] = pc[d] /\ attempt'[d] = attempt[d]
  <2>1. Enters(c) \/ Lookup(c) \/ Lock(c) \/ Works(c) \/ Leaves(c)
    BY <1>3, StepsOfACall
  <2> QED
    BY <1>3, <2>1 DEF Enters, Lookup, Lock, Works, Leaves, Moved, Goto, IInv, TypeOK
<1> DEFINE Less == Left(d)' < Left(d) /\ Left(d)' <= Left(d)
<1>4. ASSUME Arrive(d) \/ Unauthorized(d) \/ Serve(d)  PROVE Less
  <2>1. CASE Enters(d)
    BY <1>1, <2>1 DEF Enters, Moved, Left
  <2>2. CASE Lookup(d)
    BY <1>1, <2>2 DEF Lookup, Goto, Left, IInv, TypeOK
  <2>3. CASE Lock(d)
    BY <1>1, <2>3 DEF Lock, Goto, Left, IInv, TypeOK
  <2>4. CASE Works(d)
    <3>1. \/ pc[d] = "locked" /\ pc'[d] = "sending" /\ attempt'[d] = attempt[d]
          \/ pc[d] = "sending" /\ pc'[d] = "awaiting" /\ attempt'[d] = attempt[d]
          \/ pc[d] = "awaiting" /\ pc'[d] = "sending" /\ attempt'[d] = attempt[d] + 1
      BY <2>4 DEF Works, Moved, IInv, TypeOK
    <3>2. CASE pc[d] = "locked"
      <4>1. Left(d) = 2 * RetryAttempts + 3 /\ Left(d)' = 2 * (RetryAttempts + 1)
        BY <1>1, <3>1, <3>2 DEF Left
      <4> QED  BY <1>1, <4>1
    <3>3. CASE pc[d] = "sending"
      <4>1. /\ Left(d) = 2 * (RetryAttempts + 1 - attempt[d])
            /\ Left(d)' = 2 * (RetryAttempts + 1 - attempt[d]) - 1
        BY <3>1, <3>3 DEF Left
      <4> QED  BY <1>1, <3>3, <4>1
    <3>4. CASE pc[d] = "awaiting"
      <4>1. /\ Left(d) = 2 * (RetryAttempts + 1 - attempt[d]) - 1
            /\ Left(d)' = 2 * (RetryAttempts + 1 - (attempt[d] + 1))
        BY <3>1, <3>4 DEF Left
      <4> QED  BY <1>1, <3>4, <4>1
    <3> QED  BY <3>1, <3>2, <3>3, <3>4
  <2>5. CASE Leaves(d)
    <3>1. Left(d)' = 0
      BY <2>5 DEF Leaves, Moved, Left
    <3> QED  BY <1>2, <2>5, <3>1 DEF Leaves
  <2> QED  BY <1>4, <2>1, <2>2, <2>3, <2>4, <2>5, StepsOfACall
<1>5. ASSUME pc'[d] = pc[d], attempt'[d] = attempt[d]  PROVE Left(d)' = Left(d)
  BY <1>5 DEF Left
<1>6. (Left(d)' = Left(d) /\ pc'[d] = pc[d]) \/ Less
  BY <1>3, <1>4, <1>5 DEF Next, Receive, Idle, vars
<1> QED  BY <1>2, <1>6 DEF Nearer

\* tokio's mutex loses no waiter: however calls come, end and fail, a call that waits
\* for the AuthManager is in the queue once, and whoever it waits for is at work.
THEOREM NoWaiterIsLost == Spec => []NoLostWaiter
<1>1. Init => QueueInv
  BY DEF Init, QueueInv, QueueExact, HolderWorks
<1>2. IInv /\ QueueInv => NoLostWaiter
  <2> SUFFICES ASSUME IInv, QueueInv, NEW c \in Calls, pc[c] = "waiting", holder = Nobody
               PROVE  queue # <<>> /\ pc[Head(queue)] = "waiting"
    BY DEF NoLostWaiter, QueueInv, HolderWorks
  <2>1. queue \in Seq(Calls) /\ Len(queue) \in Nat
    BY LenProperties DEF IInv, TypeOK
  <2>2. PICK i \in 1..Len(queue) : queue[i] = c
    BY DEF QueueInv, QueueExact
  <2>3. 1 \in 1..Len(queue) /\ queue # <<>> /\ Head(queue) = queue[1] /\ queue[1] \in Calls
    BY <2>1, <2>2, EmptySeq
  <2> QED  BY <2>3 DEF QueueInv, QueueExact
<1> QED  BY <1>1, <1>2, QueueKept, Inductive, PTL DEF Spec

\* No call is put back: every step of one, a retry included, brings it nearer to its
\* answer, and none has more than 2 * retry_attempts + 6 of them to make.
THEOREM CallsOnlyGetOn == Spec => GetsOn
<1>1. IInv /\ [Next]_vars
        => [\A c \in Calls : Nearer(c)]_vars
  BY CallsGetOn
<1> QED  BY <1>1, Inductive, PTL DEF Spec, GetsOn

-----------------------------------------------------------------------------
\* The contract.
phaseBar   == [c \in Calls |-> PhaseOf(c)]
effectsBar == [c \in Calls |-> EffectsOf(c)]

\* A refused or unsent call has had no effect, and an answered one has.
LEMMA EffectsFit ==
    ASSUME IInv, NEW c \in Calls
    PROVE  /\ Unsent(c) => EffectsOf(c) = {}
           /\ \A a \in answers : a.call = c => a.n \in EffectsOf(c)
<1>1. \A r \in received : r \in sent
  BY DEF IInv, TypeOK
<1>2. QED
  BY <1>1 DEF IInv, CallsInv, AnswersAreToReceived, Unsent, EffectsOf

\* The requests of one try of one call are one request.
LEMMA RequestsUnique ==
    ASSUME IInv
    PROVE  \A q, r \in sent : q.call = r.call /\ q.n = r.n => q = r
<1> SUFFICES ASSUME NEW q \in sent, NEW r \in sent, q.call = r.call, q.n = r.n
             PROVE  q = r
  OBVIOUS
<1>1. q \in Requests /\ r \in Requests
  BY DEF IInv, TypeOK
<1>2. q.header = r.header
  BY DEF IInv, CallsInv, HeadersProper
<1>3. QED
  BY <1>1, <1>2 DEF Requests

LEMMA InitContract == Init => Contract!Init
BY DEF Init, Contract!Init, PhaseOf, EffectsOf

\* A step that ends call c, with what the contract calls outcome o.
LEMMA EndRefines ==
    ASSUME IInv, NEW c \in Calls, NEW r \in Results \ {"none"},
           pc[c] # "done", Ended(c, r), received' = received
    PROVE  /\ phaseBar' = [phaseBar EXCEPT ![c] = OutcomeOf(r)]
           /\ effectsBar' = effectsBar
           /\ phaseBar[c] = IF pc[c] = "new" THEN "idle" ELSE "pending"
<1>1. /\ \A d \in Calls \ {c} : pc'[d] = pc[d] /\ result'[d] = result[d]
      /\ result'[c] = r
  BY DEF Ended, Moved
<1>2. result[c] = "none"
  BY DEF IInv, CallsInv, ReportedIffDone
<1>3. \A d \in Calls : PhaseOf(d)' = IF d = c THEN OutcomeOf(r) ELSE PhaseOf(d)
  BY <1>1 DEF PhaseOf
<1>4. QED
  BY <1>2, <1>3 DEF phaseBar, effectsBar, EffectsOf, PhaseOf

\* A step that moves call c on without ending it.
LEMMA MoveRefines ==
    ASSUME IInv, NEW c \in Calls, NEW place \in Places \ {"new", "done"},
           pc[c] # "done", Moved(c, place), result' = result, received' = received
    PROVE  /\ phaseBar' = [phaseBar EXCEPT ![c] = "pending"]
           /\ effectsBar' = effectsBar
           /\ phaseBar[c] = IF pc[c] = "new" THEN "idle" ELSE "pending"
<1>1. /\ \A d \in Calls \ {c} : pc'[d] = pc[d]
      /\ pc'[c] = place
  BY DEF Moved
<1>2. result[c] = "none"
  BY DEF IInv, CallsInv, ReportedIffDone
<1>3. \A d \in Calls : PhaseOf(d)' = IF d = c THEN "pending" ELSE PhaseOf(d)
  BY <1>1, <1>2 DEF PhaseOf
<1>4. QED
  BY <1>2, <1>3 DEF phaseBar, effectsBar, EffectsOf, PhaseOf

LEMMA ReceiveRefines ==
    ASSUME IInv, NEW r \in sent, Receive(r)
    PROVE  Contract!Effect(r.call)
<1> DEFINE c == r.call
<1>1. c \in Calls /\ r.n \in Tries
  BY DEF IInv, TypeOK, Requests
<1>2. phaseBar' = phaseBar
  BY DEF phaseBar, PhaseOf, Receive
<1>3. phaseBar[c] \in {"pending", "ok", "failed"}
  <2>1. ~Unsent(c)
    BY DEF Unsent
  <2>2. pc[c] # "new" /\ result[c] \notin Refusals
    BY <1>1, <2>1 DEF IInv, CallsInv, UnsentUnlessExecuted, Before
  <2>3. QED
    BY <1>1, <2>2 DEF phaseBar, PhaseOf, OutcomeOf
<1>4. r.n \notin EffectsOf(c)
  <2>1. r \notin received /\ received \subseteq sent
    BY DEF IInv, TypeOK, Receive
  <2>2. QED
    BY <2>1, RequestsUnique DEF EffectsOf
<1>5. effectsBar' = [effectsBar EXCEPT ![c] = @ \cup {r.n}]
  <2>1. received' = received \cup {r}
    BY DEF Receive
  <2>2. EffectsOf(c)' = EffectsOf(c) \cup {r.n}
    BY <2>1 DEF EffectsOf
  <2>3. \A d \in Calls \ {c} : EffectsOf(d)' = EffectsOf(d)
    BY <2>1 DEF EffectsOf
  <2>4. QED
    BY <1>1, <2>2, <2>3 DEF effectsBar
<1>6. QED
  BY <1>1, <1>2, <1>3, <1>4, <1>5
  DEF Contract!Effect, Contract!Tries, Tries, phaseBar, effectsBar

\* A call that ends is refused with nothing sent, successful with an answer
\* read, or failed: each is an action of the contract.
LEMMA RefusalRefines ==
    ASSUME IInv, NEW c \in Calls, NEW r \in Refusals,
           pc[c] # "done", pc[c] # "new" \/ r = "unauthorized",
           Unsent(c), Ended(c, r), received' = received
    PROVE  Contract!Deny(c) \/ Contract!Refuse(c)
<1>1. r \in Results \ {"none"} /\ OutcomeOf(r) = "refused"
  BY DEF Results, Refusals, OutcomeOf
<1>2. /\ phaseBar' = [phaseBar EXCEPT ![c] = "refused"]
      /\ effectsBar' = effectsBar
      /\ phaseBar[c] \in {"idle", "pending"}
  BY <1>1, EndRefines
<1>3. effectsBar[c] = {}
  BY EffectsFit DEF effectsBar
<1>4. QED
  BY <1>2, <1>3
  DEF Contract!Deny, Contract!Refuse, Contract!MoveTo, phaseBar, effectsBar

LEMMA SuccessRefines ==
    ASSUME IInv, NEW c \in Calls, pc[c] = "awaiting", Ended(c, "ok"),
           received' = received, Read(c, "success")
    PROVE  Contract!Report(c)
<1>1. "ok" \in Results \ {"none"} /\ OutcomeOf("ok") = "ok"
  BY DEF Results, Refusals, Failures, OutcomeOf
<1>2. /\ phaseBar' = [phaseBar EXCEPT ![c] = "ok"]
      /\ effectsBar' = effectsBar
      /\ phaseBar[c] = "pending"
  BY <1>1, EndRefines
<1>3. effectsBar[c] # {}
  BY EffectsFit DEF effectsBar, Read
<1>4. QED
  BY <1>2, <1>3 DEF Contract!Report, Contract!MoveTo, phaseBar, effectsBar

LEMMA FailureRefines ==
    ASSUME IInv, NEW c \in Calls, NEW r \in Failures, pc[c] = "awaiting",
           Ended(c, r), received' = received
    PROVE  Contract!GiveUp(c)
<1>1. r \in Results \ {"none"} /\ OutcomeOf(r) = "failed"
  BY DEF Results, Refusals, Failures, OutcomeOf
<1>2. /\ phaseBar' = [phaseBar EXCEPT ![c] = "failed"]
      /\ effectsBar' = effectsBar
      /\ phaseBar[c] = "pending"
  BY <1>1, EndRefines
<1>3. QED
  BY <1>2 DEF Contract!GiveUp, Contract!MoveTo, phaseBar, effectsBar

\* A step within a call is no step of the contract.
LEMMA WithinRefines ==
    ASSUME IInv, NEW c \in Calls, NEW place \in Places \ {"new", "done"},
           pc[c] \notin {"new", "done"}, Moved(c, place),
           result' = result, received' = received
    PROVE  UNCHANGED <<phaseBar, effectsBar>>
<1>1. /\ phaseBar' = [phaseBar EXCEPT ![c] = "pending"]
      /\ effectsBar' = effectsBar
      /\ phaseBar[c] = "pending"
  BY MoveRefines
<1>2. phaseBar = [phaseBar EXCEPT ![c] = "pending"]
  BY <1>1 DEF phaseBar
<1>3. QED
  BY <1>1, <1>2

ContractStep == [Contract!Next]_<<phaseBar, effectsBar>>

LEMMA GateRefines ==
    ASSUME IInv, NEW c \in Calls, Arrive(c) \/ Unauthorized(c)
    PROVE  ContractStep
<1>1. CASE Arrive(c)
  <2>1. Moved(c, "lookup")
    BY <1>1, GotoMoves DEF IInv, Arrive, Places
  <2>2. /\ phaseBar' = [phaseBar EXCEPT ![c] = "pending"]
        /\ effectsBar' = effectsBar
        /\ phaseBar[c] = "idle"
    BY <1>1, <2>1, MoveRefines DEF Arrive, Places
  <2>3. Contract!Accept(c)
    BY <2>2 DEF Contract!Accept, Contract!MoveTo, phaseBar, effectsBar
  <2>4. QED
    BY <2>3 DEF ContractStep, Contract!Next
<1>2. CASE Unauthorized(c)
  <2>1. Ended(c, "unauthorized") /\ Unsent(c) /\ pc[c] = "new" /\ received' = received
    BY <1>2, FinishEnds DEF IInv, CallsInv, UnsentUnlessExecuted, Before,
                            Unauthorized, Results, Refusals
  <2>2. Contract!Deny(c) \/ Contract!Refuse(c)
    BY <2>1, RefusalRefines DEF Refusals
  <2>3. QED
    BY <2>2 DEF ContractStep, Contract!Next
<1>3. QED
  BY <1>1, <1>2

\* The calls refused with nothing sent.
LEMMA RefusedRefines ==
    ASSUME IInv, NEW c \in Calls,
           NotFound(c) \/ Invalid(c) \/ RefusedEarly(c) \/ BadMethod(c)
    PROVE  ContractStep
<1>1. PICK r \in Refusals \ {"unauthorized"} : Finish(c, r)
  BY DEF NotFound, Invalid, RefusedEarly, RateLimited, BadUrl, BadMethod, Refusals
<1>2. /\ pc[c] \in {"lookup", "locked"} \/ (pc[c] = "sending" /\ attempt[c] = 0)
      /\ received' = received
  BY DEF NotFound, Invalid, RefusedEarly, RateLimited, BadUrl, BadMethod
<1>3. Ended(c, r) /\ Unsent(c)
  <2>1. Ended(c, r)
    BY <1>1, FinishEnds DEF IInv, Results
  <2>2. Unsent(c)
    BY <1>2, UnsentAtFirst DEF IInv, CallsInv, UnsentUnlessExecuted, Before
  <2>3. QED
    BY <2>1, <2>2
<1>4. Contract!Deny(c) \/ Contract!Refuse(c)
  BY <1>2, <1>3, RefusalRefines
<1>5. QED
  BY <1>4 DEF ContractStep, Contract!Next

LEMMA ExecuteRefines ==
    ASSUME IInv, NEW c \in Calls, Execute(c)
    PROVE  ContractStep
<1>1. \/ Goto(c, "sending") /\ result' = result
      \/ \E r \in {"no_credentials", "breaker_open"} : Finish(c, r)
  BY DEF Execute
<1>2. pc[c] = "locked" /\ received' = received
  BY DEF Execute
<1>3. CASE Goto(c, "sending") /\ result' = result
  <2>1. Moved(c, "sending")
    BY <1>3, GotoMoves DEF IInv, Places
  <2>2. UNCHANGED <<phaseBar, effectsBar>>
    BY <1>2, <1>3, <2>1, WithinRefines DEF Places
  <2>3. QED
    BY <2>2 DEF ContractStep
<1>4. CASE \E r \in {"no_credentials", "breaker_open"} : Finish(c, r)
  <2>1. PICK r \in {"no_credentials", "breaker_open"} : Finish(c, r)
    BY <1>4
  <2>2. Ended(c, r) /\ Unsent(c)
    BY <1>2, <2>1, FinishEnds DEF IInv, CallsInv, UnsentUnlessExecuted, Before,
                                  Results, Refusals
  <2>3. Contract!Deny(c) \/ Contract!Refuse(c)
    BY <1>2, <2>2, RefusalRefines DEF Refusals
  <2>4. QED
    BY <2>3 DEF ContractStep, Contract!Next
<1>5. QED
  BY <1>1, <1>3, <1>4

\* The steps within a call.
LEMMA WithinStep ==
    ASSUME IInv, NEW c \in Calls, Lookup(c) \/ Lock(c) \/ Send(c)
    PROVE  ContractStep
<1>1. PICK place \in {"waiting", "locked", "awaiting"} : Goto(c, place)
  BY DEF Lookup, Lock, Send
<1>2. /\ pc[c] \notin {"new", "done"}
      /\ result' = result /\ received' = received
  BY DEF Lookup, Lock, Send
<1>3. Moved(c, place)
  BY <1>1, GotoMoves DEF IInv, Places
<1>4. UNCHANGED <<phaseBar, effectsBar>>
  BY <1>2, <1>3, WithinRefines DEF Places
<1>5. QED
  BY <1>4 DEF ContractStep

LEMMA AnswerRefines ==
    ASSUME IInv, NEW c \in Calls, Responded(c) \/ StatusError(c)
    PROVE  ContractStep
<1>1. pc[c] = "awaiting" /\ received' = received
  BY DEF Responded, StatusError
<1>2. CASE Responded(c)
  <2>1. Ended(c, "ok")
    BY <1>2, FinishEnds DEF IInv, Responded, Results
  <2>2. Contract!Report(c)
    BY <1>1, <1>2, <2>1, SuccessRefines DEF Responded
  <2>3. QED
    BY <2>2 DEF ContractStep, Contract!Next
<1>3. CASE StatusError(c)
  <2>1. Ended(c, "http_error")
    BY <1>3, FinishEnds DEF IInv, StatusError, Results, Failures
  <2>2. Contract!GiveUp(c)
    BY <1>1, <2>1, FailureRefines DEF Failures
  <2>3. QED
    BY <2>2 DEF ContractStep, Contract!Next
<1>4. QED
  BY <1>2, <1>3

LEMMA TransportErrorRefines ==
    ASSUME IInv, NEW c \in Calls, TransportError(c)
    PROVE  ContractStep
<1>1. pc[c] = "awaiting" /\ received' = received
  BY DEF TransportError
<1>2. \/ Finish(c, "unreachable")
      \/ Goto(c, "sending") /\ result' = result
  BY DEF TransportError
<1>3. CASE Finish(c, "unreachable")
  <2>1. Ended(c, "unreachable")
    BY <1>3, FinishEnds DEF IInv, Results, Failures
  <2>2. Contract!GiveUp(c)
    BY <1>1, <2>1, FailureRefines DEF Failures
  <2>3. QED
    BY <2>2 DEF ContractStep, Contract!Next
<1>4. CASE Goto(c, "sending") /\ result' = result
  <2>1. Moved(c, "sending")
    BY <1>4, GotoMoves DEF IInv, Places
  <2>2. UNCHANGED <<phaseBar, effectsBar>>
    BY <1>1, <1>4, <2>1, WithinRefines DEF Places
  <2>3. QED
    BY <2>2 DEF ContractStep
<1>5. QED
  BY <1>2, <1>3, <1>4

LEMMA NextRefines == IInv /\ [Next]_vars => ContractStep
<1> SUFFICES ASSUME IInv, [Next]_vars PROVE ContractStep
  OBVIOUS
<1>1. ASSUME NEW c \in Calls, Arrive(c) \/ Unauthorized(c) PROVE ContractStep
  BY <1>1, GateRefines
<1>2. ASSUME NEW c \in Calls, Serve(c) PROVE ContractStep
  BY <1>2, RefusedRefines, ExecuteRefines, WithinStep, AnswerRefines,
     TransportErrorRefines DEF Serve
<1>3. ASSUME NEW r \in sent, Receive(r) PROVE ContractStep
  <2>1. r.call \in Calls
    BY DEF IInv, TypeOK, Requests
  <2>2. QED
    BY <1>3, <2>1, ReceiveRefines DEF ContractStep, Contract!Next
<1>4. CASE UNCHANGED vars
  BY <1>4 DEF vars, ContractStep, phaseBar, effectsBar, PhaseOf, EffectsOf
<1>5. QED
  BY <1>1, <1>2, <1>3, <1>4 DEF Next, Idle

\* The pipeline implements the contract: a refused call has no effect at the
\* API, a successful one has had one, and no call more than 1 + retry_attempts.
THEOREM ImplementsContract == Spec => ContractSpec
<1>1. Init => Contract!Init
  BY InitContract
<1>2. IInv /\ [Next]_vars => [Contract!Next]_<<phaseBar, effectsBar>>
  BY NextRefines DEF ContractStep
<1>3. QED
  BY <1>1, <1>2, Inductive, PTL
  DEF Spec, ContractSpec, Contract!Spec, phaseBar, effectsBar
=============================================================================
