---------------------------- MODULE CallPipeline ----------------------------
(***************************************************************************)
(* The `call` tool from the caller's request to the API behind the server: *)
(* http/server.rs (auth_gate), core/mcp_server.rs (call), tools/call_tool, *)
(* auth/auth_manager (apply_auth_headers) and services/api_client          *)
(* (execute, dispatch), with any number of calls at once.                  *)
(*                                                                         *)
(* What the calls share is one AuthManager behind one asynchronous mutex,  *)
(* which `call` takes before it validates the arguments and holds until it *)
(* has the answer, retries included.  What they do not share is the        *)
(* ApiClient: each call makes its own, with a breaker and a limiter of its *)
(* own.  The model has no clock: all its calls fall within one window of   *)
(* the limiter and one reset timeout of the breaker.                       *)
(*                                                                         *)
(* The API is external.  A request it was sent reaches it at any later     *)
(* time or never, and what it answers reaches the client, or the client    *)
(* gives that try up first.                                                *)
(***************************************************************************)
EXTENDS BreakerRules, Sequences

CONSTANTS Calls,
          RetryAttempts,  \* config.retry_attempts
          RateLimits,     \* the values config.rate_limit may have
          Nobody,         \* the auth mutex is free
          Operator        \* the credential kept on the server's own machine

ASSUME PipelineAssumption ==
    /\ RetryAttempts \in Nat
    /\ RateLimits \subseteq Nat
    /\ Nobody \notin Calls
    /\ None \notin Calls
    /\ Operator \notin Calls \cup {None}

\* The credential a caller sends with call c is named c: no two are the same.
Credentials == Calls \cup {Operator}
Tries       == 0..RetryAttempts
Lookups     == {"missing", "found", "unsaved"}
Configs     == [transport : {"Http", "Stdio"}, rate_limit : RateLimits]
Requests    == [call : Calls, n : Tries, header : Credentials]
Answers     == [call : Calls, n : Tries, status : {"success", "error"}]

Refusals == {"unauthorized", "not_found", "invalid", "rate_limited",
             "bad_url", "no_credentials", "breaker_open", "bad_method"}
Failures == {"http_error", "unreachable"}
Results  == Refusals \cup Failures \cup {"none", "ok"}

Places  == {"new", "lookup", "waiting", "locked", "sending", "awaiting", "done"}
Working == {"locked", "sending", "awaiting"}

VARIABLES
    config,    \* transport and rate_limit, fixed when the server starts
    pc,        \* where each call is
    carries,   \* calls whose HTTP request holds a credential header
    queue,     \* calls that wait for the auth mutex, first come first
    holder,    \* the call that holds it, or Nobody
    cached,    \* cached_credentials of the AuthManager: Operator or None
    client,    \* the ApiClient made last: its breaker, and its limiter's count
    header,    \* the credential header of each call's requests
    attempt,   \* `attempt` of dispatch
    sent,      \* requests sent to the API
    received,  \* those that have reached it
    answers,   \* what it has answered
    result,    \* what each call reported
    \* history, read by the properties alone
    read,      \* answers the client waited for and got
    streak     \* calls that failed at the API since the last success

vars == <<config, pc, carries, queue, holder, cached, client, header, attempt,
          sent, received, answers, result, read, streak>>

TypeOK ==
    /\ config \in Configs
    /\ pc \in [Calls -> Places]
    /\ carries \in SUBSET Calls
    /\ queue \in Seq(Calls)
    /\ holder \in Calls \cup {Nobody}
    /\ cached \in {None, Operator}
    /\ client \in [breaker : Breaker, granted : Nat]
    /\ header \in [Calls -> Credentials \cup {None}]
    /\ attempt \in [Calls -> 0..(RetryAttempts + 1)]
    /\ sent \in SUBSET Requests
    /\ received \in SUBSET sent
    /\ answers \in SUBSET Answers
    /\ result \in [Calls -> Results]
    /\ read \in SUBSET answers
    /\ streak \in Nat

\* ApiClient::new: a closed breaker, and a limiter that has granted nothing.
FreshClient == [breaker |-> FreshBreaker, granted |-> 0]

Init ==
    /\ config \in Configs
    /\ pc = [c \in Calls |-> "new"]
    /\ carries = {}
    /\ queue = <<>>
    /\ holder = Nobody
    /\ cached = None
    /\ client = FreshClient
    /\ header = [c \in Calls |-> None]
    /\ attempt = [c \in Calls |-> 0]
    /\ sent = {}
    /\ received = {}
    /\ answers = {}
    /\ result = [c \in Calls |-> "none"]
    /\ read = {}
    /\ streak = 0

-----------------------------------------------------------------------------
Goto(c, place) == pc' = [pc EXCEPT ![c] = place]

\* Mutant: a call that ends keeps the lock it took.
FinishKeepsLock(c, r) ==
    /\ Goto(c, "done")
    /\ result' = [result EXCEPT ![c] = r]
    /\ UNCHANGED holder

\* run_tool reports r, and the guard is dropped if the call held it.
Finish(c, r) ==
    /\ Goto(c, "done")
    /\ result' = [result EXCEPT ![c] = r]
    /\ holder' = IF holder = c THEN Nobody ELSE holder

\* A request reaches the server: over HTTP from localhost or not, and with a
\* credential header or without.  auth_gate lets it pass on either account.
Arrive(c) ==
    /\ pc[c] = "new"
    /\ \E local, credential \in BOOLEAN :
          /\ config.transport = "Stdio" => local /\ ~credential
          /\ local \/ credential
          /\ carries' = IF credential THEN carries \cup {c} ELSE carries
    /\ Goto(c, "lookup")
    /\ UNCHANGED <<config, queue, holder, cached, client, header, attempt,
                   sent, received, answers, result, read, streak>>

\* auth_gate answers 401: neither.
Unauthorized(c) ==
    /\ pc[c] = "new"
    /\ config.transport = "Http"
    /\ Finish(c, "unauthorized")
    /\ UNCHANGED <<config, carries, queue, cached, client, header, attempt,
                   sent, received, answers, read, streak>>

\* The catalogue has the operation: wait for the AuthManager.
Lookup(c) ==
    /\ pc[c] = "lookup"
    /\ Goto(c, "waiting")
    /\ queue' = Append(queue, c)
    /\ UNCHANGED <<config, carries, holder, cached, client, header, attempt,
                   sent, received, answers, result, read, streak>>

\* It has not, or the store cannot be read.
NotFound(c) ==
    /\ pc[c] = "lookup"
    /\ Finish(c, "not_found")
    /\ UNCHANGED <<config, carries, queue, cached, client, header, attempt,
                   sent, received, answers, read, streak>>

\* Mutant: the guard is dropped before call_operation is awaited.
LockWithoutHolding(c) ==
    /\ pc[c] = "waiting"
    /\ holder = Nobody
    /\ queue # <<>> /\ Head(queue) = c
    /\ queue' = Tail(queue)
    /\ Goto(c, "locked")
    /\ UNCHANGED <<config, carries, holder, cached, client, header, attempt,
                   sent, received, answers, result, read, streak>>

\* `auth_manager.lock().await`: tokio's mutex serves its waiters in order.
Lock(c) ==
    /\ pc[c] = "waiting"
    /\ holder = Nobody
    /\ queue # <<>> /\ Head(queue) = c
    /\ queue' = Tail(queue)
    /\ holder' = c
    /\ Goto(c, "locked")
    /\ UNCHANGED <<config, carries, cached, client, header, attempt,
                   sent, received, answers, result, read, streak>>

\* validate_input refuses the arguments.
Invalid(c) ==
    /\ pc[c] = "locked"
    /\ Finish(c, "invalid")
    /\ UNCHANGED <<config, carries, queue, cached, client, header, attempt,
                   sent, received, answers, read, streak>>

\* Mutant: an HTTP call that brings no credential gets the operator's.
AuthHeaderFallsBack(c, found) ==
    IF config.transport = "Http" /\ c \in carries THEN c
    ELSE IF cached = Operator \/ found = "found" THEN Operator ELSE None

\* apply_auth_headers: over HTTP the caller's own credential and no other; over
\* stdio the operator's, cached or else found in the environment or in the
\* credential storage.  One that is "unsaved" was found in the storage, cached,
\* and could not be written back: this call fails, the next has it cached.
AuthHeader(c, found) ==
    IF config.transport = "Http"
    THEN IF c \in carries THEN c ELSE None
    ELSE IF cached = Operator \/ found = "found" THEN Operator ELSE None

\* The call's own limiter refuses its first call only if the limit is zero.
RateLimited(c) ==
    /\ FreshClient.granted >= config.rate_limit
    /\ client' = FreshClient
    /\ Finish(c, "rate_limited")

\* build_api_url: the configured url and the operation's path make none.
BadUrl(c) ==
    /\ FreshClient.granted < config.rate_limit
    /\ client' = [FreshClient EXCEPT !.granted = 1]
    /\ Finish(c, "bad_url")

\* ApiClient::execute on a client of the call's own stops before it looks for a
\* credential.
RefusedEarly(c) ==
    /\ pc[c] = "locked"
    /\ RateLimited(c) \/ BadUrl(c)
    /\ UNCHANGED <<config, carries, queue, cached, header, attempt,
                   sent, received, answers, read, streak>>

\* ApiClient::execute goes on: the credential header, then the breaker, and if
\* neither refuses, dispatch.
Execute(c) ==
    /\ pc[c] = "locked"
    /\ FreshClient.granted < config.rate_limit
    /\ client' = [breaker |-> Admit(FreshBreaker), granted |-> 1]
    /\ \E found \in Lookups :
          LET h == AuthHeader(c, found)
              unsaved == config.transport = "Stdio" /\ found = "unsaved"
          IN
          /\ header' = [header EXCEPT ![c] = h]
          /\ cached' = IF h = Operator \/ unsaved THEN Operator ELSE cached
          /\ IF h # None /\ Admits(FreshBreaker)
             THEN Goto(c, "sending") /\ UNCHANGED <<holder, result>>
             ELSE Finish(c, IF h = None THEN "no_credentials" ELSE "breaker_open")
    /\ UNCHANGED <<config, carries, queue, attempt, sent, received, answers, read, streak>>

\* One try of dispatch: the request leaves.
Send(c) ==
    /\ pc[c] = "sending"
    /\ sent' = sent \cup {[call |-> c, n |-> attempt[c], header |-> header[c]]}
    /\ Goto(c, "awaiting")
    /\ UNCHANGED <<config, carries, queue, holder, cached, client, header, attempt,
                   received, answers, result, read, streak>>

\* `Method::from_bytes(..)?`: the operation's method is no HTTP method.  The breaker has
\* let the call in by then and counts a failure, though nothing is sent.
BadMethod(c) ==
    /\ pc[c] = "sending"
    /\ attempt[c] = 0
    /\ client' = [client EXCEPT !.breaker = OnFailure(@)]
    /\ Finish(c, "bad_method")
    /\ UNCHANGED <<config, carries, queue, cached, header, attempt,
                   sent, received, answers, read, streak>>

\* What the breaker records of the call that ends.
Record(success) ==
    /\ client' = [client EXCEPT !.breaker =
                     IF success THEN OnSuccess(@) ELSE OnFailure(@)]
    /\ streak' = IF success THEN 0 ELSE streak + 1

\* The client gets the answer to the try it waits for.
Read(c, status) ==
    LET a == [call |-> c, n |-> attempt[c], status |-> status]
    IN  a \in answers /\ read' = read \cup {a}

\* Mutant: an answer that contradicts the output schema is an error.
RespondedStrict(c) ==
    /\ pc[c] = "awaiting"
    /\ Read(c, "success")
    /\ Record(TRUE)
    /\ \E r \in {"ok", "invalid"} : Finish(c, r)
    /\ UNCHANGED <<config, carries, queue, cached, header, attempt,
                   sent, received, answers>>

\* The API accepts the try.  A body that does not arrive in time, or is no
\* JSON, is reported as null, and one that contradicts the output schema is
\* reported as it is: all three are successes.
Responded(c) ==
    /\ pc[c] = "awaiting"
    /\ Read(c, "success")
    /\ Record(TRUE)
    /\ Finish(c, "ok")
    /\ UNCHANGED <<config, carries, queue, cached, header, attempt,
                   sent, received, answers>>

\* Mutant: an error status is tried again, like an error of the transport.
StatusErrorRetried(c) ==
    /\ pc[c] = "awaiting"
    /\ Read(c, "error")
    /\ attempt' = [attempt EXCEPT ![c] = @ + 1]
    /\ IF attempt[c] + 1 > RetryAttempts
       THEN Record(FALSE) /\ Finish(c, "http_error")
       ELSE Goto(c, "sending") /\ UNCHANGED <<holder, client, result, streak>>
    /\ UNCHANGED <<config, carries, queue, cached, header, sent, received, answers>>

\* `error_for_status()?`: an error status ends the call, whatever the tries left.
StatusError(c) ==
    /\ pc[c] = "awaiting"
    /\ Read(c, "error")
    /\ Record(FALSE)
    /\ Finish(c, "http_error")
    /\ UNCHANGED <<config, carries, queue, cached, header, attempt,
                   sent, received, answers>>

\* Mutant: one try too many.
TransportErrorTooLate(c) ==
    /\ pc[c] = "awaiting"
    /\ attempt' = [attempt EXCEPT ![c] = @ + 1]
    /\ IF attempt[c] > RetryAttempts
       THEN Record(FALSE) /\ Finish(c, "unreachable")
       ELSE Goto(c, "sending") /\ UNCHANGED <<holder, client, result, streak>>
    /\ UNCHANGED <<config, carries, queue, cached, header, sent, received, answers, read>>

\* The try times out or its connection fails: at once the next, if one is left.
TransportError(c) ==
    /\ pc[c] = "awaiting"
    /\ attempt' = [attempt EXCEPT ![c] = @ + 1]
    /\ IF attempt[c] + 1 > RetryAttempts
       THEN Record(FALSE) /\ Finish(c, "unreachable")
       ELSE Goto(c, "sending") /\ UNCHANGED <<holder, client, result, streak>>
    /\ UNCHANGED <<config, carries, queue, cached, header, sent, received, answers, read>>

\* The API, which may act on a request its client has given up on.
Receive(r) ==
    /\ r \notin received
    /\ received' = received \cup {r}
    /\ \E status \in {"success", "error"} :
          answers' = answers \cup {[call |-> r.call, n |-> r.n, status |-> status]}
    /\ UNCHANGED <<config, pc, carries, queue, holder, cached, client, header, attempt,
                   sent, result, read, streak>>

\* What the server does about call c once it has arrived.
Serve(c) ==
    \/ Lookup(c) \/ NotFound(c)
    \/ Lock(c) \/ Invalid(c) \/ RefusedEarly(c) \/ Execute(c)
    \/ BadMethod(c) \/ Send(c) \/ Responded(c) \/ StatusError(c) \/ TransportError(c)

\* Every call has been answered: nothing is left to do but wait for more.
Idle == (\A c \in Calls : pc[c] = "done") /\ UNCHANGED vars

Next ==
    \/ \E c \in Calls : Arrive(c) \/ Unauthorized(c) \/ Serve(c)
    \/ \E r \in sent : Receive(r)
    \/ Idle

\* The runtime polls every task, and every try ends, in its timeout at worst.
\* Nothing is assumed of the API.
Fairness == \A c \in Calls : WF_vars(Serve(c))

Spec     == Init /\ [][Next]_vars
FairSpec == Spec /\ Fairness

-----------------------------------------------------------------------------
\* Over HTTP every request to the API holds the credential its own caller
\* brought, never that of another call nor the operator's; over stdio always
\* the operator's.
OwnCredential ==
    \A r \in sent : r.header = IF config.transport = "Http" THEN r.call ELSE Operator

\* The operator's credential is never loaded into the AuthManager that all HTTP
\* sessions share.
OperatorStaysHome == config.transport = "Http" => cached = None

\* The calls of all sessions use the API one at a time: only the holder of the
\* auth mutex validates, sends or waits.
Serialized == \A c \in Calls : pc[c] \in Working => holder = c

\* A try whose answer the client got, be it an error status, is its call's last:
\* only what the transport lost is sent again.
AnswerIsFinal ==
    \A a \in read : \A r \in sent : r.call = a.call => r.n <= a.n

\* Every call that got past the gate is answered, however many wait and however
\* silent the API is.
EveryCallEnds == \A c \in Calls : pc[c] = "lookup" ~> pc[c] = "done"

\* The pipeline's state in the terms of CallContract.
OutcomeOf(r) ==
    IF r \in Refusals THEN "refused" ELSE IF r \in Failures THEN "failed" ELSE "ok"

PhaseOf(c) ==
    IF result[c] # "none" THEN OutcomeOf(result[c])
    ELSE IF pc[c] = "new" THEN "idle" ELSE "pending"

EffectsOf(c) == {r.n : r \in {q \in received : q.call = c}}

Contract == INSTANCE CallContract
    WITH phase   <- [c \in Calls |-> PhaseOf(c)],
         effects <- [c \in Calls |-> EffectsOf(c)]

\* The pipeline implements the contract: a refused call never reaches the API,
\* a successful one did, and none reaches it more than 1 + retry_attempts times.
ContractSpec == Contract!Spec

\* README: the circuit breaker "opens after 5 consecutive failures".  The code
\* makes a new breaker for every call, and goes on sending.
BreakerShields ==
    [][streak >= FailureThreshold => sent' = sent]_vars
=============================================================================
