---------------------------- MODULE CallContract ----------------------------
(***************************************************************************)
(* What the `call` tool promises about one operation and the API behind    *)
(* it, without saying how: a call refused here never reaches the API, one  *)
(* reported successful did reach it, and no call reaches it more than      *)
(* 1 + RetryAttempts times.  A call reported as failed promises neither:   *)
(* it may have taken effect, and may still do so after it was reported.    *)
(* CallPipeline implements this contract.                                  *)
(***************************************************************************)
EXTENDS Naturals

CONSTANTS Calls, RetryAttempts

VARIABLES phase,   \* of each call
          effects  \* the tries of each call that reached the API

Phases == {"idle", "pending", "refused", "ok", "failed"}
Tries  == 0..RetryAttempts

Init ==
    /\ phase = [c \in Calls |-> "idle"]
    /\ effects = [c \in Calls |-> {}]

MoveTo(c, from, to) ==
    /\ phase[c] = from
    /\ phase' = [phase EXCEPT ![c] = to]
    /\ UNCHANGED effects

Accept(c) == MoveTo(c, "idle", "pending")
Deny(c)   == MoveTo(c, "idle", "refused")
Refuse(c) == MoveTo(c, "pending", "refused") /\ effects[c] = {}
Report(c) == MoveTo(c, "pending", "ok") /\ effects[c] # {}
GiveUp(c) == MoveTo(c, "pending", "failed")

Effect(c) ==
    /\ phase[c] \in {"pending", "ok", "failed"}
    /\ \E n \in Tries \ effects[c] :
          effects' = [effects EXCEPT ![c] = @ \cup {n}]
    /\ UNCHANGED phase

Next == \E c \in Calls :
    Accept(c) \/ Deny(c) \/ Refuse(c) \/ Report(c) \/ GiveUp(c) \/ Effect(c)

Spec == Init /\ [][Next]_<<phase, effects>>
=============================================================================
