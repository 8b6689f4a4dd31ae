--------------------------- MODULE LifecycleProofs ---------------------------
(***************************************************************************)
(* Proofs about Lifecycle, for any list of checks, whichever of them are   *)
(* critical or never yield, and any number of signals and changes.         *)
(***************************************************************************)
EXTENDS Lifecycle, SequenceTheorems, TLAPS

\* What main has registered, by its stage.
Early  == {"config", "handlers", "tracing"}
Middle == {"store", "register", "start", "hook"}
Late   == {"serve", "serving"}

Tracing == "shutdown_tracing"
Abort   == "abort_health_checks"

-----------------------------------------------------------------------------
(* The inductive invariant: of the cleanups ...                             *)

\* The handler is spawned once.
HandlerInTime == stage \in {"config", "handlers"} => handler = "none"

\* Cleanups are registered in one order, and taken by nobody but the handler.
HookedByStage ==
    handler # "draining" =>
        /\ stage \in Early  => cleanups = <<>>
        /\ stage \in Middle => cleanups \in {<<>>, <<Tracing>>}
        /\ stage \in Late   => cleanups \in {<<Abort>>, <<Tracing, Abort>>}

NothingRanYet == handler # "draining" => taken = <<>> /\ ran = <<>> /\ promised = <<>>

\* What was registered when the signal came is what has been run and what is yet to
\* be run, the last one first.
Draining ==
    handler = "draining" =>
        /\ promised \in {<<>>, <<Tracing>>, <<Abort>>, <<Tracing, Abort>>}
        /\ Reverse(promised) = ran \o Reverse(taken)

\* The abort of the loop is promised only once the loop has been started.
AbortPromised == Running /\ Abort \in ToSet(promised) => stage \in Late

\* A loop that was aborted begins no round more.
AbortedLoop == Abort \in ToSet(ran) => loop \in {"off", "finishing", "aborted"}

CleanupInv ==
    /\ HandlerInTime /\ HookedByStage /\ NothingRanYet /\ Draining
    /\ AbortPromised /\ AbortedLoop /\ SignalExitIsClean

(* ... and of the health checks.                                            *)

EndedIsOver == (stage = "over" <=> ~Running) /\ (~Running => loop = "off")

LoopInTime ==
    /\ loop # "off" => stage \in {"hook"} \cup Late
    /\ loop = "off" /\ Running => ~steady

\* The registry has every component, critical or not as it was registered.
AllRegistered ==
    DOMAIN registry = Components
    /\ \A c \in Components : registry[c].critical <=> c \in Critical

RegisteredByStage == stage \in {"start", "hook"} \cup Late => AllRegistered

\* What the loop has checked since its last tick is as reported, if nothing changed.
RoundAgrees ==
    steady =>
        /\ loop \in {"checking", "finishing"} =>
               \A i \in 1..(next - 1) : registry[Checks[i]].status = Status(Checks[i])
        /\ loop = "waiting" => \A c \in Components : registry[c].status = Status(c)

HealthInv == EndedIsOver /\ LoopInTime /\ RegisteredByStage /\ RoundAgrees

IInv == TypeOK /\ CleanupInv /\ HealthInv
-----------------------------------------------------------------------------
(* Sequences.                                                               *)

\* The items of a sequence are the members of its set of items.
LEMMA ItemsOfSequence ==
    ASSUME NEW S, NEW s \in Seq(S)
    PROVE  /\ ToSet(s) \subseteq S
           /\ \A i \in 1..Len(s) : s[i] \in ToSet(s)
           /\ \A x \in ToSet(s) : \E i \in 1..Len(s) : s[i] = x
BY ElementOfSeq, LenProperties DEF ToSet

\* The reverse of an empty sequence, and that of a sequence with a last item.
LEMMA ReverseUnfolds ==
    ASSUME NEW S, NEW s \in Seq(S)
    PROVE  /\ Reverse(s) \in Seq(S)
           /\ Len(Reverse(s)) = Len(s)
           /\ s = <<>> => Reverse(s) = <<>>
           /\ s # <<>> => /\ Front(s) \in Seq(S)
                          /\ Last(s) \in S
                          /\ Reverse(s) = <<Last(s)>> \o Reverse(Front(s))
<1>1. Len(s) \in Nat /\ s \in [1..Len(s) -> S]
  BY LenProperties
<1>2. Reverse(s) \in Seq(S) /\ Len(Reverse(s)) = Len(s)
  BY <1>1 DEF Reverse
<1>3. s = <<>> => Reverse(s) = <<>>
  BY <1>2, EmptySeq
<1>4. ASSUME s # <<>>
      PROVE  /\ Front(s) \in Seq(S)
             /\ Last(s) \in S
             /\ Reverse(s) = <<Last(s)>> \o Reverse(Front(s))
  <2>1. Len(s) >= 1
    BY <1>1, <1>4, EmptySeq
  <2>2. /\ Front(s) \in Seq(S)
        /\ Len(Front(s)) = Len(s) - 1
        /\ \A i \in 1..(Len(s) - 1) : Front(s)[i] = s[i]
    <3>1. \A i \in 1..(Len(s) - 1) : s[i] \in S
      BY <1>1, <2>1
    <3> QED  BY <1>1, <2>1, <3>1, SubSeqProperties DEF Front
  <2>3. Last(s) \in S /\ <<Last(s)>> \in Seq(S) /\ Len(<<Last(s)>>) = 1
    BY <1>1, <2>1 DEF Last
  <2>4. /\ Reverse(Front(s)) \in Seq(S)
        /\ Len(Reverse(Front(s))) = Len(s) - 1
        /\ \A i \in 1..(Len(s) - 1) : Reverse(Front(s))[i] = s[(Len(s) - i)]
    BY <1>1, <2>1, <2>2 DEF Reverse
  <2> DEFINE t == <<Last(s)>> \o Reverse(Front(s))
  <2>5. /\ t \in Seq(S)
        /\ Len(t) = Len(s)
        /\ \A i \in 1..Len(s) : t[i] = IF i <= 1 THEN <<Last(s)>>[i]
                                       ELSE Reverse(Front(s))[i - 1]
    <3> DEFINE u == <<Last(s)>>
               v == Reverse(Front(s))
    <3>1. u \in Seq(S) /\ v \in Seq(S) /\ Len(u) = 1 /\ Len(v) = Len(s) - 1
      BY <2>3, <2>4
    <3> HIDE DEF u, v
    <3>2. /\ u \o v \in Seq(S)
          /\ Len(u \o v) = Len(u) + Len(v)
          /\ \A i \in 1..Len(u) + Len(v) :
                 (u \o v)[i] = IF i <= Len(u) THEN u[i] ELSE v[i - Len(u)]
      BY <3>1, ConcatProperties, Zenon
    <3>3. Len(u) + Len(v) = Len(s)
      BY <1>1, <3>1
    <3>4. \A i \in 1..Len(s) : (u \o v)[i] = IF i <= 1 THEN u[i] ELSE v[i - 1]
      <4> DEFINE w == u \o v
      <4>1. \A i \in 1..Len(u) + Len(v) :
                 w[i] = IF i <= Len(u) THEN u[i] ELSE v[i - Len(u)]
        BY <3>2
      <4> HIDE DEF w
      <4>2. \A i \in 1..Len(s) : w[i] = IF i <= 1 THEN u[i] ELSE v[i - 1]
        BY <3>1, <3>3, <4>1
      <4> QED  BY <4>2 DEF w
    <3> QED  BY <3>2, <3>3, <3>4 DEF u, v
  <2>6. \A i \in 1..Len(s) : Reverse(s)[i] = t[i]
    <3> SUFFICES ASSUME NEW i \in 1..Len(s)  PROVE Reverse(s)[i] = t[i]
      OBVIOUS
    <3>1. Reverse(s)[i] = s[(Len(s) - i) + 1]
      BY <1>1 DEF Reverse
    <3>2. CASE i = 1
      BY <1>1, <2>1, <2>5, <3>1, <3>2 DEF Last
    <3>3. CASE i # 1
      BY <1>1, <2>1, <2>4, <2>5, <3>1, <3>3
    <3> QED  BY <3>2, <3>3
  <2> HIDE DEF t
  <2>7. Reverse(s) = t
    BY <1>2, <2>5, <2>6, SeqEqual
  <2> QED  BY <2>2, <2>3, <2>7 DEF t
<1> QED  BY <1>2, <1>3, <1>4

\* A sequence of two items.
LEMMA PairOf ==
    ASSUME NEW S, NEW s \in Seq(S), NEW x \in S, NEW y \in S,
           Len(s) = 2, s[1] = x, s[2] = y
    PROVE  s = <<x, y>>
<1> DEFINE t == <<x, y>>
<1>1. t \in Seq(S)
  OBVIOUS
<1>2. Len(t) = 2
  OBVIOUS
<1>3. t[1] = x /\ t[2] = y
  OBVIOUS
<1> HIDE DEF t
<1>4. Len(s) = Len(t) /\ \A i \in 1..Len(s) : s[i] = t[i]
  BY <1>2, <1>3
<1>5. s = t
  BY <1>1, <1>4, SeqEqual
<1> QED  BY <1>5 DEF t

\* One item and one more.
LEMMA AppendToOne ==
    ASSUME NEW S, NEW x \in S, NEW y \in S
    PROVE  Append(<<x>>, y) = <<x, y>>
<1> DEFINE s == <<x>>
           u == Append(s, y)
<1>1. s \in Seq(S) /\ Len(s) = 1 /\ s[1] = x
  OBVIOUS
<1> HIDE DEF s
<1>2. u[Len(s) + 1] = y
  BY <1>1, AppendProperties
<1>3. \A i \in 1..Len(s) : u[i] = s[i]
  BY <1>1
<1>4. u \in Seq(S) /\ Len(u) = Len(s) + 1
  BY <1>1, AppendProperties
<1>5. Len(u) = 2 /\ u[1] = x /\ u[2] = y
  BY <1>1, <1>2, <1>3, <1>4
<1> HIDE DEF u
<1>6. u = <<x, y>>
  BY <1>4, <1>5, PairOf
<1> QED  BY <1>6 DEF s, u

\* What on_shutdown makes of what was registered.
LEMMA Hooks ==
    /\ \A fs \in Seq(Cleanups), f \in Cleanups : Append(fs, f) \in Seq(Cleanups)
    /\ Append(<<>>, Tracing) = <<Tracing>>
    /\ Append(<<>>, Abort) = <<Abort>>
    /\ Append(<<Tracing>>, Abort) = <<Tracing, Abort>>
<1>1. \A fs \in Seq(Cleanups), f \in Cleanups : Append(fs, f) \in Seq(Cleanups)
  OBVIOUS
<1>2. Append(<<>>, Tracing) = <<Tracing>>
  OBVIOUS
<1>3. Append(<<>>, Abort) = <<Abort>>
  OBVIOUS
<1>4. Append(<<Tracing>>, Abort) = <<Tracing, Abort>>
  <2>1. Tracing \in Cleanups /\ Abort \in Cleanups
    BY DEF Tracing, Abort, Cleanups
  <2> QED  BY <2>1, AppendToOne, Zenon
<1> QED  BY <1>1, <1>2, <1>3, <1>4

\* The items of sequences put together, and of one that is reversed.
LEMMA ItemsOfConcat ==
    ASSUME NEW S, NEW s \in Seq(S), NEW t \in Seq(S)
    PROVE  ToSet(s \o t) = ToSet(s) \cup ToSet(t)
<1> DEFINE u == s \o t
<1>1. Len(s) \in Nat /\ Len(t) \in Nat
  BY LenProperties
<1>2. u \in Seq(S) /\ Len(u) = Len(s) + Len(t)
  BY ConcatProperties
<1>3. \A i \in 1..Len(s) + Len(t) : u[i] = IF i <= Len(s) THEN s[i] ELSE t[i - Len(s)]
  BY ConcatProperties, Zenon
<1> HIDE DEF u
<1>4. ASSUME NEW x \in ToSet(u)  PROVE x \in ToSet(s) \cup ToSet(t)
  <2>1. PICK i \in 1..Len(s) + Len(t) : u[i] = x
    BY <1>2, ItemsOfSequence
  <2>2. CASE i <= Len(s)
    BY <1>1, <1>3, <2>1, <2>2, ItemsOfSequence
  <2>3. CASE ~(i <= Len(s))
    <3>1. i - Len(s) \in 1..Len(t) /\ t[i - Len(s)] = x
      BY <1>1, <1>3, <2>1, <2>3
    <3> QED  BY <3>1, ItemsOfSequence
  <2> QED  BY <2>2, <2>3
<1>5. ASSUME NEW x \in ToSet(s)  PROVE x \in ToSet(u)
  <2>1. PICK i \in 1..Len(s) : s[i] = x
    BY ItemsOfSequence
  <2>2. i \in 1..Len(u) /\ u[i] = x
    BY <1>1, <1>2, <1>3, <2>1
  <2> QED  BY <1>2, <2>2, ItemsOfSequence
<1>6. ASSUME NEW x \in ToSet(t)  PROVE x \in ToSet(u)
  <2>1. PICK i \in 1..Len(t) : t[i] = x
    BY ItemsOfSequence
  <2>2. /\ Len(s) + i \in 1..Len(s) + Len(t)
        /\ ~(Len(s) + i <= Len(s))
        /\ (Len(s) + i) - Len(s) = i
    BY <1>1, <2>1
  <2>3. u[Len(s) + i] = t[(Len(s) + i) - Len(s)]
    BY <1>3, <2>2
  <2> QED  BY <1>2, <2>1, <2>2, <2>3, ItemsOfSequence
<1>7. ToSet(u) = ToSet(s) \cup ToSet(t)
  BY <1>4, <1>5, <1>6
<1> QED  BY <1>7 DEF u

LEMMA ItemsOfReverse ==
    ASSUME NEW S, NEW s \in Seq(S)
    PROVE  ToSet(Reverse(s)) = ToSet(s)
<1>1. Len(s) \in Nat /\ Reverse(s) \in Seq(S) /\ Len(Reverse(s)) = Len(s)
  BY LenProperties, ReverseUnfolds
<1>2. ASSUME NEW i \in 1..Len(s)
      PROVE  /\ (Len(s) - i) + 1 \in 1..Len(s)
             /\ Reverse(s)[i] = s[(Len(s) - i) + 1]
             /\ Reverse(s)[(Len(s) - i) + 1] = s[i]
  BY <1>1 DEF Reverse
<1>3. ASSUME NEW x \in ToSet(s)  PROVE x \in ToSet(Reverse(s))
  <2>1. PICK i \in 1..Len(s) : s[i] = x
    BY ItemsOfSequence
  <2> QED  BY <1>1, <1>2, <2>1, ItemsOfSequence
<1>4. ASSUME NEW x \in ToSet(Reverse(s))  PROVE x \in ToSet(s)
  <2>1. PICK i \in 1..Len(s) : Reverse(s)[i] = x
    BY <1>1, ItemsOfSequence
  <2> QED  BY <1>2, <2>1, ItemsOfSequence
<1> QED  BY <1>3, <1>4

LEMMA ItemsOfAppend ==
    ASSUME NEW S, NEW s \in Seq(S), NEW x \in S
    PROVE  ToSet(Append(s, x)) = ToSet(s) \cup {x}
<1> DEFINE t == <<x>>
<1>1. Append(s, x) = s \o t
  BY AppendIsConcat
<1>2. t \in Seq(S) /\ ToSet(t) = {x}
  BY DEF ToSet
<1> HIDE DEF t
<1>3. ToSet(s \o t) = ToSet(s) \cup ToSet(t)
  BY <1>2, ItemsOfConcat
<1> QED  BY <1>1, <1>2, <1>3

\* An item that moves from the end of one sequence to the end of another, the one
\* read backwards after the other, leaves what is read.
LEMMA LastMoves ==
    ASSUME NEW S, NEW r \in Seq(S), NEW t \in Seq(S), t # <<>>
    PROVE  Append(r, Last(t)) \o Reverse(Front(t)) = r \o Reverse(t)
<1> DEFINE one == <<Last(t)>>
           rest == Reverse(Front(t))
<1>1. Front(t) \in Seq(S) /\ Last(t) \in S /\ Reverse(t) = one \o rest
  BY ReverseUnfolds
<1>2. one \in Seq(S)
  BY <1>1
<1>3. rest \in Seq(S)
  BY <1>1, ReverseUnfolds
<1>4. Append(r, Last(t)) = r \o one
  BY <1>1, AppendIsConcat
<1> HIDE DEF one, rest
<1>5. (r \o one) \o rest = r \o (one \o rest)
  BY <1>2, <1>3, ConcatAssociative
<1>6. Append(r, Last(t)) \o rest = r \o Reverse(t)
  BY <1>1, <1>4, <1>5
<1> QED  BY <1>6 DEF rest

\* No cleanup is run, or taken, that was not registered when the signal came.
LEMMA OnlyThePromised ==
    TypeOK /\ CleanupInv => ToSet(ran) \cup ToSet(taken) \subseteq ToSet(promised)
<1> SUFFICES ASSUME TypeOK, CleanupInv
             PROVE  ToSet(ran) \cup ToSet(taken) \subseteq ToSet(promised)
  OBVIOUS
<1>1. ran \in Seq(Cleanups) /\ taken \in Seq(Cleanups) /\ promised \in Seq(Cleanups)
  BY DEF TypeOK
<1>2. CASE handler = "draining"
  <2>1. Reverse(promised) = ran \o Reverse(taken)
    BY <1>2 DEF CleanupInv, Draining
  <2>2. Reverse(taken) \in Seq(Cleanups)
    BY <1>1, ReverseUnfolds
  <2>3. ToSet(ran \o Reverse(taken)) = ToSet(ran) \cup ToSet(Reverse(taken))
    BY <1>1, <2>2, ItemsOfConcat, Zenon
  <2>4. /\ ToSet(Reverse(promised)) = ToSet(promised)
        /\ ToSet(Reverse(taken)) = ToSet(taken)
    BY <1>1, ItemsOfReverse
  <2> QED  BY <2>1, <2>3, <2>4
<1>3. CASE handler # "draining"
  <2>1. ran = <<>> /\ taken = <<>>
    BY <1>3 DEF CleanupInv, NothingRanYet
  <2> QED  BY <2>1 DEF ToSet
<1> QED  BY <1>2, <1>3

\* The abort is not among what is registered before it.
LEMMA NoAbortYet == Abort \notin ToSet(<<>>) /\ Abort \notin ToSet(<<Tracing>>)
BY DEF ToSet, Abort, Tracing

-----------------------------------------------------------------------------
(* The initial states, and the steps of each actor.                         *)

\* A process begins with nothing registered, hooked or promised.
LEMMA Begins == Init => IInv
<1> SUFFICES ASSUME Init  PROVE IInv
  OBVIOUS
<1> USE DEF Init
<1>1. /\ <<>> \in Seq(Cleanups) /\ ToSet(<<>>) = {} /\ DOMAIN registry = {}
  BY EmptySeq DEF ToSet
<1>2. 1 \in 1..Len(Checks) + 1
  BY LifecycleAssumption, LenProperties
<1>3. TypeOK
  <2>1. stage \in Stages /\ traced \in BOOLEAN /\ steady \in BOOLEAN
    BY DEF Stages
  <2>2. signals \in 0..MaxSignals /\ changes \in 0..MaxChanges
    BY LifecycleAssumption
  <2>3. \A c \in DOMAIN registry : registry[c] \in Registered
    BY <1>1
  <2> QED  BY <1>1, <1>2, <2>1, <2>2, <2>3 DEF TypeOK
<1>4. CleanupInv
  BY <1>1 DEF CleanupInv, HandlerInTime, HookedByStage, NothingRanYet, Draining,
     AbortPromised, AbortedLoop, SignalExitIsClean, Early, Middle, Late, Running
<1>5. HealthInv
  BY DEF HealthInv, EndedIsOver, LoopInTime, RegisteredByStage, RoundAgrees, Late,
     Running
<1> QED  BY <1>3, <1>4, <1>5 DEF IInv

\* A step of main: most only move on, two hook a cleanup, one registers the checks and
\* one starts the loop.
LEMMA MainSteps == IInv /\ Main => IInv'
<1> SUFFICES ASSUME IInv, Main  PROVE IInv'
  OBVIOUS
<1> USE DEF IInv, Goes, Running, shutdown, health, outside
<1>1. CASE Configure \/ InstallHandlers \/ ResolveStore \/ Serve
  <2> USE <1>1 DEF Configure, InstallHandlers, ResolveStore, Serve
  <2>1. TypeOK'
    BY DEF TypeOK, Stages
  <2>2. CleanupInv'
    BY DEF CleanupInv, HandlerInTime, HookedByStage, NothingRanYet, Draining,
       AbortPromised, AbortedLoop, SignalExitIsClean, Early, Middle, Late
  <2>3. HealthInv'
    BY DEF HealthInv, EndedIsOver, LoopInTime, RegisteredByStage, AllRegistered,
       RoundAgrees, Status, Late
  <2> QED  BY <2>1, <2>2, <2>3
<1>2. CASE HookTracing \/ HookHealthChecks
  <2> USE <1>2, Hooks DEF HookTracing, HookHealthChecks, OnShutdown, Tracing, Abort
  <2>1. TypeOK'
    BY DEF Cleanups, TypeOK, Stages
  <2>2. CleanupInv'
    BY DEF CleanupInv, HandlerInTime, HookedByStage, NothingRanYet, Draining,
       AbortPromised, AbortedLoop, SignalExitIsClean, Early, Middle, Late
  <2>3. HealthInv'
    BY DEF HealthInv, EndedIsOver, LoopInTime, RegisteredByStage, AllRegistered,
       RoundAgrees, Status, Late
  <2> QED  BY <2>1, <2>2, <2>3
<1>3. CASE Register
  <2> USE <1>3 DEF Register
  <2>1. TypeOK'
    BY DEF Registered, TypeOK, Stages
  <2>2. CleanupInv'
    BY DEF CleanupInv, HandlerInTime, HookedByStage, NothingRanYet, Draining,
       AbortPromised, AbortedLoop, SignalExitIsClean, Early, Middle, Late
  <2>3. HealthInv'
    BY DEF HealthInv, EndedIsOver, LoopInTime, RegisteredByStage, AllRegistered,
       RoundAgrees, Status, Late
  <2> QED  BY <2>1, <2>2, <2>3
<1>4. CASE StartLoop
  <2> USE <1>4 DEF StartLoop
  <2>1. TypeOK'
    BY DEF TypeOK, Stages
  <2>2. CleanupInv'
    BY OnlyThePromised DEF CleanupInv, HandlerInTime, HookedByStage, NothingRanYet,
       Draining, AbortPromised, AbortedLoop, SignalExitIsClean, Early, Middle, Late
  <2>3. HealthInv'
    BY DEF HealthInv, EndedIsOver, LoopInTime, RegisteredByStage, AllRegistered,
       RoundAgrees, Status, Late
  <2> QED  BY <2>1, <2>2, <2>3
<1> QED  BY <1>1, <1>2, <1>3, <1>4 DEF Main

\* The end of the process, however it comes, keeps the invariant: only the end by a
\* signal has to have run what was promised, and it comes when nothing is left to run.
LEMMA Ends == IInv /\ (StartupFails \/ Disconnect \/ ExitOnSignal \/ Killed) => IInv'
<1> SUFFICES ASSUME IInv, StartupFails \/ Disconnect \/ ExitOnSignal \/ Killed  PROVE IInv'
  OBVIOUS
<1> USE DEF IInv, Running, shutdown, outside
<1>1. \E how \in {"error", "returned", "signal", "killed"} : Exit(how)
  BY DEF StartupFails, Disconnect, ExitOnSignal, Killed
<1>2. UNCHANGED <<handler, cleanups, taken, ran, promised>> /\ signals' \in 0..MaxSignals
  BY LifecycleAssumption DEF StartupFails, Disconnect, ExitOnSignal, Killed, Signal,
     TypeOK
<1>3. exit' = "signal" => handler = "draining" /\ taken = <<>>
  BY DEF StartupFails, Disconnect, ExitOnSignal, Killed, Exit
<1>4. TypeOK'
  BY <1>1, <1>2 DEF Exit, TypeOK, Stages
<1>5. SignalExitIsClean'
  <2> SUFFICES ASSUME exit' = "signal"  PROVE ran = Reverse(promised)
    BY <1>2 DEF SignalExitIsClean
  <2>1. /\ ran \in Seq(Cleanups)
        /\ Reverse(promised) = ran \o Reverse(<<>>)
    BY <1>3 DEF TypeOK, CleanupInv, Draining
  <2>2. Reverse(<<>>) = <<>>
    BY EmptySeq, ReverseUnfolds
  <2> QED  BY <2>1, <2>2, ConcatEmptySeq
<1>6. CleanupInv'
  BY <1>1, <1>2, <1>5 DEF Exit, CleanupInv, HandlerInTime, HookedByStage,
     NothingRanYet, Draining, AbortPromised, AbortedLoop, Early, Middle, Late
<1>7. HealthInv'
  BY <1>1 DEF Exit, HealthInv, EndedIsOver, LoopInTime, RegisteredByStage,
     AllRegistered, RoundAgrees, Status, Late
<1> QED  BY <1>4, <1>6, <1>7

\* The steps of the handler's task that leave the process running.
LEMMA HandlerSteps == IInv /\ (Listen \/ Shutdown \/ SignalIgnored) => IInv'
<1> SUFFICES ASSUME IInv, Listen \/ Shutdown \/ SignalIgnored  PROVE IInv'
  OBVIOUS
<1> USE DEF IInv, Running, main, health, outside
<1>1. UNCHANGED <<stage, transport, traced, exit, ran, loop, next, registry, world, changes, steady>>
  BY DEF Listen, Shutdown, SignalIgnored
<1>2. HealthInv'
  BY <1>1 DEF HealthInv, EndedIsOver, LoopInTime, RegisteredByStage, AllRegistered,
            RoundAgrees, Status, Late
<1>3. CASE Listen
  <2>1. TypeOK'
    BY <1>3 DEF Listen, TypeOK
  <2>2. CleanupInv'
    BY <1>3 DEF Listen, CleanupInv, HandlerInTime, HookedByStage, NothingRanYet,
       Draining, AbortPromised, AbortedLoop, SignalExitIsClean, Early, Middle, Late
  <2> QED  BY <1>2, <2>1, <2>2
<1>4. CASE Shutdown
  <2>1. TypeOK'
    BY <1>4, LifecycleAssumption DEF Shutdown, Signal, TypeOK
  <2>2. Draining'
    <3>1. ran = <<>> /\ Reverse(cleanups) \in Seq(Cleanups)
      BY <1>4, ReverseUnfolds DEF Shutdown, TypeOK, CleanupInv, NothingRanYet
    <3>2. Reverse(cleanups) = <<>> \o Reverse(cleanups)
      BY <3>1, ConcatEmptySeq
    <3>3. cleanups \in {<<>>, <<Tracing>>, <<Abort>>, <<Tracing, Abort>>}
      BY <1>4 DEF Shutdown, CleanupInv, HookedByStage, HealthInv, EndedIsOver,
         TypeOK, Stages, Early, Middle, Late
    <3> QED  BY <1>1, <1>4, <3>1, <3>2, <3>3 DEF Shutdown, Draining
  <2>3. AbortPromised'
    BY <1>1, <1>4, NoAbortYet DEF Shutdown, AbortPromised, CleanupInv, HookedByStage,
       HealthInv, EndedIsOver, TypeOK, Stages, Early, Middle, Late
  <2>4. CleanupInv'
    BY <1>1, <1>4, <2>2, <2>3 DEF Shutdown, CleanupInv, HandlerInTime, HookedByStage,
       NothingRanYet, Draining, AbortPromised, AbortedLoop, SignalExitIsClean, Early,
       Middle, Late
  <2> QED  BY <1>2, <2>1, <2>4
<1>5. CASE SignalIgnored
  <2>1. TypeOK'
    BY <1>5, LifecycleAssumption DEF SignalIgnored, Signal, TypeOK
  <2>2. CleanupInv'
    BY <1>5 DEF SignalIgnored, CleanupInv, HandlerInTime, HookedByStage, NothingRanYet,
       Draining, AbortPromised, AbortedLoop, SignalExitIsClean, Early, Middle, Late
  <2> QED  BY <1>2, <2>1, <2>2
<1> QED  BY <1>3, <1>4, <1>5
\* A cleanup that is run moves from what is left to what was run; the one that aborts
\* the loop leaves it no round to begin.
LEMMA CleanupSteps == IInv /\ Cleanup => IInv'
<1> SUFFICES ASSUME IInv, Cleanup  PROVE IInv'
  OBVIOUS
<1> USE DEF IInv, Cleanup, Running, main, outside
<1> DEFINE f == Last(taken)
<1>1. /\ ran \in Seq(Cleanups) /\ taken \in Seq(Cleanups) /\ taken # <<>>
      /\ promised \in Seq(Cleanups)
  BY DEF TypeOK
<1>2. /\ f \in Cleanups
      /\ Front(taken) \in Seq(Cleanups)
      /\ Reverse(taken) = <<f>> \o Reverse(Front(taken))
  BY <1>1, ReverseUnfolds
<1>3. loop' \in IF f = Abort THEN {"finishing", "aborted"} ELSE {loop}
  BY DEF CleansUp, Aborted, Abort
<1>4. loop' = "finishing" => loop \in {"checking", "finishing"}
  BY DEF CleansUp, Aborted, Checking
<1>5. f \in ToSet(promised)
  <2>1. Len(taken) \in 1..Len(taken) /\ f = taken[Len(taken)]
    BY <1>1, EmptySeq, LenProperties DEF Last
  <2> QED  BY <1>1, <2>1, ItemsOfSequence, OnlyThePromised
<1> HIDE DEF f
<1>6. TypeOK'
  <2>1. ran' \in Seq(Cleanups)
    BY <1>1, <1>2, AppendProperties DEF f
  <2>2. loop' \in {"off", "waiting", "checking", "finishing", "aborted"}
    BY <1>3 DEF TypeOK
  <2> QED  BY <1>2, <2>1, <2>2 DEF TypeOK
<1>7. Draining'
  BY <1>1, LastMoves DEF CleanupInv, Draining
<1>8. AbortedLoop'
  <2>1. ToSet(ran') = ToSet(ran) \cup {f}
    BY <1>1, <1>2, ItemsOfAppend DEF f
  <2> QED  BY <1>3, <2>1 DEF CleanupInv, AbortedLoop
<1>9. CleanupInv'
  BY <1>7, <1>8 DEF CleanupInv, HandlerInTime, HookedByStage, NothingRanYet,
     AbortPromised, SignalExitIsClean, HealthInv, EndedIsOver
<1>10. f = Abort => stage \in Late
  BY <1>5 DEF CleanupInv, AbortPromised
<1>11. EndedIsOver' /\ LoopInTime' /\ RegisteredByStage'
  BY <1>3, <1>10 DEF HealthInv, EndedIsOver, LoopInTime, RegisteredByStage,
     AllRegistered
<1>12. RoundAgrees'
  BY <1>3, <1>4 DEF HealthInv, RoundAgrees, Status
<1> QED  BY <1>6, <1>9, <1>11, <1>12 DEF HealthInv

-----------------------------------------------------------------------------
(* The steps of the health checks.                                          *)

\* What the parts about main and the handler need to know of a step of the loop.
LEMMA LoopLeavesTheRest ==
    /\ CleanupInv
    /\ UNCHANGED <<main, exit, shutdown>>
    /\ loop \in {"waiting", "checking"} \/ loop' \in {loop, "aborted"}
    => CleanupInv'
BY DEF CleanupInv, HandlerInTime, HookedByStage, NothingRanYet, Draining, AbortPromised,
   AbortedLoop, SignalExitIsClean, Running, main, shutdown

LEMMA Ticks == IInv /\ HealthTick => IInv'
<1> SUFFICES ASSUME IInv, HealthTick  PROVE IInv'
  OBVIOUS
<1> USE DEF IInv, HealthTick, Running
<1>1. Len(Checks) \in Nat
  BY LifecycleAssumption, LenProperties
<1>2. TypeOK'
  BY <1>1 DEF TypeOK, main, shutdown
<1>3. CleanupInv'
  <2>1. UNCHANGED <<main, exit, shutdown>> /\ loop = "waiting"
    OBVIOUS
  <2> QED  BY <2>1, LoopLeavesTheRest
<1>4. HealthInv'
  BY DEF HealthInv, EndedIsOver, LoopInTime, RegisteredByStage, AllRegistered,
     RoundAgrees, Late, main
<1> QED  BY <1>2, <1>3, <1>4

\* A check that ended reports what the world is like, and keeps `critical`.
LEMMA ChecksEnd ==
    IInv /\ (\E c \in Components : CheckReturns(c) \/ CheckTimesOut(c)) => IInv'
<1> SUFFICES ASSUME IInv, NEW c \in Components, CheckReturns(c) \/ CheckTimesOut(c)
             PROVE  IInv'
  OBVIOUS
<1> USE DEF IInv, Running
<1>1. Checking(c) /\ Checked(c)
  BY DEF CheckReturns, CheckTimesOut
<1>2. /\ loop \in {"checking", "finishing"}
      /\ next \in 1..Len(Checks) /\ next' = next + 1 /\ Len(Checks) \in Nat
      /\ c = Checks[next]
      /\ UNCHANGED <<main, exit, shutdown, loop, outside>>
  BY <1>1, LifecycleAssumption, LenProperties DEF Checking, Checked, TypeOK
<1>3. AllRegistered
  BY <1>2 DEF HealthInv, LoopInTime, RegisteredByStage, Late
<1>4. /\ DOMAIN registry' = Components
      /\ \A d \in Components :
             registry'[d] = IF d = c THEN [registry[d] EXCEPT !.status = Status(c)]
                                     ELSE registry[d]
  BY <1>1, <1>3 DEF Checked, Report, AllRegistered
<1>5. \A d \in Components :
          /\ registry'[d] \in Registered
          /\ registry'[d].critical = registry[d].critical
          /\ registry'[d].status = IF d = c THEN Status(c) ELSE registry[d].status
  BY <1>3, <1>4 DEF TypeOK, AllRegistered, Registered, Status
<1>6. TypeOK'
  BY <1>2, <1>4, <1>5 DEF TypeOK, main, shutdown, outside
<1>7. CleanupInv'
  BY <1>2, LoopLeavesTheRest
<1>8. EndedIsOver' /\ LoopInTime'
  BY <1>2 DEF HealthInv, EndedIsOver, LoopInTime, main, outside
<1>9. RegisteredByStage'
  BY <1>2, <1>3, <1>4, <1>5 DEF RegisteredByStage, AllRegistered, main
<1>10. RoundAgrees'
  <2> SUFFICES ASSUME steady, NEW i \in 1..next
               PROVE  registry'[Checks[i]].status = Status(Checks[i])
    BY <1>2 DEF RoundAgrees, Status, outside
  <2>1. Checks[i] \in Components
    BY <1>2, LifecycleAssumption, ItemsOfSequence DEF Components
  <2>2. CASE i = next
    BY <1>2, <1>5, <2>1, <2>2
  <2>3. CASE i # next
    <3>1. registry[Checks[i]].status = Status(Checks[i])
      BY <1>2, <2>3 DEF HealthInv, RoundAgrees
    <3> QED  BY <1>5, <2>1, <3>1
  <2> QED  BY <2>2, <2>3
<1> QED  BY <1>6, <1>7, <1>8, <1>9, <1>10 DEF HealthInv

\* A round that ends has checked every component.
LEMMA RoundsEnd == IInv /\ RunOnceEnds => IInv'
<1> SUFFICES ASSUME IInv, RunOnceEnds  PROVE IInv'
  OBVIOUS
<1> USE DEF IInv, RunOnceEnds, Running
<1>1. Len(Checks) \in Nat /\ next - 1 = Len(Checks)
  BY LifecycleAssumption, LenProperties DEF TypeOK
<1>2. TypeOK'
  BY DEF TypeOK, main, shutdown, outside
<1>3. CleanupInv'
  <2>1. /\ UNCHANGED <<main, exit, shutdown>>
        /\ \/ loop = "checking"
           \/ loop = "finishing" /\ loop' = "aborted"
    OBVIOUS
  <2> QED  BY <2>1, LoopLeavesTheRest
<1>4. EndedIsOver' /\ LoopInTime' /\ RegisteredByStage'
  BY DEF HealthInv, EndedIsOver, LoopInTime, RegisteredByStage, AllRegistered, Late,
     main, outside
<1>5. RoundAgrees'
  <2> SUFFICES ASSUME steady, NEW c \in Components  PROVE registry[c].status = Status(c)
    BY DEF RoundAgrees, Status, outside
  <2>1. PICK i \in 1..Len(Checks) : Checks[i] = c
    BY LifecycleAssumption, ItemsOfSequence DEF Components
  <2> QED  BY <1>1, <2>1 DEF HealthInv, RoundAgrees
<1> QED  BY <1>2, <1>3, <1>4, <1>5 DEF HealthInv

\* An aborted loop that yields does nothing more.
LEMMA LoopYields == IInv /\ Yields => IInv'
<1> SUFFICES ASSUME IInv, Yields  PROVE IInv'
  OBVIOUS
<1> USE DEF IInv, Yields, Running
<1>1. TypeOK'
  BY DEF TypeOK, main, shutdown, outside
<1>2. CleanupInv'
  BY LoopLeavesTheRest
<1>3. HealthInv'
  BY DEF HealthInv, EndedIsOver, LoopInTime, RegisteredByStage, AllRegistered,
     RoundAgrees, Status, main, outside
<1> QED  BY <1>1, <1>2, <1>3

\* A world that changed is no longer steady.
LEMMA Changes == IInv /\ (\E c \in Components : Change(c)) => IInv'
<1> SUFFICES ASSUME IInv, NEW c \in Components, Change(c)  PROVE IInv'
  OBVIOUS
<1> USE DEF IInv, Change, Running, main, shutdown, health
<1>1. TypeOK'
  <2>1. changes' \in 0..MaxChanges
    BY LifecycleAssumption DEF TypeOK
  <2>2. world' \in [Components -> {"up", "down", "silent"}]
    BY DEF TypeOK
  <2> QED  BY <2>1, <2>2 DEF TypeOK
<1>2. CleanupInv'
  BY DEF CleanupInv, HandlerInTime, HookedByStage, NothingRanYet, Draining,
     AbortPromised, AbortedLoop, SignalExitIsClean
<1>3. HealthInv'
  BY DEF HealthInv, EndedIsOver, LoopInTime, RegisteredByStage, AllRegistered,
     RoundAgrees
<1> QED  BY <1>1, <1>2, <1>3
-----------------------------------------------------------------------------
(* What the invariant says of every reachable state.                        *)

\* When tracing has been shut down and the abort of the loop was promised, the abort
\* came first: it was registered last.
LEMMA AbortComesFirst ==
    IInv /\ Tracing \in ToSet(ran) /\ Abort \in ToSet(promised) => Abort \in ToSet(ran)
<1> SUFFICES ASSUME IInv, Tracing \in ToSet(ran), Abort \in ToSet(promised)
             PROVE  Abort \in ToSet(ran)
  OBVIOUS
<1>1. ran \in Seq(Cleanups) /\ taken \in Seq(Cleanups) /\ promised \in Seq(Cleanups)
  BY DEF IInv, TypeOK
<1>2. Len(ran) \in Nat /\ 1 \in 1..Len(ran)
  BY <1>1, ItemsOfSequence, LenProperties
<1>3. handler = "draining"
  BY <1>1, <1>2, EmptySeq DEF IInv, CleanupInv, NothingRanYet
<1>4. promised = <<Tracing, Abort>>
  <2>1. Tracing \in ToSet(promised)
    BY OnlyThePromised DEF IInv
  <2>2. Tracing \notin ToSet(<<>>) /\ Tracing \notin ToSet(<<Abort>>)
    BY DEF ToSet, Abort, Tracing
  <2> QED  BY <1>3, <2>1, <2>2, NoAbortYet DEF IInv, CleanupInv, Draining
<1>5. Reverse(promised)[1] = Abort
  <2>1. Len(promised) = 2 /\ promised[2] = Abort
    BY <1>4
  <2> QED  BY <2>1 DEF Reverse
<1>6. (ran \o Reverse(taken))[1] = ran[1]
  BY <1>1, <1>2, ReverseUnfolds, ConcatProperties
<1>7. ran[1] = Abort
  BY <1>3, <1>5, <1>6 DEF IInv, CleanupInv, Draining
<1> QED  BY <1>1, <1>2, <1>7, ItemsOfSequence

\* After a round over a steady world the registry says of each component how it is.
LEMMA HealthzAgrees == IInv => HealthzIsTruthful
<1> SUFFICES ASSUME IInv, steady, loop = "waiting"
             PROVE  Healthz = 503 <=> \E c \in Critical : world[c] # "up"
  BY DEF HealthzIsTruthful
<1>1. AllRegistered
  BY DEF IInv, HealthInv, LoopInTime, RegisteredByStage
<1>2. \A c \in Components : registry[c].status = Status(c)
  BY DEF IInv, HealthInv, RoundAgrees
<1>3. Healthz = 503 <=> \E c \in Components : c \in Critical /\ Status(c) = "Unhealthy"
  BY <1>1, <1>2 DEF Healthz, OverallStatus, AllRegistered
<1> QED  BY <1>3, LifecycleAssumption DEF Status, Components

LEMMA Invariance == Spec => []IInv
<1>1. IInv /\ [Next]_vars => IInv'
  <2> SUFFICES ASSUME IInv, [Next]_vars  PROVE IInv'
    OBVIOUS
  <2>1. CASE Main
    BY <2>1, MainSteps
  <2>2. CASE StartupFails \/ Disconnect \/ ExitOnSignal \/ Killed
    BY <2>2, Ends
  <2>3. CASE Listen \/ Shutdown \/ SignalIgnored
    BY <2>3, HandlerSteps
  <2>4. CASE Cleanup
    BY <2>4, CleanupSteps
  <2>5. CASE HealthTick
    BY <2>5, Ticks
  <2>6. CASE \E c \in Components : CheckReturns(c) \/ CheckTimesOut(c)
    BY <2>6, ChecksEnd
  <2>7. CASE RunOnceEnds
    BY <2>7, RoundsEnd
  <2>8. CASE \E c \in Components : Change(c)
    BY <2>8, Changes
  <2>9. CASE UNCHANGED vars
    <3> USE <2>9 DEF vars, main, shutdown, health, outside
    <3>1. TypeOK'
      BY DEF IInv, TypeOK
    <3>2. CleanupInv'
      BY DEF IInv, CleanupInv, HandlerInTime, HookedByStage, NothingRanYet, Draining,
         AbortPromised, AbortedLoop, SignalExitIsClean, Running
    <3>3. HealthInv'
      BY DEF IInv, HealthInv, EndedIsOver, LoopInTime, RegisteredByStage, AllRegistered,
         RoundAgrees, Status, Running
    <3> QED  BY <3>1, <3>2, <3>3 DEF IInv
  <2>10. CASE Yields
    BY <2>10, LoopYields
  <2> QED
    BY <2>1, <2>2, <2>3, <2>4, <2>5, <2>6, <2>7, <2>8, <2>9, <2>10 DEF Next, Handler,
       HealthLoop, Over
<1> QED  BY Begins, <1>1, PTL DEF Spec

\* A loop that goes on though it was aborted is in a round that has come to a check
\* that blocks.
FinishesARound ==
    loop = "finishing" => \E i \in 1..Len(Checks) : i <= next /\ Checks[i] \in Blocking

\* Only a cleanup that meets the loop in such a check lets it go on.
LEMMA FinishingStep == IInv /\ FinishesARound /\ [Next]_vars => FinishesARound'
<1> SUFFICES ASSUME IInv, FinishesARound, [Next]_vars, loop' = "finishing"
             PROVE  \E i \in 1..Len(Checks) : i <= next' /\ Checks[i] \in Blocking
  BY DEF FinishesARound
<1>1. next \in 1..Len(Checks) + 1 /\ Len(Checks) \in Nat
  BY LifecycleAssumption, LenProperties DEF IInv, TypeOK
<1>2. CASE Cleanup
  <2>1. CASE loop = "finishing"
    BY <1>2, <2>1 DEF Cleanup, FinishesARound
  <2>2. CASE loop # "finishing"
    <3>1. PICK c \in Blocking : Checking(c)
      BY <1>2, <2>2 DEF Cleanup, CleansUp, Aborted
    <3> QED  BY <1>1, <1>2, <3>1 DEF Cleanup, Checking
  <2> QED  BY <2>1, <2>2
<1>3. CASE \E c \in Components : CheckReturns(c) \/ CheckTimesOut(c)
  <2>1. loop = "finishing" /\ next' = next + 1
    BY <1>3 DEF CheckReturns, CheckTimesOut, Checked
  <2> QED  BY <1>1, <2>1 DEF FinishesARound
<1>4. CASE ~Cleanup /\ ~(\E c \in Components : CheckReturns(c) \/ CheckTimesOut(c))
  <2>1. loop = "finishing" /\ next' = next
    BY <1>4 DEF Next, Main, Handler, HealthLoop, Over, vars, main, shutdown, health, outside,
       Configure, InstallHandlers, HookTracing, ResolveStore, Register, StartLoop,
       HookHealthChecks, Serve, StartupFails, Disconnect, ExitOnSignal, Exit, Killed, Listen,
       Shutdown, SignalIgnored, HealthTick, Yields, RunOnceEnds, Change
  <2> QED  BY <2>1 DEF FinishesARound
<1> QED  BY <1>2, <1>3, <1>4

LEMMA OnlyBlockedRoundsFinish == Spec => []FinishesARound
<1>1. Init => FinishesARound
  BY DEF Init, FinishesARound
<1> QED  BY Invariance, FinishingStep, <1>1, PTL DEF Spec

\* Each of the tasks that share them finds the process's state of its type.
THEOREM TypeCorrect == Spec => []TypeOK
<1>1. IInv => TypeOK
  BY DEF IInv
<1> QED  BY Invariance, <1>1, PTL

\* shutdown() awaits every cleanup that was registered when the signal came, the last
\* one first, before the process exits: whatever stage of its start the signal
\* interrupts, whatever main registers meanwhile and however many signals follow.
THEOREM SignalExitsClean == Spec => []SignalExitIsClean
<1>1. IInv => SignalExitIsClean
  BY DEF IInv, CleanupInv
<1> QED  BY Invariance, <1>1, PTL

\* main hooks the abort of the loop after the tracer's shutdown, and the cleanups run in
\* reverse.  So once tracing is shut down no round of checks begins, and none is waited
\* for: what may still run, and log, is the rest of a round that the abort met at or past
\* a check that blocks.  With main's one check that is this check alone.
THEOREM NoRoundAfterTracing == Spec => []QuietAfterTracing
<1>1. IInv /\ FinishesARound => QuietAfterTracing
  BY AbortComesFirst DEF IInv, CleanupInv, AbortedLoop, FinishesARound, QuietAfterTracing,
     Tracing, Abort
<1> QED  BY Invariance, OnlyBlockedRoundsFinish, <1>1, PTL

\* ComponentRegistry::report keeps what was registered as critical and run_once reports
\* on every check, those that time out too: after a round over a world that did not
\* change, /healthz fails if and only if something critical is not up.
THEOREM HealthzTellsTheTruth == Spec => []HealthzIsTruthful
<1>1. IInv => HealthzIsTruthful
  BY HealthzAgrees
<1> QED  BY Invariance, <1>1, PTL
=============================================================================
