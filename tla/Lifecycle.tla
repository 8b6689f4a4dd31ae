------------------------------ MODULE Lifecycle ------------------------------
(***************************************************************************)
(* The life of one server process: run_harness_server of main.rs, the      *)
(* cleanups and the signal handler of core/shutdown_handler.rs, and the    *)
(* loop of core/health_check_manager.rs, which reports to the registry     *)
(* that /healthz reads.  The three run at the same time from the moment    *)
(* main starts them, and a signal may arrive at any moment.                *)
(*                                                                         *)
(* main registers one check, "store", critical; the manager takes any      *)
(* number of them, and the model has a set.                                *)
(***************************************************************************)
EXTENDS Naturals, Sequences, SequencesExt

CONSTANTS Checks,      \* in the order of their registration
          Critical,    \* the critical ones
          Blocking,    \* those that never yield, as "store": it opens a file
          MaxSignals,  \* bound on the signals
          MaxChanges   \* bound on the changes of the outside world

ASSUME LifecycleAssumption ==
    /\ Checks \in Seq(STRING)
    /\ Critical \subseteq ToSet(Checks)
    /\ Blocking \subseteq ToSet(Checks)
    /\ MaxSignals \in Nat
    /\ MaxChanges \in Nat

Components == ToSet(Checks)

\* What main has yet to do, in the order of the code.
Stages == {"config", "handlers", "tracing", "store", "register", "start", "hook",
           "serve", "serving", "over"}

Cleanups == {"shutdown_tracing", "abort_health_checks"}

VARIABLES
    stage,      \* of main
    transport,
    traced,     \* whether build_layer gave a tracer provider
    exit,       \* how the process ended
    handler,    \* the task that waits for a signal
    cleanups,   \* CLEANUP_FNS
    taken,      \* those the handler has yet to run
    ran,        \* those it has run, in order
    promised,   \* history: CLEANUP_FNS when the signal came
    signals,
    loop,       \* the health check loop
    next,       \* the check that is under way
    world,      \* how each component would answer
    changes,
    registry,   \* ComponentRegistry: of each component its status and critical
    steady      \* history: the world is as it was when the loop last ticked

main == <<stage, transport, traced>>
shutdown == <<handler, cleanups, taken, ran, promised, signals>>
health == <<loop, next, registry>>
outside == <<world, changes, steady>>
vars == <<main, exit, shutdown, health, outside>>

Registered == [status : {"Healthy", "Unhealthy"}, critical : BOOLEAN]

TypeOK ==
    /\ stage \in Stages
    /\ transport \in {"Stdio", "Http"}
    /\ traced \in BOOLEAN
    /\ exit \in {"no", "error", "returned", "signal", "killed"}
    /\ handler \in {"none", "spawned", "listening", "draining"}
    /\ cleanups \in Seq(Cleanups)
    /\ taken \in Seq(Cleanups)
    /\ ran \in Seq(Cleanups)
    /\ promised \in Seq(Cleanups)
    /\ signals \in 0..MaxSignals
    /\ loop \in {"off", "waiting", "checking", "finishing", "aborted"}
    /\ next \in 1..Len(Checks) + 1
    /\ world \in [Components -> {"up", "down", "silent"}]
    /\ changes \in 0..MaxChanges
    /\ DOMAIN registry \subseteq Components
    /\ \A c \in DOMAIN registry : registry[c] \in Registered
    /\ steady \in BOOLEAN

Init ==
    /\ stage = "config"
    /\ transport \in {"Stdio", "Http"}
    /\ traced = FALSE
    /\ exit = "no"
    /\ handler = "none"
    /\ cleanups = <<>>
    /\ taken = <<>>
    /\ ran = <<>>
    /\ promised = <<>>
    /\ signals = 0
    /\ loop = "off"
    /\ next = 1
    /\ world \in [Components -> {"up", "down", "silent"}]
    /\ changes = 0
    /\ registry = <<>>
    /\ steady = FALSE

Running == exit = "no"

Goes(from, to) == Running /\ stage = from /\ stage' = to

\* The process ends; whatever its tasks were doing ends with it.
Exit(how) ==
    /\ Running
    /\ exit' = how
    /\ stage' = "over"
    /\ loop' = "off"
    /\ UNCHANGED <<transport, traced, next, registry, outside>>

\* on_shutdown
OnShutdown(f) == cleanups' = Append(cleanups, f)

-----------------------------------------------------------------------------
(* run_harness_server                                                       *)

\* load_config and build_layer; a tracer that cannot be built is left out.
Configure ==
    /\ Goes("config", "handlers")
    /\ traced' \in BOOLEAN
    /\ UNCHANGED <<transport, exit, shutdown, health, outside>>

\* install_shutdown_handlers spawns a task; the signals are its own to install.
InstallHandlers ==
    /\ Goes("handlers", IF traced THEN "tracing" ELSE "store")
    /\ handler' = "spawned"
    /\ UNCHANGED <<transport, traced, exit, cleanups, taken, ran, promised, signals,
                   health, outside>>

HookTracing ==
    /\ Goes("tracing", "store")
    /\ OnShutdown("shutdown_tracing")
    /\ UNCHANGED <<transport, traced, exit, handler, taken, ran, promised, signals,
                   health, outside>>

\* resolve_store_path
ResolveStore ==
    /\ Goes("store", "register")
    /\ UNCHANGED <<transport, traced, exit, shutdown, health, outside>>

\* HealthCheckManager::register, in one step: nobody reads the registry yet.
\* A component is registered as healthy before it was ever checked.
Register ==
    /\ Goes("register", "start")
    /\ registry' = [c \in Components |-> [status |-> "Healthy", critical |-> c \in Critical]]
    /\ UNCHANGED <<transport, traced, exit, shutdown, loop, next, outside>>

StartLoop ==
    /\ Goes("start", "hook")
    /\ loop' = "waiting"
    /\ UNCHANGED <<transport, traced, exit, shutdown, next, registry, outside>>

HookHealthChecks ==
    /\ Goes("hook", "serve")
    /\ OnShutdown("abort_health_checks")
    /\ UNCHANGED <<transport, traced, exit, handler, taken, ran, promised, signals,
                   health, outside>>

Serve ==
    /\ Goes("serve", "serving")
    /\ UNCHANGED <<transport, traced, exit, shutdown, health, outside>>

\* `?` in run_harness_server: no configuration, no store, no address to bind.
\* main exits with 1, and no cleanup is run.
StartupFails ==
    /\ stage \in {"config", "store", "serve"}
    /\ Exit("error")
    /\ UNCHANGED shutdown

\* The client of a stdio server goes away: main returns, no cleanup is run.
Disconnect ==
    /\ stage = "serving" /\ transport = "Stdio"
    /\ Exit("returned")
    /\ UNCHANGED shutdown

-----------------------------------------------------------------------------
(* The signal handler                                                       *)

Listen ==
    /\ Running
    /\ handler = "spawned"
    /\ handler' = "listening"
    /\ UNCHANGED <<main, exit, cleanups, taken, ran, promised, signals, health, outside>>

Signal == signals < MaxSignals /\ signals' = signals + 1

\* Until its handler is installed a signal has its default effect.
Killed ==
    /\ Signal
    /\ handler \in {"none", "spawned"}
    /\ Exit("killed")
    /\ UNCHANGED <<handler, cleanups, taken, ran, promised>>

\* shutdown() takes all that is registered by now.
Shutdown ==
    /\ Running
    /\ Signal
    /\ handler = "listening"
    /\ handler' = "draining"
    /\ taken' = cleanups
    /\ promised' = cleanups
    /\ cleanups' = <<>>
    /\ UNCHANGED <<main, exit, ran, health, outside>>

\* The handler's task no longer waits for one.
SignalIgnored ==
    /\ Running
    /\ Signal
    /\ handler = "draining"
    /\ UNCHANGED <<main, exit, handler, cleanups, taken, ran, promised, health, outside>>

Checking(c) ==
    /\ Running
    /\ loop \in {"checking", "finishing"} /\ next <= Len(Checks) /\ c = Checks[next]

\* A task is aborted where it yields: one that is polling goes on until then, to the
\* checks that come next if they do not yield either.
Aborted ==
    IF \E c \in Blocking : Checking(c) THEN {"finishing", "aborted"} ELSE {"aborted"}

\* What cleanup f does to the loop.
CleansUp(f) == loop' \in IF f = "abort_health_checks" THEN Aborted ELSE {loop}

\* Mutant: the cleanups are run in the order of their registration.
CleanupInOrder ==
    /\ Running
    /\ handler = "draining" /\ taken # <<>>
    /\ ran' = Append(ran, Head(taken))
    /\ taken' = Tail(taken)
    /\ CleansUp(Head(taken))
    /\ UNCHANGED <<main, exit, handler, cleanups, promised, signals, next, registry, outside>>

\* `fns.into_iter().rev()`: the cleanup registered last comes first.
Cleanup ==
    /\ Running
    /\ handler = "draining" /\ taken # <<>>
    /\ ran' = Append(ran, Last(taken))
    /\ taken' = Front(taken)
    /\ CleansUp(Last(taken))
    /\ UNCHANGED <<main, exit, handler, cleanups, promised, signals, next, registry, outside>>

\* Mutant: the cleanups are begun and not awaited.
ExitAtOnce ==
    /\ handler = "draining"
    /\ Exit("signal")
    /\ UNCHANGED shutdown

\* Mutant: shutdown returns to a task that is over.
ExitMissing ==
    /\ handler = "draining" /\ taken = <<>>
    /\ UNCHANGED vars

\* `std::process::exit(0)`
ExitOnSignal ==
    /\ handler = "draining" /\ taken = <<>>
    /\ Exit("signal")
    /\ UNCHANGED shutdown

-----------------------------------------------------------------------------
(* The health check loop                                                    *)

\* The interval ticks, for the first time at once.
HealthTick ==
    /\ Running
    /\ loop = "waiting"
    /\ loop' = "checking"
    /\ next' = 1
    /\ steady' = TRUE
    /\ UNCHANGED <<main, exit, shutdown, registry, world, changes>>

\* Mutant: a check that timed out has a status of its own.
StatusOfThree(c) == CASE world[c] = "up" -> "Healthy" [] world[c] = "down" -> "Unhealthy"
                      [] OTHER -> "Unknown"

Status(c) == IF world[c] = "up" THEN "Healthy" ELSE "Unhealthy"

\* Mutant: a report makes a new entry, which is not critical.
ReportAnew(c) ==
    registry' = [registry EXCEPT ![c] = [status |-> Status(c), critical |-> FALSE]]

\* ComponentRegistry::report keeps `critical`.
Report(c) == registry' = [registry EXCEPT ![c].status = Status(c)]

Checked(c) ==
    /\ Report(c)
    /\ next' = next + 1
    /\ UNCHANGED <<main, exit, shutdown, loop, outside>>

\* The check passed or failed.
CheckReturns(c) == Checking(c) /\ world[c] # "silent" /\ Checked(c)

\* Mutant: a check has all the time it takes.
CheckHangs(c) == Checking(c) /\ world[c] = "silent" /\ UNCHANGED vars

\* `tokio::time::timeout` needs the check to yield: the check did not return in time.
CheckTimesOut(c) ==
    /\ loop = "checking" /\ Checking(c)
    /\ world[c] = "silent" /\ c \notin Blocking
    /\ Checked(c)

\* An aborted task yields: to a check that is not ready, or for the registry's lock.
Yields ==
    /\ Running
    /\ loop = "finishing"
    /\ \A c \in Blocking : Checking(c) => world[c] # "silent"
    /\ loop' = "aborted"
    /\ UNCHANGED <<main, exit, shutdown, next, registry, outside>>

RunOnceEnds ==
    /\ Running
    /\ loop \in {"checking", "finishing"} /\ next > Len(Checks)
    /\ loop' = IF loop = "finishing" THEN "aborted" ELSE "waiting"
    /\ UNCHANGED <<main, exit, shutdown, next, registry, outside>>

\* ComponentRegistry::overall_status
OverallStatus ==
    IF \E c \in DOMAIN registry : registry[c].critical /\ registry[c].status = "Unhealthy"
    THEN "Unhealthy"
    ELSE IF \E c \in DOMAIN registry : registry[c].status # "Healthy"
    THEN "Degraded"
    ELSE "Healthy"

\* The code of the answer of GET /healthz.
Healthz == IF OverallStatus = "Unhealthy" THEN 503 ELSE 200

-----------------------------------------------------------------------------
Change(c) ==
    /\ Running
    /\ changes < MaxChanges
    /\ changes' = changes + 1
    /\ \E w \in {"up", "down", "silent"} \ {world[c]} : world' = [world EXCEPT ![c] = w]
    /\ steady' = FALSE
    /\ UNCHANGED <<main, exit, shutdown, health>>

\* An ended process does nothing more.
Over == ~Running /\ UNCHANGED vars

Main ==
    \/ Configure \/ InstallHandlers \/ HookTracing \/ ResolveStore \/ Register
    \/ StartLoop \/ HookHealthChecks \/ Serve

Handler == Listen \/ Cleanup \/ ExitOnSignal

HealthLoop ==
    \/ HealthTick
    \/ \E c \in Components : CheckReturns(c) \/ CheckTimesOut(c)
    \/ Yields \/ RunOnceEnds

Next ==
    \/ Main \/ StartupFails \/ Disconnect
    \/ Handler \/ Killed \/ Shutdown \/ SignalIgnored
    \/ HealthLoop
    \/ \E c \in Components : Change(c)
    \/ Over

Spec == Init /\ [][Next]_vars

\* The tasks are run by the runtime; no signal has to come, no client to leave.
\* A cleanup returns: one awaits nothing, the other has the exporter's timeout.
Fairness == WF_vars(Main) /\ WF_vars(Handler) /\ WF_vars(HealthLoop)

FairSpec == Spec /\ Fairness

-----------------------------------------------------------------------------
\* A process that exits after a signal has run everything that was registered when
\* the signal came, last registered first, though main went on registering.
SignalExitIsClean == exit = "signal" => ran = Reverse(promised)

\* Once tracing is shut down no round of checks is begun any more, unless the signal
\* came before its abort was registered.  A round goes on, to its end at most and to
\* log what it finds, only if the abort met it in a check that blocks or after one.
QuietAfterTracing ==
    "shutdown_tracing" \in ToSet(ran) /\ "abort_health_checks" \in ToSet(promised) =>
        /\ loop \notin {"waiting", "checking"}
        /\ loop = "finishing" => \E i \in 1..Len(Checks) : i <= next /\ Checks[i] \in Blocking

\* When every check has been made of a world that did not change meanwhile, /healthz
\* tells the truth about it: it fails if and only if a critical component is not up.
HealthzIsTruthful ==
    steady /\ loop = "waiting" => (Healthz = 503 <=> \E c \in Critical : world[c] # "up")

\* A signal ends the process, whatever stage of its start it interrupts and however
\* many more signals come.
SignalEnds == handler = "draining" ~> ~Running

\* The loop runs on, and no check keeps the thread it runs on.
LoopOn ==
    /\ loop \in {"waiting", "checking"}
    /\ \A c \in Blocking : world[c] # "silent"

\* /healthz comes to tell the truth and stays with it, however long other checks
\* take: a critical component that is down or silent for good makes it fail, and
\* when all are up it recovers.  A check that blocks its thread is the exception.
HealthzFollows ==
    /\ <>[](LoopOn /\ \E c \in Critical : world[c] # "up") => <>[](Healthz = 503)
    /\ <>[](LoopOn /\ \A c \in Components : world[c] = "up") => <>[](Healthz = 200)
=============================================================================
