--------------------------- MODULE RuntimeStartup ---------------------------
(***************************************************************************)
(* How the WebAssembly runtime of the client starts and ends: the run      *)
(* dependencies, hooks and keepalive counter of dotnet.native.js, with the *)
(* asynchronous hooks that dotnet.runtime.js puts into Module.  An action  *)
(* is a stretch of code between two awaits.  The loader (dotnet.js) is     *)
(* outside: it loads the configuration and the assets, compiles the        *)
(* WebAssembly module, and mono_exit ends there.                           *)
(***************************************************************************)
EXTENDS Integers

CONSTANT MaxTimers   \* bound: timeouts set by safeSetTimeout

ASSUME TimersAssumption == MaxTimers \in Nat

VARIABLES
    m,          \* the module: runDependencies, dependenciesFulfilled (whether
                \*   it is set), calledRun, inits (how often initRuntime ran)
                \*   and where the hooks of dotnet.runtime.js are
    counter,    \* runtimeKeepaliveCounter
    timers,     \* the timeouts of safeSetTimeout that are pending
    timer,      \* the one of them that mono_wasm_schedule_timer keeps
    set,        \* the timeouts set so far
    main,       \* the main function: "none", "running", "returned"
    status,     \* "starting", "ready", "exited" (runtimeExited), "aborted"
    ended       \* what ended it: "nobody", "exit" (mono_exit), "itself"

vars == <<m, counter, timers, timer, set, main, status, ended>>

Timers == 1 .. MaxTimers
Idle == 0

TypeOK ==
    /\ m.deps \in 0 .. 4 /\ m.armed \in BOOLEAN /\ m.calledRun \in BOOLEAN /\ m.inits \in Nat
    /\ m.instance \in {"none", "config", "compiling", "received", "failed"}
    /\ m.preInit \in {"none", "waiting", "done"}
    /\ m.preRun \in {"none", "waiting", "done", "failed"}
    /\ m.onInit \in {"none", "waiting", "loading", "done", "failed"}
    /\ m.postRun \in {"none", "waiting", "done"}
    /\ counter \in -MaxTimers - 1 .. MaxTimers + 2
    /\ timers \subseteq Timers /\ timer \in {Idle} \union Timers /\ set \in {Idle} \union Timers
    /\ main \in {"none", "running", "returned"}
    /\ status \in {"starting", "ready", "exited", "aborted"}
    /\ ended \in {"nobody", "exit", "itself"}

Init ==
    /\ m = [deps |-> 0, armed |-> FALSE, calledRun |-> FALSE, inits |-> 0,
            instance |-> "none", preInit |-> "none", preRun |-> "none", onInit |-> "none",
            postRun |-> "none"]
    /\ counter = 0 /\ timers = {} /\ timer = Idle /\ set = Idle
    /\ main = "none" /\ status = "starting" /\ ended = "nobody"

-----------------------------------------------------------------------------
(* Run dependencies.  x stands for m.                                      *)

addRunDependency(x) == [x EXCEPT !.deps = @ + 1]

\* doRun, once: initRuntime, onRuntimeInitialized and postRun.  The last two
\* are asynchronous hooks, which wait at once.
doRun(x) ==
    IF x.calledRun THEN x
    ELSE [x EXCEPT !.calledRun = TRUE, !.inits = @ + 1, !.onInit = "waiting",
                   !.postRun = "waiting"]

\* preRun calls its hook the first time only; the hook adds a dependency.
preRun(x) ==
    IF x.preRun # "none" THEN x ELSE addRunDependency([x EXCEPT !.preRun = "waiting"])

\* A mutant: the dependencies that preRun adds are not looked at.
runAtOnce(x) == IF x.deps > 0 THEN x ELSE doRun(preRun(x))

run(x) ==
    IF x.deps > 0 THEN x
    ELSE IF preRun(x).deps > 0 THEN preRun(x) ELSE doRun(preRun(x))

\* A mutant: a run that had to wait is not tried again.
runCallerOnce(x) == run([x EXCEPT !.armed = FALSE])

\* runCaller sets itself up again when run had to wait.
runCaller(x) ==
    LET y == run([x EXCEPT !.armed = FALSE]) IN [y EXCEPT !.armed = ~y.calledRun]

removeRunDependency(x) ==
    LET y == [x EXCEPT !.deps = @ - 1] IN
    IF y.deps = 0 /\ y.armed THEN runCaller(y) ELSE y

-----------------------------------------------------------------------------
(* The start.                                                              *)

\* The synchronous body of the module: createWasm, which starts the hook
\* instantiateWasm; dependenciesFulfilled; preInit, of whose dependencies only
\* mono_pre_init is left; run.
Body ==
    /\ m.instance = "none"
    /\ LET created == addRunDependency([m EXCEPT !.instance = "config"])
           essential == removeRunDependency(addRunDependency(addRunDependency(
                                [created EXCEPT !.armed = TRUE])))
       IN m' = run([removeRunDependency(addRunDependency(essential)) EXCEPT !.preInit = "waiting"])
    /\ UNCHANGED <<counter, timers, timer, set, main, status, ended>>

\* The rest of preInit.
PreInit ==
    /\ m.preInit = "waiting"
    /\ m' = removeRunDependency([m EXCEPT !.preInit = "done"])
    /\ UNCHANGED <<counter, timers, timer, set, main, status, ended>>

\* instantiateWasm when the configuration is loaded.
Instantiate ==
    /\ m.instance = "config"
    /\ m' = addRunDependency([m EXCEPT !.instance = "compiling"])
    /\ UNCHANGED <<counter, timers, timer, set, main, status, ended>>

\* It has an instance: receiveInstance, and its own dependency.
ReceiveInstance ==
    /\ m.instance = "compiling"
    /\ m' = removeRunDependency(removeRunDependency([m EXCEPT !.instance = "received"]))
    /\ UNCHANGED <<counter, timers, timer, set, main, status, ended>>

\* A feature is missing, or the module could not be fetched or compiled:
\* mono_exit, and the dependencies stay.
InstantiateFails ==
    /\ m.instance = "compiling"
    /\ m' = [m EXCEPT !.instance = "failed"]
    /\ ended' = "exit"
    /\ UNCHANGED <<counter, timers, timer, set, main, status>>

\* The rest of the hook of preRun.
PreRun ==
    /\ m.preRun = "waiting" /\ m.instance = "received" /\ m.preInit = "done"
    /\ m' = removeRunDependency([m EXCEPT !.preRun = "done"])
    /\ UNCHANGED <<counter, timers, timer, set, main, status, ended>>

\* onRuntimeInitialized when the core assets are in memory: it keeps the
\* runtime alive and loads mono.
LoadMono ==
    /\ m.onInit = "waiting"
    /\ m' = [m EXCEPT !.onInit = "loading"]
    /\ counter' = counter + 1
    /\ UNCHANGED <<timers, timer, set, main, status, ended>>

\* Mono runs; postRun goes on.
MonoReady ==
    /\ m.onInit = "loading"
    /\ m' = [m EXCEPT !.onInit = "done"]
    /\ status' = "ready"
    /\ UNCHANGED <<counter, timers, timer, set, main, ended>>

\* onRuntimeInitialized fails, before or after it took its share of the
\* counter; it gives it back in both cases.
LoadFails ==
    /\ m.onInit \in {"waiting", "loading"}
    /\ m' = [m EXCEPT !.onInit = "failed"]
    /\ counter' = counter - 1
    /\ ended' = "exit"
    /\ UNCHANGED <<timers, timer, set, main, status>>

PostRun ==
    /\ m.postRun = "waiting" /\ m.onInit = "done"
    /\ m' = [m EXCEPT !.postRun = "done"]
    /\ UNCHANGED <<counter, timers, timer, set, main, status, ended>>

-----------------------------------------------------------------------------
(* While .NET runs, and its end.                                           *)

\* The main function keeps the runtime alive too.
RunMain ==
    /\ status = "ready" /\ main = "none" /\ m.postRun = "done"
    /\ main' = "running" /\ counter' = counter + 1
    /\ UNCHANGED <<m, timers, timer, set, status, ended>>

MainReturns ==
    /\ status = "ready" /\ main = "running"
    /\ main' = "returned" /\ counter' = counter - 1
    /\ UNCHANGED <<m, timers, timer, set, status, ended>>

\* A mutant: a pending timeout does not keep the runtime alive.
NotPushed == counter

\* runtimeKeepalivePush.
Pushed == counter + 1

\* safeSetTimeout for background work.
SetTimeout ==
    /\ status = "ready" /\ set < MaxTimers
    /\ set' = set + 1
    /\ timers' = timers \union {set + 1}
    /\ counter' = Pushed
    /\ UNCHANGED <<m, timer, main, status, ended>>

\* mono_wasm_schedule_timer clears the timeout it had, without its share of
\* the counter, and sets a new one.
ScheduleTimer ==
    /\ status = "ready" /\ set < MaxTimers
    /\ set' = set + 1
    /\ timers' = (timers \ {timer}) \union {set + 1}
    /\ timer' = set + 1
    /\ counter' = Pushed
    /\ UNCHANGED <<m, main, status, ended>>

\* A timeout fires: runtimeKeepalivePop, then callUserCallback, which does
\* nothing after the end.  maybeExit ends a runtime that nothing keeps alive
\* (keepRuntimeAlive; noExitRuntime is false): exitRuntime and _proc_exit.
Fire(t) ==
    /\ t \in timers
    /\ timers' = timers \ {t}
    /\ timer' = IF t = timer THEN Idle ELSE timer
    /\ counter' = counter - 1
    /\ IF status = "ready" /\ counter' <= 0
       THEN status' = "exited" /\ ended' = "itself"
       ELSE UNCHANGED <<status, ended>>
    /\ UNCHANGED <<m, set, main>>

\* mono_exit of a running program: _emscripten_force_exit clears the counter
\* and exits.
ForceExit ==
    /\ status = "ready"
    /\ status' = "exited" /\ ended' = "exit" /\ counter' = 0
    /\ UNCHANGED <<m, timers, timer, set, main>>

\* abort traps in a runtime that is initialized.
Abort ==
    /\ status = "ready"
    /\ status' = "aborted" /\ ended' = "exit"
    /\ UNCHANGED <<m, counter, timers, timer, set, main>>

Starting ==
    \/ Body \/ PreInit \/ Instantiate \/ PreRun \/ PostRun
    \/ ReceiveInstance \/ InstantiateFails \/ LoadMono \/ MonoReady \/ LoadFails

Next ==
    \/ Starting \/ RunMain \/ MainReturns
    \/ SetTimeout \/ ScheduleTimer \/ ForceExit \/ Abort
    \/ \E t \in Timers : Fire(t)

\* Every await of the start ends: what it waits for comes or fails.
Fairness ==
    /\ WF_vars(Body) /\ WF_vars(PreInit) /\ WF_vars(Instantiate) /\ WF_vars(PreRun)
    /\ WF_vars(ReceiveInstance \/ InstantiateFails)
    /\ WF_vars(LoadMono \/ LoadFails) /\ WF_vars(MonoReady \/ LoadFails) /\ WF_vars(PostRun)

Spec == Init /\ [][Next]_vars /\ Fairness

-----------------------------------------------------------------------------

\* The runtime is initialized once, and only after the instance has been
\* received and the hooks preInit and preRun have ended, in whatever order
\* these come (run and its dependencies).
RunsAfterHooks ==
    /\ m.inits <= 1
    /\ m.inits = 1 => m.instance = "received" /\ m.preInit = "done" /\ m.preRun = "done"

\* A running program does not end by itself: however its timeouts are set,
\* replaced and fired, something keeps it alive until mono_exit or abort.
EndsOnlyByExit == ended # "itself"

\* Every start ends: .NET is ready, or mono_exit has been called.
StartSettles == <>(m.postRun = "done" \/ ended # "nobody")
=============================================================================
