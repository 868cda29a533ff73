---------------------------- MODULE AppLifecycle ----------------------------
(***************************************************************************)
(* The life of one process: New, Run and Close in internal/bootstrap/app.go, *)
(* called by cmd/relaybot/main.go, with the goroutines it starts and does  *)
(* not wait for: the HTTP server and its readiness check                   *)
(* (internal/httpserver), the maintenance runner (internal/worker) and the *)
(* bot with its handlers.                                                  *)
(*                                                                         *)
(* A signal may come at any time. It cancels the one context that the      *)
(* runner, the bot and every call to Telegram use. From pgxpool, go-redis  *)
(* and net/http only what app.go relies on is modelled: a pool that is     *)
(* closed lets nobody in and waits for the connections in use; Shutdown    *)
(* takes no more requests and waits for those under way.                   *)
(***************************************************************************)
EXTENDS Naturals

CONSTANTS
    Request,  \* readiness checks that may be under way at once
    Handler   \* handlers of updates that may be at work at once

VARIABLES
    main,       \* where main is
    exitCode,   \* what run() returns; 0 until something has failed
    webhook,    \* cfg.WebhookEnabled()
    cancelled,  \* the context: a signal has come
    pool,
    redis,
    server,     \* the HTTP server
    serverErr,  \* errCh holds the error of ListenAndServe
    background, \* the runner and the bot: those that have been started
    busy,       \* users that hold a connection of the pool
    request,
    timedOut,   \* history: Shutdown gave up
    unready     \* history: a request was told that a store is not there

vars == <<main, exitCode, webhook, cancelled, pool, redis, server, serverErr,
          background, busy, request, timedOut, unready>>

(* The users of the pool. *)
User == {"runner"} \cup Handler

Step == {"config", "pool", "migrate", "bot", "run", "webhook", "select",
         "shutdown", "redis", "store", "drain", "close", "closeStore", "closeDrain",
         "exited"}

TypeOK ==
    /\ main \in Step
    /\ exitCode \in {0, 1}
    /\ webhook \in BOOLEAN /\ cancelled \in BOOLEAN /\ serverErr \in BOOLEAN
    /\ timedOut \in BOOLEAN /\ unready \in BOOLEAN
    /\ pool \in {"none", "open", "closing", "closed"}
    /\ redis \in {"none", "open", "closed"}
    /\ server \in {"none", "starting", "serving", "failed", "shut"}
    /\ background \subseteq {"runner", "bot"}
    /\ busy \subseteq User
    /\ request \in [Request -> {"idle", "store", "cache"}]

-----------------------------------------------------------------------------
mainOnly == <<webhook, cancelled, serverErr, busy, request, timedOut, unready>>

Goto(pc) == main' = pc /\ UNCHANGED exitCode

Failed(pc) == main' = pc /\ exitCode' = 1

(* config.Load *)
LoadConfig ==
    /\ main = "config"
    /\ Goto("pool") \/ Failed("exited")
    /\ UNCHANGED <<pool, redis, server, background, mainOnly>>

(* New. The bot asks Telegram who it is; what fails closes what is open. *)
CreatePool ==
    /\ main = "pool"
    /\ \/ Goto("migrate") /\ pool' = "open"
       \/ Failed("exited") /\ UNCHANGED pool
    /\ UNCHANGED <<redis, server, background, mainOnly>>

Migrate ==
    /\ main = "migrate"
    /\ \/ Goto("bot") /\ redis' = "open" /\ UNCHANGED pool
       \/ Failed("exited") /\ pool' = "closed" /\ UNCHANGED redis
    /\ UNCHANGED <<server, background, mainOnly>>

(* Fault: Redis left open when the bot cannot be created. *)
CreateBotLeaking ==
    /\ main = "bot"
    /\ \/ Goto("run") /\ UNCHANGED pool
       \/ Failed("exited") /\ pool' = "closed"
    /\ UNCHANGED <<redis, server, background, mainOnly>>

CreateBot ==
    /\ main = "bot"
    /\ \/ Goto("run") /\ UNCHANGED <<pool, redis>>
       \/ Failed("exited") /\ pool' = "closed" /\ redis' = "closed"
    /\ UNCHANGED <<server, background, mainOnly>>

(* Run: the commands are synchronised or not, and the goroutines start. *)
StartGoroutines ==
    /\ main = "run"
    /\ Goto("webhook")
    /\ server' = "starting"
    /\ background' = {"runner"}
    /\ UNCHANGED <<pool, redis, mainOnly>>

(* SetWebhook must succeed, which it does not once the context is          *)
(* cancelled; DeleteWebhook need not.                                      *)
RegisterWebhook ==
    /\ main = "webhook"
    /\ \/ /\ webhook => ~cancelled
          /\ Goto("select")
          /\ background' = background \cup {"bot"}
       \/ webhook /\ Failed("close") /\ UNCHANGED background
    /\ UNCHANGED <<pool, redis, server, mainOnly>>

(* Fault: only the signal is waited for. *)
SelectSignalOnly ==
    /\ main = "select"
    /\ cancelled
    /\ Goto("shutdown")
    /\ server' = IF server = "failed" THEN server ELSE "shut"
    /\ UNCHANGED <<pool, redis, background, mainOnly>>

(* The signal, or the end of the HTTP server, whichever select takes. *)
Select ==
    /\ main = "select"
    /\ \/ /\ cancelled
          /\ Goto("shutdown")
          /\ server' = IF server = "failed" THEN server ELSE "shut"
       \/ /\ serverErr
          /\ Failed("close")
          /\ UNCHANGED server
    /\ UNCHANGED <<pool, redis, background, mainOnly>>

NoRequests == \A q \in Request : request[q] = "idle"

(* httpServer.Shutdown with ten seconds for the requests under way. *)
Shutdown ==
    /\ main = "shutdown"
    /\ \/ NoRequests /\ Goto("redis") /\ UNCHANGED timedOut
       \/ ~NoRequests /\ Failed("redis") /\ timedOut' = TRUE
    /\ UNCHANGED <<pool, redis, server, background, webhook, cancelled, serverErr, busy,
                   request, unready>>

(* Redis first, then the pool, in Run and in Close alike; what Run has     *)
(* closed Close does not see any more.                                     *)
CloseRedis ==
    /\ \/ main = "redis" /\ Goto("store")
       \/ main = "close" /\ Goto("closeStore")
    /\ redis' = "closed"
    /\ UNCHANGED <<pool, server, background, mainOnly>>

CloseStore ==
    /\ \/ main = "store" /\ Goto("drain")
       \/ main = "closeStore" /\ Goto("closeDrain")
    /\ pool' = "closing"
    /\ UNCHANGED <<redis, server, background, mainOnly>>

(* The connections in use have come back. *)
Exit ==
    /\ main \in {"drain", "closeDrain"}
    /\ busy = {}
    /\ pool' = "closed"
    /\ Goto("exited")
    /\ UNCHANGED <<redis, server, background, mainOnly>>

-----------------------------------------------------------------------------
(* What runs beside main until it exits. *)

Running == main # "exited"

mainVars == <<main, exitCode, pool, redis>>

Signal ==
    /\ Running /\ ~cancelled
    /\ cancelled' = TRUE
    /\ UNCHANGED <<mainVars, webhook, server, serverErr, background, busy, request,
                   timedOut, unready>>

(* ListenAndServe finds its address taken, or fails later; errCh has room  *)
(* for its error.                                                          *)
Listen ==
    /\ Running /\ server = "starting"
    /\ server' = "serving"
    /\ UNCHANGED <<mainVars, webhook, cancelled, serverErr, background, busy, request,
                   timedOut, unready>>

ServerFails ==
    /\ Running /\ server \in {"starting", "serving"}
    /\ server' = "failed" /\ serverErr' = TRUE
    /\ UNCHANGED <<mainVars, webhook, cancelled, background, busy, request, timedOut, unready>>

(* /readyz: PostgreSQL is asked, then Redis. *)
Ready(q) ==
    /\ Running
    /\ \/ request[q] = "idle" /\ server = "serving"
          /\ request' = [request EXCEPT ![q] = "store"] /\ UNCHANGED unready
       \/ request[q] = "store" /\ pool = "open"
          /\ request' = [request EXCEPT ![q] = "cache"] /\ UNCHANGED unready
       \/ request[q] = "cache" /\ redis = "open"
          /\ request' = [request EXCEPT ![q] = "idle"] /\ UNCHANGED unready
       \/ \/ request[q] = "store" /\ pool # "open"
          \/ request[q] = "cache" /\ redis # "open"
          /\ request' = [request EXCEPT ![q] = "idle"] /\ unready' = TRUE
    /\ UNCHANGED <<mainVars, webhook, cancelled, server, serverErr, background, busy, timedOut>>

(* The runner's tasks and the handlers take connections from the pool, as  *)
(* long as their context lets them.                                        *)
Acquire(u) ==
    /\ Running /\ ~cancelled /\ pool = "open" /\ u \notin busy
    /\ (IF u = "runner" THEN "runner" ELSE "bot") \in background
    /\ busy' = busy \cup {u}
    /\ UNCHANGED <<mainVars, webhook, cancelled, server, serverErr, background, request,
                   timedOut, unready>>

Release(u) ==
    /\ Running /\ u \in busy
    /\ busy' = busy \ {u}
    /\ UNCHANGED <<mainVars, webhook, cancelled, server, serverErr, background, request,
                   timedOut, unready>>

Init ==
    /\ main = "config" /\ exitCode = 0
    /\ webhook \in BOOLEAN
    /\ cancelled = FALSE
    /\ pool = "none" /\ redis = "none" /\ server = "none"
    /\ serverErr = FALSE
    /\ background = {} /\ busy = {}
    /\ request = [q \in Request |-> "idle"]
    /\ timedOut = FALSE /\ unready = FALSE

Main ==
    \/ LoadConfig \/ CreatePool \/ Migrate \/ CreateBot \/ StartGoroutines
    \/ RegisterWebhook \/ Select \/ Shutdown \/ CloseRedis \/ CloseStore \/ Exit

Done == main = "exited" /\ UNCHANGED vars

Next ==
    \/ Main
    \/ Signal \/ Listen \/ ServerFails
    \/ \E q \in Request : Ready(q)
    \/ \E u \in User : Acquire(u) \/ Release(u)
    \/ Done

Spec == Init /\ [][Next]_vars

(* Main is never starved, and a query ends. Requests are not assumed to:   *)
(* a client may be as slow as it likes.                                    *)
FairSpec == Spec /\ WF_vars(Main) /\ \A u \in User : WF_vars(Release(u))

-----------------------------------------------------------------------------
(* However the process ends, in New, in Run or after a signal, it closes   *)
(* the pool and Redis, each if it was opened (app.go:55, 128, 256, 292).   *)
ResourcesClosed == main = "exited" => pool # "open" /\ redis # "open"

(* A readiness check fails for want of a store only when the process is    *)
(* ending in an error: a signal lets the requests under way be answered    *)
(* before the stores go (app.go:250-268).                                  *)
ReadinessHonest == unready => exitCode = 1

(* Exit status 0 means that a signal came and no request was cut off       *)
(* (app.go:269, main.go:61).                                               *)
CleanExitIsClean ==
    main = "exited" /\ exitCode = 0 => cancelled /\ NoRequests /\ ~timedOut

(* What is open and what is under way at each step of main: an orderly     *)
(* shutdown has answered its requests before the stores go, and what ends  *)
(* in an error says so.                                                    *)
StageRight ==
    /\ pool = "open" <=> main \in {"migrate", "bot", "run", "webhook", "select", "shutdown",
                                   "redis", "store", "close", "closeStore"}
    /\ redis = "open" <=> main \in {"bot", "run", "webhook", "select", "shutdown", "redis",
                                    "close"}
    /\ main \in {"config", "pool", "migrate", "bot", "run"} => server = "none" /\ NoRequests
    /\ main \in {"shutdown", "redis", "store", "drain"}
       => cancelled /\ server \in {"failed", "shut"}
    /\ main \in {"close", "closeStore", "closeDrain"} => exitCode = 1
    /\ main \in {"redis", "store", "drain"} /\ exitCode = 0 => NoRequests
    /\ timedOut => exitCode = 1

(* The inductive invariant of the process. *)
LifecycleInv ==
    TypeOK /\ ResourcesClosed /\ ReadinessHonest /\ CleanExitIsClean /\ StageRight

(* After a signal the process ends, also when a client never finishes its  *)
(* request (app.go:247).                                                   *)
SignalEnds == cancelled ~> main = "exited"

(* When the HTTP server fails the process ends, for the container to be    *)
(* restarted, also when it failed before Run came to wait for it           *)
(* (app.go:196, 278).                                                      *)
ServerFailureEnds == server = "failed" ~> main = "exited"

=============================================================================
