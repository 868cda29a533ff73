----------------------------- MODULE MCStartup -----------------------------
(***************************************************************************)
(* The start of instances that share a database (Migrator) and the life of *)
(* one process from its configuration to its exit (AppLifecycle), of which *)
(* the migrations are one step. One of the two is active in a behaviour    *)
(* and the other rests, so that their states add up.                       *)
(***************************************************************************)
EXTENDS Migrator

CONSTANTS Request, Handler

VARIABLES
    active,
    main, exitCode, webhook, cancelled, pool, redis, server, serverErr,
    background, busy, request, timedOut, unready

App == INSTANCE AppLifecycle

appVars == <<main, exitCode, webhook, cancelled, pool, redis, server, serverErr,
             background, busy, request, timedOut, unready>>
startupVars == <<active, vars, appVars>>

EmptyDb ==
    db = [recorded |-> {}, single |-> [i \in Item |-> NoRelay],
          items |-> [i \in Item |-> NoRow], indexes |-> {}]

StartupInit ==
    /\ active \in {"migrations", "process"}
    /\ Init /\ (active = "process" => EmptyDb)
    /\ App!Init

MigrationsOnly == active = "migrations" /\ UNCHANGED <<active, appVars>>
ProcessOnly == active = "process" /\ UNCHANGED <<active, vars>>

MigrationsNext ==
    \E p \in Instance :
        \/ MigrationsOnly /\ Start(p)
        \/ MigrationsOnly /\ Check(p)
        \/ MigrationsOnly /\ Exec(p)
        \/ MigrationsOnly /\ Deadlock(p)
        \/ MigrationsOnly /\ Record(p)
        \/ MigrationsOnly /\ Commit(p)
        \/ MigrationsOnly /\ CommitAnswerLost(p)
        \/ MigrationsOnly /\ Fail(p)

ProcessNext ==
    \/ ProcessOnly /\ App!LoadConfig
    \/ ProcessOnly /\ App!CreatePool
    \/ ProcessOnly /\ App!Migrate
    \/ ProcessOnly /\ App!CreateBot
    \/ ProcessOnly /\ App!StartGoroutines
    \/ ProcessOnly /\ App!RegisterWebhook
    \/ ProcessOnly /\ App!Select
    \/ ProcessOnly /\ App!Shutdown
    \/ ProcessOnly /\ App!CloseRedis
    \/ ProcessOnly /\ App!CloseStore
    \/ ProcessOnly /\ App!Exit
    \/ ProcessOnly /\ App!Signal
    \/ ProcessOnly /\ App!Listen
    \/ ProcessOnly /\ App!ServerFails
    \/ \E q \in Request : ProcessOnly /\ App!Ready(q)
    \/ \E u \in App!User : (ProcessOnly /\ App!Acquire(u)) \/ (ProcessOnly /\ App!Release(u))

Ended ==
    /\ IF active = "process" THEN main = "exited" ELSE AllUp
    /\ UNCHANGED startupVars

StartupNext == MigrationsNext \/ ProcessNext \/ Ended

(* The fairness of Migrator and of AppLifecycle, each while it is active. *)
FairStartupSpec ==
    /\ StartupInit /\ [][StartupNext]_startupVars
    /\ \A p \in Instance : WF_startupVars(MigrationsOnly /\ Proceed(p))
    /\ WF_startupVars(ProcessOnly /\ App!Main)
    /\ \A u \in App!User : WF_startupVars(ProcessOnly /\ App!Release(u))

-----------------------------------------------------------------------------
(* Whatever instances start, fail and start again together, each script is *)
(* applied once and in its order, and the items of every older database    *)
(* come out numbered without gaps (migrator.go:44-70).                     *)
SchemaRight == active = "migrations" => MigrationsInv

(* Instances that start together all come up in the end (migrator.go:62). *)
InstancesComeUp == <>[](active = "migrations" => AllUp)

(* However a process ends, its stores are closed, a readiness check was    *)
(* not failed by an orderly shutdown, and exit status 0 says that no HTTP  *)
(* request was cut off; update handlers are (app.go:128, 242-271, 292).    *)
ExitOrderly == active = "process" => App!LifecycleInv

(* After a signal, or a failure of the HTTP server, the process ends       *)
(* (app.go:247, 278).                                                      *)
ProcessEnds == App!SignalEnds /\ App!ServerFailureEnds

=============================================================================
