------------------------------- MODULE Server -------------------------------
(***************************************************************************)
(* Server of server.py: startup, main loop and graceful shutdown, with the *)
(* lifespan protocol it awaits, the signals it is sent and the connections *)
(* it serves.  Connections are seen as the server sees them: members of    *)
(* server_state.connections with a shutdown() method, and tasks that run   *)
(* the application and may outlive the response and the connection.        *)
(***************************************************************************)
EXTENDS Lifespan, FiniteSets

CONSTANTS Conns,      \* connection slots, each used for many connections
          MaxTasks,   \* bound: tasks of one slot that run at once
          Limit,      \* limit_max_requests, where there is one
          MaxTotal,   \* bound: responses counted, more than Limit
          SlowAccept  \* an accepted connection may reach connection_made late

ASSUME ConnsAssumption == IsFiniteSet(Conns) /\ Conns # {}
ASSUME MaxTasksAssumption == MaxTasks \in Nat \ {0}
ASSUME LimitAssumption == Limit \in Nat
ASSUME MaxTotalAssumption == MaxTotal \in Nat /\ MaxTotal > Limit
ASSUME SlowAcceptAssumption == SlowAccept \in BOOLEAN

VARIABLES
    limited,    \* config.limit_max_requests is not None
    patient,    \* config.timeout_graceful_shutdown is None
    waitsClosed,\* wait_closed() of a listener waits for its connections, as
                \* asyncio's does from Python 3.12 on; else it returns at once
    pc,         \* where serve() is, see TypeOK
    shouldExit, forceExit,
    listening,  \* self.servers accept connections
    timedOut,   \* the graceful shutdown timed out, tasks were cancelled
    total,      \* total_requests, counted up to MaxTotal
    conn,       \* the connection of a slot: "free", "accepted" (before
                \* connection_made), "idle", "busy" (a request unanswered)
                \* or "closing" (connection_lost is due)
    keepAlive,  \* the connection stays open after the response
    tasks       \* tasks running the application for requests of the slot

configVars == <<limited, patient, waitsClosed>>
loopVars   == <<pc, shouldExit, forceExit, listening, timedOut>>
stateVars  == <<total, conn, keepAlive, tasks>>
vars == <<lifespanVars, configVars, loopVars, stateVars>>

TypeOK ==
    /\ LifespanTypeOK
    /\ limited \in BOOLEAN
    /\ patient \in BOOLEAN
    /\ waitsClosed \in BOOLEAN
    /\ pc \in {"boot",           \* serve() has not started
               "startup",        \* in lifespan.startup()
               "bind",           \* creating the listeners
               "abort",          \* they failed: lifespan.shutdown(), exit(1)
               "main",           \* main_loop()
               "asked",          \* shutdown(): the sleep after asking
               "connections",    \* waiting for connections
               "tasks",          \* waiting for tasks
               "listeners",      \* in wait_closed() of the listeners
               "lifespan",       \* about to call lifespan.shutdown()
               "lifespanWait",   \* in it
               "exited"}
    /\ shouldExit \in BOOLEAN
    /\ forceExit \in BOOLEAN
    /\ listening \in BOOLEAN
    /\ timedOut \in BOOLEAN
    /\ total \in 0 .. MaxTotal
    /\ conn \in [Conns -> {"free", "accepted", "idle", "busy", "closing"}]
    /\ keepAlive \in [Conns -> BOOLEAN]
    /\ tasks \in [Conns -> 0 .. MaxTasks]

Init ==
    /\ LifespanInit
    /\ limited \in BOOLEAN
    /\ patient \in BOOLEAN
    /\ waitsClosed \in BOOLEAN
    /\ pc = "boot"
    /\ shouldExit = FALSE
    /\ forceExit = FALSE
    /\ listening = FALSE
    /\ timedOut = FALSE
    /\ total = 0
    /\ conn = [c \in Conns |-> "free"]
    /\ keepAlive = [c \in Conns |-> TRUE]
    /\ tasks = [c \in Conns |-> 0]

\* server_state.connections, and whether server_state.tasks is empty
Connections == {c \in Conns : conn[c] \in {"idle", "busy", "closing"}}
NoTasks == \A c \in Conns : tasks[c] = 0

-----------------------------------------------------------------------------
(* serve() and startup()                                                   *)

Boot ==
    /\ pc = "boot"
    /\ IF lifespan = "off"
         THEN pc' = "bind" /\ UNCHANGED lifespanVars
         ELSE pc' = "startup" /\ CallStartup
    /\ UNCHANGED <<configVars, shouldExit, forceExit, listening, timedOut,
                   stateVars>>

StartupReturns ==
    /\ pc = "startup" /\ startupEvent
    /\ IF Refused(startupFailed)
         THEN pc' = "exited" /\ shouldExit' = TRUE
         ELSE pc' = "bind" /\ UNCHANGED shouldExit
    /\ UNCHANGED <<lifespanVars, configVars, forceExit, listening, timedOut,
                   stateVars>>

\* A signal that came meanwhile ends serve() here, without shutdown().
Bind ==
    /\ pc = "bind"
    /\ listening' = TRUE
    /\ pc' = IF shouldExit THEN "exited" ELSE "main"
    /\ UNCHANGED <<lifespanVars, configVars, shouldExit, forceExit, timedOut,
                   stateVars>>

BindFails ==
    /\ pc = "bind"
    /\ pc' = "abort"
    /\ UNCHANGED <<lifespanVars, configVars, shouldExit, forceExit, listening,
                   timedOut, stateVars>>

-----------------------------------------------------------------------------
(* main_loop() and shutdown()                                              *)

\* on_tick; several responses may come between two ticks.
\* (mutant: the limit has to be met exactly)
ShouldStopExactly == shouldExit \/ (limited /\ total = Limit)
ShouldStop == shouldExit \/ (limited /\ total >= Limit)

\* The protocols' shutdown(), called on every member of connections: an idle
\* one closes, a busy one will close after its response.
\* (mutant: the busy ones are forgotten)
AskIdle ==
    /\ conn' = [c \in Conns |-> IF conn[c] = "idle" THEN "closing" ELSE conn[c]]
    /\ UNCHANGED keepAlive
AskAll ==
    /\ conn' = [c \in Conns |-> IF conn[c] = "idle" THEN "closing" ELSE conn[c]]
    /\ keepAlive' = [c \in Conns |-> keepAlive[c] /\ conn[c] # "busy"]

BeginShutdown ==
    /\ pc = "main" /\ ShouldStop
    /\ pc' = "asked"
    /\ listening' = FALSE
    /\ AskAll
    /\ UNCHANGED <<lifespanVars, configVars, shouldExit, forceExit, timedOut,
                   total, tasks>>

\* The waits of shutdown(): until done, or forced.
\* (mutant: they cannot be forced)
WaitOut(from, done, to) ==
    /\ pc = from
    /\ done
    /\ pc' = to
    /\ UNCHANGED <<lifespanVars, configVars, shouldExit, forceExit, listening,
                   timedOut, stateVars>>
Wait(from, done, to) ==
    /\ pc = from
    /\ done \/ forceExit
    /\ pc' = to
    /\ UNCHANGED <<lifespanVars, configVars, shouldExit, forceExit, listening,
                   timedOut, stateVars>>

SleepEnds == Wait("asked", TRUE, "connections")
ConnectionsGone == Wait("connections", Connections = {}, "tasks")
\* (mutant: the tasks are not waited for)
TasksGoneUnawaited == Wait("tasks", TRUE, "listeners")
TasksGone == Wait("tasks", NoTasks, "listeners")

\* wait_closed() of every listener, which force_exit does not interrupt.
\* (mutant: the listeners are not waited for)
ListenersLeft ==
    /\ pc = "listeners"
    /\ pc' = "lifespan"
    /\ UNCHANGED <<lifespanVars, configVars, shouldExit, forceExit, listening,
                   timedOut, stateVars>>
ListenersClosed ==
    /\ pc = "listeners"
    /\ waitsClosed => \A c \in Conns : conn[c] = "free"
    /\ pc' = "lifespan"
    /\ UNCHANGED <<lifespanVars, configVars, shouldExit, forceExit, listening,
                   timedOut, stateVars>>

\* wait_for expires; the tasks are cancelled, and not awaited.
GracefulTimeout ==
    /\ pc \in {"connections", "tasks", "listeners"} /\ ~patient
    /\ pc' = "lifespan"
    /\ timedOut' = TRUE
    /\ UNCHANGED <<lifespanVars, configVars, shouldExit, forceExit, listening,
                   stateVars>>

\* lifespan.shutdown() is skipped by force_exit (not when binding failed); it
\* returns at once when the protocol is off or has raised.
\* (mutant: it is skipped as well if shutdown_event is set already)
SkipsWhenSet ==
    \/ pc = "lifespan" /\ forceExit
    \/ lifespan = "off" \/ errorOccured \/ shutdownEvent
SkipsLifespan ==
    \/ pc = "lifespan" /\ forceExit
    \/ lifespan = "off" \/ errorOccured

LifespanShutdown ==
    /\ pc \in {"lifespan", "abort"}
    /\ IF SkipsLifespan
         THEN pc' = "exited" /\ UNCHANGED lifespanVars
         ELSE pc' = "lifespanWait" /\ CallShutdown
    /\ UNCHANGED <<configVars, shouldExit, forceExit, listening, timedOut,
                   stateVars>>

LifespanShutdownReturns ==
    /\ pc = "lifespanWait" /\ shutdownEvent
    /\ pc' = "exited"
    /\ UNCHANGED <<lifespanVars, configVars, shouldExit, forceExit, listening,
                   timedOut, stateVars>>

Serve == \/ Boot \/ StartupReturns \/ Bind \/ BindFails \/ BeginShutdown
         \/ SleepEnds \/ ConnectionsGone \/ TasksGone \/ ListenersClosed
         \/ GracefulTimeout \/ LifespanShutdown \/ LifespanShutdownReturns

\* Signal handlers are installed before startup().
HandleExit(sigint) ==
    /\ pc \notin {"boot", "exited"}
    /\ IF shouldExit /\ sigint
         THEN forceExit' = TRUE /\ UNCHANGED shouldExit
         ELSE shouldExit' = TRUE /\ UNCHANGED forceExit
    /\ UNCHANGED <<lifespanVars, configVars, pc, listening, timedOut, stateVars>>

-----------------------------------------------------------------------------
(* Connections and tasks.                                                  *)

Alive == pc # "exited"

\* The loop accepts; without SlowAccept connection_made follows at once.
Accept(c) ==
    /\ Alive /\ listening /\ conn[c] = "free"
    /\ conn' = [conn EXCEPT ![c] = IF SlowAccept THEN "accepted" ELSE "idle"]
    /\ keepAlive' = [keepAlive EXCEPT ![c] = TRUE]
    /\ UNCHANGED <<lifespanVars, configVars, loopVars, total, tasks>>

ConnectionMade(c) ==
    /\ Alive /\ conn[c] = "accepted"
    /\ conn' = [conn EXCEPT ![c] = "idle"]
    /\ UNCHANGED <<lifespanVars, configVars, loopVars, total, keepAlive, tasks>>

\* A request arrives and its task is created.
Request(c) ==
    /\ Alive /\ conn[c] = "idle" /\ tasks[c] < MaxTasks
    /\ conn' = [conn EXCEPT ![c] = "busy"]
    /\ tasks' = [tasks EXCEPT ![c] = @ + 1]
    /\ UNCHANGED <<lifespanVars, configVars, loopVars, total, keepAlive>>

\* One more response is counted; past MaxTotal it makes no difference.
Counted == IF total < MaxTotal THEN total + 1 ELSE total

\* The response completes; "connection: close" may have ended keep-alive.
Response(c, close) ==
    /\ Alive /\ conn[c] = "busy"
    /\ conn' = [conn EXCEPT ![c] = IF keepAlive[c] /\ ~close THEN "idle" ELSE "closing"]
    /\ total' = Counted
    /\ UNCHANGED <<lifespanVars, configVars, loopVars, keepAlive, tasks>>

\* A task that has outlived its response or its connection.
\* (mutant: any task is taken for one)
AnyTask(c) == tasks[c] > 0
Lingers(c) == tasks[c] > (IF conn[c] = "busy" THEN 1 ELSE 0)

TaskEnds(c) ==
    /\ Alive /\ Lingers(c)
    /\ tasks' = [tasks EXCEPT ![c] = @ - 1]
    /\ UNCHANGED <<lifespanVars, configVars, loopVars, total, conn, keepAlive>>

\* A task ends before its response is complete: run_asgi closes the connection,
\* with or without a 500.
TaskFails(c) ==
    /\ Alive /\ conn[c] = "busy"
    /\ conn' = [conn EXCEPT ![c] = "closing"]
    /\ tasks' = [tasks EXCEPT ![c] = @ - 1]
    /\ total' \in {total, Counted}
    /\ UNCHANGED <<lifespanVars, configVars, loopVars, keepAlive>>

\* The client goes away, or the keep-alive timeout closes an idle connection.
Disconnect(c) ==
    /\ Alive /\ conn[c] \in {"idle", "busy"}
    /\ conn' = [conn EXCEPT ![c] = "closing"]
    /\ UNCHANGED <<lifespanVars, configVars, loopVars, total, keepAlive, tasks>>

\* connection_lost takes it out of connections.
ConnectionLost(c) ==
    /\ Alive /\ conn[c] = "closing"
    /\ conn' = [conn EXCEPT ![c] = "free"]
    /\ UNCHANGED <<lifespanVars, configVars, loopVars, total, keepAlive, tasks>>

Connection(c) ==
    \/ Accept(c) \/ ConnectionMade(c) \/ Request(c)
    \/ \E close \in BOOLEAN : Response(c, close)
    \/ TaskEnds(c) \/ TaskFails(c) \/ Disconnect(c) \/ ConnectionLost(c)

Application ==
    /\ Alive
    /\ LifespanApp
    /\ UNCHANGED <<configVars, loopVars, stateVars>>

Next ==
    \/ Serve
    \/ \E sigint \in BOOLEAN : HandleExit(sigint)
    \/ Application
    \/ \E c \in Conns : Connection(c)

Spec == Init /\ [][Next]_vars

-----------------------------------------------------------------------------
(* Safety properties.                                                      *)

\* The application serves nothing before its lifespan startup is complete, and
\* nothing at all if the startup failed.
ServesOnlyStarted ==
    (\E c \in Conns : conn[c] # "free" \/ tasks[c] > 0)
        => lifespan = "off" \/ (startupEvent /\ ~startupFailed)

\* The application is told to shut down only when every connection is gone and
\* every task has ended, unless the graceful shutdown timed out.
WorkDoneBeforeLifespan ==
    pc = "lifespanWait" /\ ~timedOut => Connections = {} /\ NoTasks

\* A server that has closed its listeners, was not forced, and whose
\* application has not raised, has told the application to shut down and had
\* its answer before it exits.
ToldBeforeExit ==
    /\ pc = "exited" /\ ~listening /\ ~forceExit
    /\ lifespan # "off" /\ ~errorOccured /\ ~startupFailed
    => /\ shutdownEvent
       /\ "shutdown" \in told \/ \E k \in 1 .. Len(queue) : queue[k] = "shutdown"

\* During a shutdown no connection is idle, and the busy ones will close after
\* their response: what shutdown() asks of the members of connections reaches
\* every connection there is.
ShutdownReachesAll ==
    pc \in {"asked", "connections", "tasks", "listeners", "lifespan",
            "lifespanWait"}
        => \A c \in Conns : conn[c] # "idle" /\ (conn[c] = "busy" => ~keepAlive[c])

\* What a server that has closed its listeners leaves behind when it exits: no
\* connection and no task, unless the graceful shutdown timed out or the exit
\* was forced; and a forced exit leaves no connection either where
\* wait_closed() waits for them.
NothingLeftBehind ==
    pc = "exited" /\ ~listening /\ ~timedOut
        => /\ ~forceExit => Connections = {} /\ NoTasks
           /\ waitsClosed => Connections = {}

-----------------------------------------------------------------------------
(* Fairness and liveness.                                                  *)

\* The loop runs what is ready and the timers expire.  The application answers
\* the lifespan messages or ends; where the server waits for it without a
\* timeout, and is not forced, its requests and tasks end too.
Fairness ==
    /\ WF_vars(Serve)
    /\ WF_vars(Application /\ startupEvent' # startupEvent)
    /\ WF_vars(/\ \E k \in 1 .. Len(queue) : queue[k] = "shutdown"
               /\ Application /\ TakesMessage)
    /\ WF_vars("shutdown" \in told /\ Application /\ shutdownEvent' # shutdownEvent)
    /\ \A c \in Conns :
          /\ WF_vars(ConnectionLost(c))
          /\ WF_vars(/\ patient /\ ~forceExit
                     /\ Response(c, TRUE) \/ Response(c, FALSE) \/ TaskFails(c))
          /\ WF_vars(patient /\ ~forceExit /\ TaskEnds(c))

FairSpec == Spec /\ Fairness

\* A forced shutdown that cannot go on: wait_closed() waits for a connection
\* that is not closed, nothing interrupts it and there is no timeout.
HeldOpen ==
    /\ pc = "listeners" /\ forceExit /\ patient /\ waitsClosed
    /\ Connections # {}

\* A shutdown ends: with a timeout whatever clients and application do; without
\* one if the requests and tasks end; and forced without either, but for the
\* one wait that cannot be forced, which a request that never ends holds up
\* for ever.  Nothing else in shutdown() holds up a forced exit.
ShutdownEnds == pc = "asked" ~> (pc = "exited" \/ []HeldOpen)

\* limit_max_requests ends the server, without a signal, with connections open
\* and kept alive, and however far the limit was passed between two ticks.
LimitEndsServer ==
    limited /\ total >= Limit /\ pc = "main" ~> (pc = "exited" \/ []HeldOpen)

\* startup() returns however the application ends (main() sets both events).
StartupReturnsAlways == pc = "startup" ~> pc # "startup"

-----------------------------------------------------------------------------
(* What a log message says and the code does not do.                       *)

\* server.py:301, "Waiting for connections to close. (CTRL+C to force quit)",
\* logged while there are connections: after limit_max_requests has ended the
\* main loop it takes two.
CtrlCForces ==
    [][pc = "connections" /\ Connections # {} /\ HandleExit(TRUE)
        => forceExit']_vars
=============================================================================
