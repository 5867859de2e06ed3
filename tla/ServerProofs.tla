----------------------------- MODULE ServerProofs -----------------------------
(***************************************************************************)
(* Safety of the server for any number of connections and tasks.           *)
(***************************************************************************)
EXTENDS Server, SequenceTheorems, TLAPS

-----------------------------------------------------------------------------
(* Types.                                                                  *)

\* startup() queues its message on an empty queue, shutdown() behind at most
\* that one.
QueueInv ==
    /\ pc = "boot" => queue = <<>>
    /\ pc \notin {"lifespanWait", "exited"} => Len(queue) <= 1

\* A busy connection has the task of its request.
TaskInv == \A c \in Conns : conn[c] = "busy" => tasks[c] > 0

TypeInv == TypeOK /\ QueueInv /\ TaskInv

\* Putting into the receive queue, and taking from it.
LEMMA QueuePut ==
    ASSUME queue \in Seq({"startup", "shutdown"}),
           NEW m \in {"startup", "shutdown"}
    PROVE  /\ Append(queue, m) \in Seq({"startup", "shutdown"})
           /\ Len(Append(queue, m)) = Len(queue) + 1
           /\ \A k \in 1 .. Len(queue) : Append(queue, m)[k] = queue[k]
           /\ Append(queue, m)[Len(queue) + 1] = m
           /\ Len(queue) \in Nat
BY AppendProperties, LenProperties

LEMMA QueueTake ==
    ASSUME queue \in Seq({"startup", "shutdown"}), queue # <<>>
    PROVE  /\ Head(queue) = queue[1]
           /\ Head(queue) \in {"startup", "shutdown"}
           /\ Tail(queue) \in Seq({"startup", "shutdown"})
           /\ Len(queue) \in Nat \ {0}
           /\ Len(Tail(queue)) = Len(queue) - 1
           /\ \A k \in 1 .. Len(Tail(queue)) : Tail(queue)[k] = queue[k + 1]
<1>1. Head(queue) = queue[1]
    BY EmptySeq, LenProperties
<1>2. QED
    BY <1>1, HeadTailProperties, EmptySeq

LEMMA InitTyped == Init => TypeInv
<1> SUFFICES ASSUME Init PROVE TypeInv
    OBVIOUS
<1>1. queue = <<>> /\ queue \in Seq({"startup", "shutdown"}) /\ Len(queue) = 0
    BY EmptySeq DEF Init, LifespanInit
<1>2. LifespanTypeOK
  <2>1. told \subseteq {"startup", "shutdown"}
    BY DEF Init, LifespanInit
  <2>2. /\ lifespan \in {"on", "auto", "off"}
        /\ mainTask \in {"none", "app", "ended"}
        /\ startupEvent \in BOOLEAN /\ shutdownEvent \in BOOLEAN
        /\ startupFailed \in BOOLEAN /\ shutdownFailed \in BOOLEAN
        /\ errorOccured \in BOOLEAN
    BY DEF Init, LifespanInit
  <2>3. QED
    BY <1>1, <2>1, <2>2 DEF LifespanTypeOK
<1>3. keepAlive \in [Conns -> BOOLEAN]
    BY DEF Init
<1>4. tasks \in [Conns -> 0 .. MaxTasks] /\ total \in 0 .. MaxTotal
    BY MaxTasksAssumption, LimitAssumption, MaxTotalAssumption DEF Init
<1>5. conn \in [Conns -> {"free", "accepted", "idle", "busy", "closing"}]
    BY DEF Init
<1>6. TypeOK
    BY <1>2, <1>3, <1>4, <1>5 DEF Init, TypeOK
<1>7. QueueInv /\ TaskInv
    BY <1>1 DEF Init, QueueInv, TaskInv
<1>8. QED
    BY <1>6, <1>7 DEF TypeInv

LEMMA LifespanFrame == LifespanTypeOK /\ UNCHANGED lifespanVars => LifespanTypeOK'
BY DEF LifespanTypeOK, lifespanVars

\* startup() and shutdown() put their message in the queue.
LEMMA CallTyped ==
    ASSUME LifespanTypeOK, Len(queue) <= 1, CallStartup \/ CallShutdown
    PROVE  LifespanTypeOK' /\ Len(queue') = Len(queue) + 1
<1>1. queue \in Seq({"startup", "shutdown"})
    BY DEF LifespanTypeOK
<1>2. PICK m \in {"startup", "shutdown"} : queue' = Append(queue, m)
    BY DEF CallStartup, CallShutdown
<1>3. /\ queue' \in Seq({"startup", "shutdown"}) /\ Len(queue') = Len(queue) + 1
      /\ Len(queue) \in Nat
    BY <1>1, <1>2, QueuePut
<1>4. /\ mainTask' \in {mainTask, "app"}
      /\ UNCHANGED <<lifespan, told, startupEvent, shutdownEvent, startupFailed,
                     shutdownFailed, errorOccured>>
    BY DEF CallStartup, CallShutdown
<1>5. QED
    BY <1>3, <1>4 DEF LifespanTypeOK

\* Steps of serve() and of the signal handler.
LEMMA ServeTyped ==
    ASSUME TypeInv, Serve \/ \E sigint \in BOOLEAN : HandleExit(sigint)
    PROVE  TypeInv'
<1>0. /\ LifespanTypeOK /\ queue \in Seq({"startup", "shutdown"})
      /\ Len(queue) \in Nat /\ (queue = <<>> => Len(queue) = 0)
    BY LenProperties, EmptySeq DEF TypeInv, TypeOK, LifespanTypeOK
<1>1. \/ UNCHANGED lifespanVars
      \/ Boot /\ CallStartup /\ Len(queue) = 0 /\ pc' = "startup"
      \/ LifespanShutdown /\ CallShutdown /\ Len(queue) <= 1 /\ pc' = "lifespanWait"
    BY <1>0 DEF TypeInv, QueueInv, Serve, Boot, StartupReturns, Bind, BindFails,
       BeginShutdown, SleepEnds, ConnectionsGone, TasksGone, ListenersClosed, Wait,
       GracefulTimeout, LifespanShutdown, LifespanShutdownReturns, HandleExit
<1>2. LifespanTypeOK'
    BY <1>0, <1>1, LifespanFrame, CallTyped
<1>3. QueueInv'
  <2>1. CASE UNCHANGED lifespanVars
    <3>1. /\ UNCHANGED queue
          /\ pc' = "boot" => pc = "boot"
          /\ pc \in {"lifespanWait", "exited"} => pc' \in {"lifespanWait", "exited"}
      BY <2>1 DEF lifespanVars, Serve, Boot, StartupReturns, Bind, BindFails,
         BeginShutdown, SleepEnds, ConnectionsGone, TasksGone, ListenersClosed, Wait,
         GracefulTimeout, LifespanShutdown, LifespanShutdownReturns, HandleExit
    <3>2. QED
      BY <3>1 DEF TypeInv, QueueInv
  <2>2. CASE Boot /\ CallStartup /\ Len(queue) = 0 /\ pc' = "startup"
    <3>1. Len(queue') = 1
      BY <1>0, <2>2, CallTyped
    <3>2. QED
      BY <2>2, <3>1 DEF QueueInv
  <2>3. CASE pc' = "lifespanWait"
    BY <2>3 DEF QueueInv
  <2>4. QED
    BY <1>1, <2>1, <2>2, <2>3
<1>4. /\ conn' \in [Conns -> {"free", "accepted", "idle", "busy", "closing"}]
      /\ keepAlive' \in [Conns -> BOOLEAN]
      /\ UNCHANGED <<configVars, total, tasks>>
      /\ \A c \in Conns : conn'[c] = "busy" => conn[c] = "busy"
  <2>1. CASE BeginShutdown
    BY <2>1 DEF BeginShutdown, AskAll, TypeInv, TypeOK
  <2>2. CASE ~BeginShutdown
    <3>1. UNCHANGED <<configVars, stateVars>>
      BY <2>2 DEF Serve, Boot, StartupReturns, Bind, BindFails, SleepEnds,
         ConnectionsGone, TasksGone, ListenersClosed, Wait, GracefulTimeout, LifespanShutdown,
         LifespanShutdownReturns, HandleExit
    <3>2. QED
      BY <3>1 DEF stateVars, TypeInv, TypeOK
  <2>3. QED
    BY <2>1, <2>2
<1>5. /\ pc' \in {"boot", "startup", "bind", "abort", "main", "asked",
                  "connections", "tasks", "listeners", "lifespan",
                  "lifespanWait", "exited"}
      /\ shouldExit' \in BOOLEAN /\ forceExit' \in BOOLEAN
      /\ listening' \in BOOLEAN /\ timedOut' \in BOOLEAN
    BY DEF TypeInv, TypeOK, Serve, Boot, StartupReturns, Bind, BindFails,
       BeginShutdown, SleepEnds, ConnectionsGone, TasksGone, ListenersClosed, Wait,
       GracefulTimeout, LifespanShutdown, LifespanShutdownReturns, HandleExit
<1>6. TypeOK'
    BY <1>2, <1>4, <1>5 DEF TypeInv, TypeOK, configVars
<1>7. TaskInv'
    BY <1>4 DEF TypeInv, TaskInv
<1>8. QED
    BY <1>3, <1>6, <1>7 DEF TypeInv

\* Steps of the application inside main().
LEMMA ApplicationTyped ==
    ASSUME TypeInv, Application
    PROVE  TypeInv'
<1>0. /\ LifespanTypeOK /\ queue \in Seq({"startup", "shutdown"})
      /\ Len(queue) \in Nat /\ Len(queue) <= 2
    BY LenProperties DEF TypeInv, TypeOK, LifespanTypeOK
<1>1. LifespanTypeOK' /\ (UNCHANGED queue \/ (queue # <<>> /\ Len(queue') = Len(queue) - 1))
  <2>1. CASE TakesMessage
    <3>1. queue # <<>> /\ queue' = Tail(queue) /\ told' = told \cup {Head(queue)}
      BY <2>1 DEF TakesMessage
    <3>2. /\ queue' \in Seq({"startup", "shutdown"}) /\ Len(queue') = Len(queue) - 1
          /\ Head(queue) \in {"startup", "shutdown"}
      BY <1>0, <3>1, QueueTake
    <3>3. told' \subseteq {"startup", "shutdown"}
      BY <1>0, <3>1, <3>2 DEF LifespanTypeOK
    <3>4. UNCHANGED <<lifespan, mainTask, startupEvent, shutdownEvent,
                      startupFailed, shutdownFailed, errorOccured>>
      BY <2>1 DEF TakesMessage
    <3>5. Len(queue') <= 2
      BY <1>0, <3>2
    <3>6. LifespanTypeOK'
      BY <1>0, <3>2, <3>3, <3>4, <3>5 DEF LifespanTypeOK
    <3>7. QED
      BY <3>1, <3>2, <3>6
  <2>2. ASSUME NEW failed \in BOOLEAN, SendsStartup(failed) PROVE LifespanTypeOK' /\ UNCHANGED queue
    BY <1>0, <2>2 DEF SendsStartup, LifespanTypeOK
  <2>3. ASSUME NEW failed \in BOOLEAN, SendsShutdown(failed) PROVE LifespanTypeOK' /\ UNCHANGED queue
    BY <1>0, <2>3 DEF SendsShutdown, LifespanTypeOK
  <2>4. ASSUME NEW raises \in BOOLEAN, MainEnds(raises) PROVE LifespanTypeOK' /\ UNCHANGED queue
    BY <1>0, <2>4 DEF MainEnds, LifespanTypeOK
  <2>5. QED
    BY <2>1, <2>2, <2>3, <2>4 DEF Application, LifespanApp
<1>2. UNCHANGED <<configVars, loopVars, stateVars>>
    BY DEF Application
<1>3. TypeOK'
    BY <1>1, <1>2 DEF TypeInv, TypeOK, configVars, loopVars, stateVars
<1>4. QueueInv'
    BY <1>0, <1>1, <1>2 DEF TypeInv, QueueInv, loopVars
<1>5. TaskInv'
    BY <1>2 DEF TypeInv, TaskInv, stateVars
<1>6. QED
    BY <1>3, <1>4, <1>5 DEF TypeInv

\* Steps of a connection and its tasks.
LEMMA ConnectionTyped ==
    ASSUME TypeInv, NEW c \in Conns, Connection(c)
    PROVE  TypeInv'
<1>1. /\ conn \in [Conns -> {"free", "accepted", "idle", "busy", "closing"}]
      /\ keepAlive \in [Conns -> BOOLEAN] /\ tasks \in [Conns -> 0 .. MaxTasks]
      /\ MaxTasks \in Nat /\ MaxTotal \in Nat /\ total \in 0 .. MaxTotal
      /\ \A d \in Conns : conn[d] = "busy" => tasks[d] > 0
    BY MaxTasksAssumption, MaxTotalAssumption DEF TypeInv, TypeOK, TaskInv
<1>2. UNCHANGED <<lifespanVars, configVars, loopVars>>
    BY DEF Connection, Accept, ConnectionMade, Request, Response, TaskEnds,
       TaskFails, Disconnect, ConnectionLost
<1> DEFINE Slot(v, n) ==
          /\ v \in {"free", "accepted", "idle", "busy", "closing"}
          /\ n \in 0 .. MaxTasks
          /\ v = "busy" => n > 0
          /\ conn' = [conn EXCEPT ![c] = v]
          /\ tasks' = [tasks EXCEPT ![c] = n]
<1>3. \E v, n : Slot(v, n)
  <2>1. conn = [conn EXCEPT ![c] = conn[c]] /\ tasks = [tasks EXCEPT ![c] = tasks[c]]
    BY <1>1
  <2>2. tasks[c] \in 0 .. MaxTasks
    BY <1>1
  <2>3. CASE \/ Accept(c) \/ ConnectionMade(c) \/ Disconnect(c)
             \/ ConnectionLost(c) \/ \E close \in BOOLEAN : Response(c, close)
    <3>1. PICK v \in {"free", "accepted", "idle", "closing"} :
            conn' = [conn EXCEPT ![c] = v]
      BY <2>3 DEF Accept, ConnectionMade, Disconnect, ConnectionLost, Response
    <3>2. tasks' = tasks
      BY <2>3 DEF Accept, ConnectionMade, Disconnect, ConnectionLost, Response
    <3>3. Slot(v, tasks[c])
      BY <2>1, <2>2, <3>1, <3>2
    <3> HIDE DEF Slot
    <3>4. QED
      BY <3>3
  <2>4. CASE Request(c)
    <3>1. Slot("busy", tasks[c] + 1)
      BY <1>1, <2>2, <2>4 DEF Request
    <3> HIDE DEF Slot
    <3>2. QED
      BY <3>1
  <2>5. CASE TaskEnds(c)
    <3>1. /\ tasks[c] > (IF conn[c] = "busy" THEN 1 ELSE 0)
          /\ tasks' = [tasks EXCEPT ![c] = tasks[c] - 1] /\ conn' = conn
      BY <2>5 DEF TaskEnds, Lingers
    <3>2. tasks[c] - 1 \in 0 .. MaxTasks /\ (conn[c] = "busy" => tasks[c] - 1 > 0)
      BY <1>1, <2>2, <3>1
    <3>3. Slot(conn[c], tasks[c] - 1)
      BY <1>1, <2>1, <3>1, <3>2
    <3> HIDE DEF Slot
    <3>4. QED
      BY <3>3
  <2>6. CASE TaskFails(c)
    <3>1. tasks[c] > 0
      BY <1>1, <2>6 DEF TaskFails
    <3>2. Slot("closing", tasks[c] - 1)
      BY <1>1, <2>2, <2>6, <3>1 DEF TaskFails
    <3> HIDE DEF Slot
    <3>3. QED
      BY <3>2
  <2>7. QED
    BY <2>3, <2>4, <2>5, <2>6 DEF Connection
<1>4. /\ conn' \in [Conns -> {"free", "accepted", "idle", "busy", "closing"}]
      /\ tasks' \in [Conns -> 0 .. MaxTasks]
      /\ \A d \in Conns : conn'[d] = "busy" => tasks'[d] > 0
  <2>1. PICK v, n : Slot(v, n)
    BY <1>3
  <2>2. conn'[c] = v /\ tasks'[c] = n
    BY <1>1, <2>1
  <2>3. \A d \in Conns \ {c} : conn'[d] = conn[d] /\ tasks'[d] = tasks[d]
    BY <1>1, <2>1
  <2>4. \A d \in Conns : conn'[d] = "busy" => tasks'[d] > 0
    BY <1>1, <2>1, <2>2, <2>3
  <2>5. QED
    BY <1>1, <2>1, <2>4
<1>5. keepAlive' \in [Conns -> BOOLEAN]
    BY <1>1 DEF Connection, Accept, ConnectionMade, Request, Response, TaskEnds,
       TaskFails, Disconnect, ConnectionLost
<1>6. total' \in 0 .. MaxTotal
    BY <1>1 DEF Connection, Accept, ConnectionMade, Request, Response, TaskEnds,
       TaskFails, Disconnect, ConnectionLost, Counted
<1>7. LifespanTypeOK'
    BY <1>2, LifespanFrame DEF TypeInv, TypeOK
<1>8. TypeOK'
    BY <1>2, <1>4, <1>5, <1>6, <1>7 DEF TypeInv, TypeOK, configVars, loopVars
<1>9. QueueInv'
    BY <1>2 DEF TypeInv, QueueInv, loopVars, lifespanVars
<1>10. QED
    BY <1>4, <1>8, <1>9 DEF TypeInv, TaskInv

LEMMA TypeStep == TypeInv /\ [Next]_vars => TypeInv'
<1> SUFFICES ASSUME TypeInv, [Next]_vars PROVE TypeInv'
    OBVIOUS
<1>1. CASE UNCHANGED vars
  <2>1. TypeOK'
    BY <1>1, LifespanFrame
       DEF TypeInv, TypeOK, vars, configVars, loopVars, stateVars
  <2>2. QueueInv' /\ TaskInv'
    BY <1>1 DEF TypeInv, QueueInv, TaskInv, vars, lifespanVars, loopVars, stateVars
  <2>3. QED
    BY <2>1, <2>2 DEF TypeInv
<1>2. CASE ~UNCHANGED vars
    BY <1>2, ServeTyped, ApplicationTyped, ConnectionTyped DEF Next
<1>3. QED
    BY <1>1, <1>2

LEMMA TypeSafety == Spec => []TypeInv
BY InitTyped, TypeStep, PTL DEF Spec

\* Every variable keeps its type: at most two messages are ever queued, and no
\* task ends that was not started.
THEOREM ServerTypeCorrect == Spec => []TypeOK
<1>1. TypeInv => TypeOK
    BY DEF TypeInv
<1>2. QED
    BY <1>1, TypeSafety, PTL

-----------------------------------------------------------------------------
(* The application serves only when started.                               *)

Started == lifespan = "off" \/ (startupEvent /\ ~startupFailed)

StartedInv ==
    /\ pc \notin {"boot", "startup", "exited"} => Started
    /\ listening => Started
    /\ ServesOnlyStarted

\* startup_failed is decided with the first answer, and the answer stays.
LEMMA StartedStays ==
    ASSUME Started, [Next]_vars
    PROVE  Started'
<1>1. CASE UNCHANGED lifespanVars
    BY <1>1 DEF lifespanVars, Started
<1>2. CASE Application
    BY <1>2 DEF Application, LifespanApp, TakesMessage, SendsStartup,
       SendsShutdown, MainEnds, Started
<1>3. CASE Boot \/ LifespanShutdown
    BY <1>3 DEF Boot, LifespanShutdown, CallStartup, CallShutdown, lifespanVars,
       Started
<1>4. Serve => Boot \/ LifespanShutdown \/ UNCHANGED lifespanVars
    BY DEF Serve, StartupReturns, Bind, BindFails, BeginShutdown, SleepEnds,
       ConnectionsGone, TasksGone, ListenersClosed, Wait, GracefulTimeout, LifespanShutdownReturns
<1>5. ASSUME NEW c \in Conns, Connection(c) PROVE UNCHANGED lifespanVars
    BY <1>5 DEF Connection, Accept, ConnectionMade, Request, Response, TaskEnds,
       TaskFails, Disconnect, ConnectionLost
<1>6. ASSUME NEW sigint \in BOOLEAN, HandleExit(sigint) PROVE UNCHANGED lifespanVars
    BY <1>6 DEF HandleExit
<1>7. QED
    BY <1>1, <1>2, <1>3, <1>4, <1>5, <1>6 DEF Next, vars

\* What is there to serve was there before, or has just been accepted.
LEMMA NothingFromNothing ==
    ASSUME TypeInv, [Next]_vars, ~listening,
           \A c \in Conns : conn[c] = "free" /\ tasks[c] = 0
    PROVE  UNCHANGED <<conn, tasks>>
<1>1. CASE UNCHANGED stateVars
    BY <1>1 DEF stateVars
<1>2. CASE BeginShutdown
  <2>1. conn \in [Conns -> {"free", "accepted", "idle", "busy", "closing"}]
    BY DEF TypeInv, TypeOK
  <2>2. conn' = conn /\ tasks' = tasks
    BY <1>2, <2>1 DEF BeginShutdown, AskAll
  <2>3. QED
    BY <2>2
<1>3. Serve => BeginShutdown \/ UNCHANGED stateVars
    BY DEF Serve, Boot, StartupReturns, Bind, BindFails, SleepEnds,
       ConnectionsGone, TasksGone, ListenersClosed, Wait, GracefulTimeout, LifespanShutdown,
       LifespanShutdownReturns
<1>4. ASSUME NEW c \in Conns PROVE ~Connection(c)
    BY DEF Connection, Accept, ConnectionMade, Request, Response, TaskEnds,
       Lingers, TaskFails, Disconnect, ConnectionLost
<1>5. QED
    BY <1>1, <1>2, <1>3, <1>4 DEF Next, vars, HandleExit, Application

LEMMA StartedStep == TypeInv /\ StartedInv /\ [Next]_vars => StartedInv'
<1> SUFFICES ASSUME TypeInv, StartedInv, [Next]_vars PROVE StartedInv'
    OBVIOUS
<1>1. CASE Started
    BY <1>1, StartedStays DEF StartedInv, ServesOnlyStarted, Started
<1>2. CASE ~Started
  <2>1. /\ pc \in {"boot", "startup", "exited"} /\ ~listening
        /\ \A c \in Conns : conn[c] = "free" /\ tasks[c] = 0
    <3>1. \A c \in Conns : conn[c] = "free" /\ ~(tasks[c] > 0)
      BY <1>2 DEF StartedInv, ServesOnlyStarted, Started
    <3>2. \A c \in Conns : tasks[c] \in 0 .. MaxTasks
      BY DEF TypeInv, TypeOK
    <3>3. QED
      BY <1>2, <3>1, <3>2, MaxTasksAssumption DEF StartedInv
  <2>2. UNCHANGED <<conn, tasks>>
    BY <2>1, NothingFromNothing
  <2>3. ~listening'
    BY <2>1 DEF Next, Serve, Boot, StartupReturns, Bind, BindFails,
       BeginShutdown, SleepEnds, ConnectionsGone, TasksGone, ListenersClosed, Wait,
       GracefulTimeout, LifespanShutdown, LifespanShutdownReturns, HandleExit,
       Application, Connection, Accept, ConnectionMade, Request, Response,
       TaskEnds, TaskFails, Disconnect, ConnectionLost, vars, loopVars
  <2>4. pc' \in {"boot", "startup", "exited"} \/ Started'
    <3>1. CASE Boot
      BY <3>1 DEF Boot, CallStartup, lifespanVars, Started
    <3>2. CASE StartupReturns
      BY <3>2 DEF StartupReturns, Refused, lifespanVars, Started
    <3>3. CASE UNCHANGED pc
      BY <2>1, <3>3
    <3>4. Serve => Boot \/ StartupReturns
      BY <2>1 DEF Serve, Bind, BindFails, BeginShutdown, SleepEnds,
         ConnectionsGone, TasksGone, ListenersClosed, Wait, GracefulTimeout, LifespanShutdown,
         LifespanShutdownReturns
    <3>5. \/ Serve \/ UNCHANGED pc
      BY DEF Next, HandleExit, Application, Connection, Accept, ConnectionMade,
         Request, Response, TaskEnds, TaskFails, Disconnect, ConnectionLost,
         vars, loopVars
    <3>6. QED
      BY <3>1, <3>2, <3>3, <3>4, <3>5
  <2>5. ServesOnlyStarted'
    BY <2>1, <2>2 DEF ServesOnlyStarted
  <2>6. QED
    BY <2>3, <2>4, <2>5 DEF StartedInv
<1>3. QED
    BY <1>1, <1>2

\* No connection is accepted and no task runs before the lifespan startup is
\* complete, nor at all if it failed.
THEOREM StartSafety == Spec => []ServesOnlyStarted
<1>1. Init => StartedInv
    BY DEF Init, StartedInv, ServesOnlyStarted
<1>2. TypeInv /\ StartedInv /\ [Next]_vars => StartedInv'
    BY StartedStep
<1>3. StartedInv => ServesOnlyStarted
    BY DEF StartedInv
<1>4. QED
    BY <1>1, <1>2, <1>3, TypeSafety, PTL DEF Spec

-----------------------------------------------------------------------------
(* The application is told to shut down.                                   *)

\* shutdown() has put its message in the queue, or the application has it.
Told == "shutdown" \in told \/ \E k \in 1 .. Len(queue) : queue[k] = "shutdown"

\* lifespan.shutdown() is waited for once the message is out; main() has not
\* raised while it runs; an exit is with the listeners open, or accounted for.
ToldInv ==
    /\ pc = "lifespanWait" => Told
    /\ errorOccured => mainTask = "ended"
    /\ pc = "boot" => mainTask = "none"
    /\ pc = "exited" =>
         listening \/ forceExit \/ lifespan = "off" \/ errorOccured
           \/ startupFailed \/ (shutdownEvent /\ Told)

\* The message stays in the queue until the application takes it.
LEMMA ToldStays ==
    ASSUME TypeInv, Told, Application
    PROVE  Told'
<1>1. queue \in Seq({"startup", "shutdown"})
    BY DEF TypeInv, TypeOK, LifespanTypeOK
<1>2. CASE TakesMessage
  <2>1. queue # <<>> /\ queue' = Tail(queue) /\ told' = told \cup {Head(queue)}
    BY <1>2 DEF TakesMessage
  <2>2. CASE "shutdown" \in told
    BY <2>1, <2>2 DEF Told
  <2>3. ASSUME NEW k \in 1 .. Len(queue), queue[k] = "shutdown" PROVE Told'
    <3>1. CASE k = 1
      BY <1>1, <2>1, <2>3, <3>1, QueueTake DEF Told
    <3>2. CASE k # 1
      <4>1. /\ k - 1 \in 1 .. Len(queue') /\ k - 1 + 1 = k
            /\ queue'[k - 1] = queue[k - 1 + 1]
        BY <1>1, <2>1, <2>3, <3>2, QueueTake
      <4>2. QED
        BY <2>3, <4>1 DEF Told
    <3>3. QED
      BY <3>1, <3>2
  <2>4. QED
    BY <2>2, <2>3 DEF Told
<1>3. CASE UNCHANGED <<queue, told>>
    BY <1>3 DEF Told
<1>4. QED
    BY <1>2, <1>3 DEF Application, LifespanApp, SendsStartup, SendsShutdown,
       MainEnds

LEMMA ToldStep == TypeInv /\ ToldInv /\ [Next]_vars => ToldInv'
<1> SUFFICES ASSUME TypeInv, ToldInv, [Next]_vars PROVE ToldInv'
    OBVIOUS
<1>1. CASE Application
  <2>1. pc # "exited" /\ UNCHANGED pc
    BY <1>1 DEF Application, Alive, loopVars
  <2>2. pc' = "lifespanWait" => Told'
    BY <1>1, <2>1, ToldStays DEF ToldInv
  <2>3. /\ mainTask = "app"
        /\ mainTask' \in {"app", "ended"}
        /\ mainTask' = "app" => UNCHANGED errorOccured
    BY <1>1 DEF Application, LifespanApp, TakesMessage, SendsStartup,
       SendsShutdown, MainEnds
  <2>4. QED
    BY <2>1, <2>2, <2>3 DEF ToldInv
<1>2. CASE Boot
    BY <1>2 DEF Boot, CallStartup, lifespanVars, ToldInv
<1>3. CASE LifespanShutdown
  <2>1. CASE SkipsLifespan
    BY <1>3, <2>1 DEF LifespanShutdown, SkipsLifespan, lifespanVars, ToldInv
  <2>2. CASE ~SkipsLifespan
    <3>1. /\ pc' = "lifespanWait" /\ queue' = Append(queue, "shutdown")
          /\ UNCHANGED <<mainTask, errorOccured>>
      BY <1>3, <2>2 DEF LifespanShutdown, CallShutdown
    <3>2. queue \in Seq({"startup", "shutdown"})
      BY DEF TypeInv, TypeOK, LifespanTypeOK
    <3>3. /\ Len(queue') = Len(queue) + 1 /\ Len(queue) \in Nat
          /\ queue'[Len(queue) + 1] = "shutdown"
      BY <3>1, <3>2, QueuePut
    <3>4. Told'
      BY <3>3 DEF Told
    <3>5. QED
      BY <3>1, <3>4 DEF ToldInv
  <2>3. QED
    BY <2>1, <2>2
<1>4. CASE LifespanShutdownReturns
    BY <1>4 DEF LifespanShutdownReturns, lifespanVars, ToldInv, Told
<1>5. CASE StartupReturns
    BY <1>5 DEF StartupReturns, Refused, lifespanVars, ToldInv
<1>6. CASE Bind
    BY <1>6 DEF Bind, lifespanVars, ToldInv
<1>7. CASE \/ BindFails \/ BeginShutdown \/ SleepEnds \/ ConnectionsGone
           \/ TasksGone \/ ListenersClosed \/ GracefulTimeout
    BY <1>7 DEF BindFails, BeginShutdown, SleepEnds, ConnectionsGone, TasksGone,
       ListenersClosed, Wait, GracefulTimeout, lifespanVars, ToldInv
<1>8. ASSUME \/ UNCHANGED vars
             \/ \E sigint \in BOOLEAN : HandleExit(sigint)
             \/ \E c \in Conns : Connection(c)
      PROVE  ToldInv'
  <2>1. /\ UNCHANGED <<lifespanVars, pc, listening>>
        /\ pc = "exited" => UNCHANGED forceExit
    BY <1>8 DEF HandleExit, Connection, Accept, ConnectionMade, Request,
       Response, TaskEnds, TaskFails, Disconnect, ConnectionLost, vars, loopVars
  <2>2. QED
    BY <2>1 DEF ToldInv, Told, lifespanVars
<1>9. QED
    BY <1>1, <1>2, <1>3, <1>4, <1>5, <1>6, <1>7, <1>8 DEF Next, Serve

\* A server that stopped on its own terms, with an application that could be
\* told, has told it and waited for the answer before it exits.
THEOREM ToldSafety == Spec => []ToldBeforeExit
<1>1. Init => ToldInv
    BY DEF Init, LifespanInit, ToldInv
<1>2. TypeInv /\ ToldInv /\ [Next]_vars => ToldInv'
    BY ToldStep
<1>3. ToldInv => ToldBeforeExit
    BY DEF ToldInv, ToldBeforeExit, Told
<1>4. QED
    BY <1>1, <1>2, <1>3, TypeSafety, PTL DEF Spec

-----------------------------------------------------------------------------
(* The order of a shutdown, when accepted connections are made at once.    *)

Quiet == \A c \in Conns : conn[c] = "free" /\ tasks[c] = 0

\* Each wait of shutdown() that was neither forced nor timed out has left what
\* it waited for behind it, and closed listeners let nothing new in.
WorkInv ==
    /\ \A c \in Conns : conn[c] # "accepted"
    /\ pc \notin {"main", "exited"} => ~listening
    /\ pc \in {"boot", "startup", "bind", "abort"} => Quiet
    /\ pc = "tasks" /\ ~forceExit => \A c \in Conns : conn[c] = "free"
    /\ pc = "listeners" /\ ~forceExit => Quiet
    /\ pc = "lifespan" /\ ~timedOut =>
         /\ ~forceExit => Quiet
         /\ waitsClosed => \A c \in Conns : conn[c] = "free"
    /\ pc = "lifespanWait" /\ ~timedOut => Quiet
    /\ pc = "exited" /\ ~listening /\ ~timedOut =>
         /\ ~forceExit => Quiet
         /\ waitsClosed => \A c \in Conns : conn[c] = "free"
    /\ ShutdownReachesAll

LEMMA WorkStep ==
    ~SlowAccept /\ TypeInv /\ WorkInv /\ [Next]_vars => WorkInv'
<1> SUFFICES ASSUME ~SlowAccept, TypeInv, WorkInv, [Next]_vars PROVE WorkInv'
    OBVIOUS
<1>0. /\ conn \in [Conns -> {"free", "accepted", "idle", "busy", "closing"}]
      /\ keepAlive \in [Conns -> BOOLEAN]
      /\ tasks \in [Conns -> 0 .. MaxTasks]
      /\ pc \in {"boot", "startup", "bind", "abort", "main", "asked",
                 "connections", "tasks", "listeners", "lifespan",
                  "lifespanWait", "exited"}
    BY DEF TypeInv, TypeOK
<1> USE DEF ShutdownReachesAll
<1>1. CASE Boot \/ StartupReturns
    BY <1>1 DEF Boot, StartupReturns, stateVars, WorkInv, Quiet
<1>2. CASE Bind \/ BindFails
    BY <1>2 DEF Bind, BindFails, stateVars, WorkInv, Quiet
<1>3. CASE BeginShutdown
  <2>1. \A c \in Conns : /\ conn'[c] # "accepted" /\ conn'[c] # "idle"
                         /\ conn'[c] = "busy" => ~keepAlive'[c]
    BY <1>0, <1>3 DEF BeginShutdown, AskAll, WorkInv
  <2>2. QED
    BY <1>3, <2>1 DEF BeginShutdown, WorkInv
<1>4. CASE SleepEnds \/ GracefulTimeout
    BY <1>4 DEF SleepEnds, Wait, GracefulTimeout, stateVars, WorkInv
<1>5. CASE ConnectionsGone
  <2>1. ~forceExit => \A c \in Conns : conn[c] = "free"
    BY <1>0, <1>5 DEF ConnectionsGone, Wait, Connections, WorkInv
  <2>2. QED
    BY <1>5, <2>1 DEF ConnectionsGone, Wait, stateVars, WorkInv
<1>6. CASE TasksGone
    BY <1>6 DEF TasksGone, Wait, NoTasks, stateVars, WorkInv, Quiet
<1>7. CASE ListenersClosed
    BY <1>7 DEF ListenersClosed, stateVars, configVars, WorkInv, Quiet
<1>8. CASE LifespanShutdown \/ LifespanShutdownReturns
    BY <1>8 DEF LifespanShutdown, LifespanShutdownReturns, SkipsLifespan,
       stateVars, configVars, WorkInv, Quiet
<1>9. ASSUME NEW sigint \in BOOLEAN, HandleExit(sigint) PROVE WorkInv'
    BY <1>9 DEF HandleExit, stateVars, configVars, WorkInv, Quiet
<1>10. ASSUME NEW c \in Conns, Connection(c) PROVE WorkInv'
  <2>1. pc # "exited" /\ UNCHANGED <<pc, forceExit, listening, timedOut, waitsClosed>>
    BY <1>10 DEF Connection, Accept, ConnectionMade, Request, Response, TaskEnds,
       TaskFails, Disconnect, ConnectionLost, Alive, loopVars, configVars
  <2>2. \A d \in Conns \ {c} : /\ conn'[d] = conn[d] /\ keepAlive'[d] = keepAlive[d]
                               /\ tasks'[d] = tasks[d]
    BY <1>0, <1>10 DEF Connection, Accept, ConnectionMade, Request, Response,
       TaskEnds, TaskFails, Disconnect, ConnectionLost
  <2>3. conn'[c] # "accepted"
    BY <1>0, <1>10 DEF WorkInv, Connection, Accept, ConnectionMade, Request,
       Response, TaskEnds, TaskFails, Disconnect, ConnectionLost
  <2>4. CASE pc = "main"
    BY <2>1, <2>2, <2>3, <2>4 DEF WorkInv
  <2>5. CASE pc # "main"
    <3>1. ~listening /\ ~Accept(c) /\ ~ConnectionMade(c)
      BY <2>1, <2>5 DEF WorkInv, Accept, ConnectionMade
    <3>2. ~(conn[c] = "free" /\ tasks[c] = 0)
      BY <1>0, <1>10, <3>1 DEF Connection, Request, Response, TaskEnds, Lingers,
         TaskFails, Disconnect, ConnectionLost
    <3>3. pc \in {"asked", "connections", "tasks", "listeners", "lifespan",
                 "lifespanWait"}
      BY <1>0, <2>1, <2>5, <3>2 DEF WorkInv, Quiet
    <3>4. conn[c] # "idle" /\ (conn[c] = "busy" => ~keepAlive[c])
      BY <3>3 DEF WorkInv
    <3>5. /\ conn[c] = "free" => conn'[c] = "free"
          /\ conn'[c] # "idle" /\ (conn'[c] = "busy" => ~keepAlive'[c])
      BY <1>0, <1>10, <3>1, <3>4 DEF Connection, Request, Response, TaskEnds,
         TaskFails, Disconnect, ConnectionLost
    <3>6. QED
      BY <2>1, <2>2, <2>3, <2>5, <3>1, <3>2, <3>3, <3>5 DEF WorkInv, Quiet
  <2>6. QED
    BY <2>4, <2>5
<1>11. CASE Application \/ UNCHANGED vars
    BY <1>11 DEF Application, vars, configVars, loopVars, stateVars, WorkInv,
       Quiet
<1>12. QED
    BY <1>1, <1>2, <1>3, <1>4, <1>5, <1>6, <1>7, <1>8, <1>9, <1>10, <1>11
       DEF Next, Serve

LEMMA WorkSafety == ~SlowAccept => (Spec => []WorkInv)
<1> SUFFICES ASSUME ~SlowAccept PROVE Spec => []WorkInv
    OBVIOUS
<1>1. Init => WorkInv
    BY DEF Init, WorkInv, Quiet, ShutdownReachesAll
<1>2. TypeInv /\ WorkInv /\ [Next]_vars => WorkInv'
    BY WorkStep
<1>3. QED
    BY <1>1, <1>2, TypeSafety, PTL DEF Spec

\* Unless the graceful shutdown timed out, the application is told to shut down
\* only after the last connection is gone and the last task has ended.
THEOREM WorkDoneSafety == ~SlowAccept => (Spec => []WorkDoneBeforeLifespan)
<1>1. WorkInv => WorkDoneBeforeLifespan
    BY DEF WorkInv, WorkDoneBeforeLifespan, Quiet, Connections, NoTasks
<1>2. QED
    BY <1>1, WorkSafety, PTL

\* During a shutdown no connection is idle and the busy ones close after their
\* response.
THEOREM ShutdownReachSafety == ~SlowAccept => (Spec => []ShutdownReachesAll)
<1>1. WorkInv => ShutdownReachesAll
    BY DEF WorkInv
<1>2. QED
    BY <1>1, WorkSafety, PTL

\* A server that has closed its listeners leaves no connection and no task when
\* it exits, unless it was forced or timed out; and forced it leaves no
\* connection where wait_closed() waits for them.
THEOREM NothingLeftSafety == ~SlowAccept => (Spec => []NothingLeftBehind)
<1>1. WorkInv => NothingLeftBehind
    BY DEF WorkInv, NothingLeftBehind, Quiet, Connections, NoTasks
<1>2. QED
    BY <1>1, WorkSafety, PTL
=============================================================================
