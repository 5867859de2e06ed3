------------------------------ MODULE Lifespan ------------------------------
(***************************************************************************)
(* The lifespan protocol between the server and the application:           *)
(* LifespanOn of lifespan/on.py.  The server awaits startup() and          *)
(* shutdown(); main() runs the application as a task of its own, which     *)
(* receives from a queue and answers by setting the two events.            *)
(***************************************************************************)
EXTENDS Naturals, Sequences

VARIABLES lifespan,        \* config.lifespan: "on", "auto" or "off"
          mainTask,        \* main(): "none", "app" (in the application), "ended"
          queue,           \* receive_queue
          told,            \* messages the application has taken from it
          startupEvent, shutdownEvent,
          startupFailed, shutdownFailed,
          errorOccured

lifespanVars == <<lifespan, mainTask, queue, told, startupEvent, shutdownEvent,
                  startupFailed, shutdownFailed, errorOccured>>

LifespanTypeOK ==
    /\ lifespan \in {"on", "auto", "off"}
    /\ mainTask \in {"none", "app", "ended"}
    /\ queue \in Seq({"startup", "shutdown"}) /\ Len(queue) <= 2
    /\ told \subseteq {"startup", "shutdown"}
    /\ startupEvent \in BOOLEAN
    /\ shutdownEvent \in BOOLEAN
    /\ startupFailed \in BOOLEAN
    /\ shutdownFailed \in BOOLEAN
    /\ errorOccured \in BOOLEAN

LifespanInit ==
    /\ lifespan \in {"on", "auto", "off"}
    /\ mainTask = "none"
    /\ queue = <<>>
    /\ told = {}
    /\ startupEvent = FALSE
    /\ shutdownEvent = FALSE
    /\ startupFailed = FALSE
    /\ shutdownFailed = FALSE
    /\ errorOccured = FALSE

-----------------------------------------------------------------------------
(* Called by the server.                                                   *)

\* startup() up to its wait: main() is started, the message queued.
CallStartup ==
    /\ mainTask' = "app"
    /\ queue' = Append(queue, "startup")
    /\ UNCHANGED <<lifespan, told, startupEvent, shutdownEvent, startupFailed,
                   shutdownFailed, errorOccured>>

\* What startup() finds when its wait is over.  An exception counts only when
\* the protocol is required.  (mutant: lifespan.startup.failed is ignored)
RefusedByError(failed) == (failed => errorOccured) /\ errorOccured /\ lifespan = "on"
Refused(failed) == failed \/ (errorOccured /\ lifespan = "on")

\* shutdown() up to its wait; it is skipped after an exception.
CallShutdown ==
    /\ queue' = Append(queue, "shutdown")
    /\ UNCHANGED <<lifespan, mainTask, told, startupEvent, shutdownEvent,
                   startupFailed, shutdownFailed, errorOccured>>

-----------------------------------------------------------------------------
(* The application inside main().  A message out of turn raises an         *)
(* assertion error in the application, which is then free to end by it.    *)

TakesMessage ==
    /\ mainTask = "app" /\ queue # <<>>
    /\ told' = told \cup {Head(queue)}
    /\ queue' = Tail(queue)
    /\ UNCHANGED <<lifespan, mainTask, startupEvent, shutdownEvent,
                   startupFailed, shutdownFailed, errorOccured>>

\* lifespan.startup.complete and lifespan.startup.failed
SendsStartup(failed) ==
    /\ mainTask = "app" /\ ~startupEvent /\ ~shutdownEvent
    /\ startupEvent' = TRUE
    /\ startupFailed' = (startupFailed \/ failed)
    /\ UNCHANGED <<lifespan, mainTask, queue, told, shutdownEvent,
                   shutdownFailed, errorOccured>>

\* lifespan.shutdown.complete and lifespan.shutdown.failed
SendsShutdown(failed) ==
    /\ mainTask = "app" /\ startupEvent /\ ~shutdownEvent
    /\ shutdownEvent' = TRUE
    /\ shutdownFailed' = (shutdownFailed \/ failed)
    /\ UNCHANGED <<lifespan, mainTask, queue, told, startupEvent,
                   startupFailed, errorOccured>>

\* The application returns, or raises: main() sets both events either way.
\* (mutant: an exception leaves the events alone)
MainEndsQuietly(raises) ==
    /\ mainTask = "app"
    /\ mainTask' = "ended"
    /\ errorOccured' = raises
    /\ startupEvent' = (startupEvent \/ ~raises)
    /\ shutdownEvent' = (shutdownEvent \/ ~raises)
    /\ UNCHANGED <<lifespan, queue, told, startupFailed, shutdownFailed>>
MainEnds(raises) ==
    /\ mainTask = "app"
    /\ mainTask' = "ended"
    /\ errorOccured' = raises
    /\ startupEvent' = TRUE
    /\ shutdownEvent' = TRUE
    /\ UNCHANGED <<lifespan, queue, told, startupFailed, shutdownFailed>>

LifespanApp ==
    \/ TakesMessage
    \/ \E failed \in BOOLEAN : SendsStartup(failed) \/ SendsShutdown(failed)
    \/ \E raises \in BOOLEAN : MainEnds(raises)
=============================================================================
