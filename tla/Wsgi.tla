---------------------------------- MODULE Wsgi ----------------------------------
(***************************************************************************)
(* WSGIResponder (middleware/wsgi.py): one request of a WSGI application.  *)
(* The responder task reads the body, runs the application on a thread of  *)
(* the executor and starts the sender task.  The thread appends messages   *)
(* to send_queue and has the event loop set send_event; the sender pops    *)
(* and sends them; None (END) tells it that there are no more.             *)
(*                                                                         *)
(* The tasks and the callbacks of the loop run one at a time; the thread   *)
(* runs between any two steps of theirs, also between its append and its   *)
(* call_soon_threadsafe.                                                   *)
(***************************************************************************)
EXTENDS Naturals, Sequences

CONSTANTS
    MaxParts,       \* bound: receive() calls before the one that ends the body
    MaxMessages     \* bound: messages the application makes

ASSUME BoundsAssumption == MaxParts \in Nat /\ MaxMessages \in Nat

VARIABLES
    responder,      \* task: "body", "wsgi" (waits for the thread), "sender"
                    \* (waits for the sender), "ended"
    cancelled,      \* the task has been cancelled, once
    parts,          \* calls of receive() that promised more
    thread,         \* "none", "queued" in the executor, "running", "waking",
                    \* "finishing" (the last two: appended, not yet woken),
                    \* "done", "raised", "dropped" (cancelled while queued)
    responseStarted,
    excInfo,        \* self.exc_info is not None
    made,           \* messages the thread has appended: 1, 2, ... made
    queue,          \* self.send_queue
    wakes,          \* callbacks send_event.set that the loop has to run
    event,          \* self.send_event is set
    sender,         \* task: "none", "ready", "sending", "waiting", "done",
                    \* "raised" (send() raised), "cancelled"
    taken           \* the last message passed to send()

taskVars   == <<responder, cancelled, parts>>
threadVars == <<thread, responseStarted, excInfo, made>>
vars == <<taskVars, threadVars, queue, wakes, event, sender, taken>>

END == 0    \* None

TypeOK ==
    /\ responder \in {"body", "wsgi", "sender", "ended"}
    /\ cancelled \in BOOLEAN
    /\ parts \in 0 .. MaxParts
    /\ thread \in {"none", "queued", "running", "waking", "finishing", "done",
                   "raised", "dropped"}
    /\ responseStarted \in BOOLEAN /\ excInfo \in BOOLEAN
    /\ made \in 0 .. MaxMessages
    /\ queue \in Seq(0 .. MaxMessages)
    /\ wakes \in Nat
    /\ event \in BOOLEAN
    /\ sender \in {"none", "ready", "sending", "waiting", "done", "raised", "cancelled"}
    /\ taken \in 0 .. MaxMessages

Init ==
    /\ responder = "body" /\ cancelled = FALSE /\ parts = 0
    /\ thread = "none" /\ responseStarted = FALSE /\ excInfo = FALSE
    /\ made = 0 /\ queue = <<>> /\ wakes = 0 /\ event = FALSE
    /\ sender = "none" /\ taken = 0

-----------------------------------------------------------------------------
(* The responder task.                                                     *)

ReceiveMore ==
    /\ responder = "body" /\ parts < MaxParts
    /\ parts' = parts + 1
    /\ UNCHANGED <<responder, cancelled, threadVars, queue, wakes, event,
                   sender, taken>>

\* The body ends, with a last part or because the client is gone: a disconnect
\* has no more_body, and the application runs on what has come.
ReceiveLast ==
    /\ responder = "body"
    /\ responder' = "wsgi"
    /\ thread' = "queued"
    /\ sender' = "ready"
    /\ UNCHANGED <<cancelled, parts, responseStarted, excInfo, made, queue,
                   wakes, event, taken>>

\* (mutant: the sender is not told)
AppendsEnd == queue' = Append(queue, END) /\ UNCHANGED event
Finishes   == queue' = Append(queue, END) /\ event' = TRUE

\* The thread is done, or has raised.
WsgiEnds ==
    /\ responder = "wsgi" /\ thread \in {"done", "raised"}
    /\ responder' = "sender"
    /\ Finishes
    /\ UNCHANGED <<cancelled, parts, threadVars, wakes, sender, taken>>

\* (mutant: does not wait)
AnySender  == TRUE
SenderGone == sender \in {"done", "raised"}

\* The responder returns, or raises what the application, the sender or
\* start_response's exc_info says.
ResponderEnds ==
    /\ responder = "sender" /\ SenderGone
    /\ responder' = "ended"
    /\ UNCHANGED <<cancelled, parts, threadVars, queue, wakes, event, sender,
                   taken>>

\* timeout_graceful_shutdown cancels the task.  A running thread runs on; the
\* sender is still told to finish, unless it is what the task was waiting for.
Cancel ==
    /\ ~cancelled
    /\ cancelled' = TRUE
    /\ \/ /\ responder = "body"
          /\ responder' = "ended"
          /\ UNCHANGED <<thread, queue, event, sender>>
       \/ /\ responder = "wsgi"
          /\ responder' = "sender"
          /\ thread' = IF thread = "queued" THEN "dropped" ELSE thread
          /\ Finishes
          /\ UNCHANGED sender
       \/ /\ responder = "sender"
          /\ responder' = "ended"
          /\ sender' = IF SenderGone THEN sender ELSE "cancelled"
          /\ UNCHANGED <<thread, queue, event>>
    /\ UNCHANGED <<parts, responseStarted, excInfo, made, wakes, taken>>

-----------------------------------------------------------------------------
(* The sender task and the callback that wakes it.                         *)

SenderTakes ==
    /\ sender = "ready" /\ queue # <<>>
    /\ queue' = Tail(queue)
    /\ IF Head(queue) = END
         THEN sender' = "done" /\ UNCHANGED taken
         ELSE sender' = "sending" /\ taken' = Head(queue)
    /\ UNCHANGED <<taskVars, threadVars, wakes, event>>

SendReturns ==
    /\ sender = "sending"
    /\ sender' \in {"ready", "raised"}
    /\ UNCHANGED <<taskVars, threadVars, queue, wakes, event, taken>>

SenderWaits ==
    /\ sender = "ready" /\ queue = <<>>
    /\ sender' = "waiting"
    /\ UNCHANGED <<taskVars, threadVars, queue, wakes, event, taken>>

SenderWakes ==
    /\ sender = "waiting" /\ event
    /\ event' = FALSE
    /\ sender' = "ready"
    /\ UNCHANGED <<taskVars, threadVars, queue, wakes, taken>>

\* The loop runs send_event.set.
Wake ==
    /\ wakes > 0
    /\ wakes' = wakes - 1
    /\ event' = TRUE
    /\ UNCHANGED <<taskVars, threadVars, queue, sender, taken>>

-----------------------------------------------------------------------------
(* The thread: wsgi(), the application and start_response().               *)

ThreadStarts ==
    /\ thread = "queued"
    /\ thread' = "running"
    /\ UNCHANGED <<taskVars, responseStarted, excInfo, made, queue, wakes,
                   event, sender, taken>>

\* A message goes to the end of send_queue; next: what the thread does then.
Put(next) ==
    /\ thread = "running" /\ made < MaxMessages
    /\ made' = made + 1
    /\ queue' = Append(queue, made + 1)
    /\ thread' = next
    /\ UNCHANGED <<taskVars, wakes, event, sender, taken>>

\* The first call makes http.response.start.
StartResponse(exc) ==
    /\ ~responseStarted
    /\ responseStarted' = TRUE /\ excInfo' = exc
    /\ Put("waking")

\* A later call only notes exc_info.  A first call with a status that is no
\* number raises, and the response counts as started.
StartResponseAgain(exc) ==
    /\ thread = "running"
    /\ excInfo' = exc
    /\ responseStarted' = TRUE
    /\ thread' \in IF responseStarted THEN {thread} ELSE {"running", "raised"}
    /\ UNCHANGED <<taskVars, made, queue, wakes, event, sender, taken>>

\* A chunk of the application, or the empty body that ends the response.
Body(next) ==
    /\ Put(next)
    /\ UNCHANGED <<responseStarted, excInfo>>

\* call_soon_threadsafe, after an append.  (mutant: the last one is forgotten)
ForgetsLast == wakes' = IF thread = "finishing" THEN wakes ELSE wakes + 1
CallsSoon   == wakes' = wakes + 1
ThreadWakes ==
    /\ thread \in {"waking", "finishing"}
    /\ CallsSoon
    /\ thread' = IF thread = "waking" THEN "running" ELSE "done"
    /\ UNCHANGED <<taskVars, responseStarted, excInfo, made, queue, event,
                   sender, taken>>

ThreadRaises ==
    /\ thread = "running"
    /\ thread' = "raised"
    /\ UNCHANGED <<taskVars, responseStarted, excInfo, made, queue, wakes,
                   event, sender, taken>>

-----------------------------------------------------------------------------
Loop == \/ ReceiveMore \/ ReceiveLast \/ WsgiEnds \/ ResponderEnds \/ Cancel
        \/ SenderTakes \/ SendReturns \/ SenderWaits \/ SenderWakes \/ Wake

Thread == \/ ThreadStarts
          \/ \E exc \in BOOLEAN : StartResponse(exc) \/ StartResponseAgain(exc)
          \/ \E next \in {"waking", "finishing"} : Body(next)
          \/ ThreadWakes \/ ThreadRaises

Next == Loop \/ Thread

Spec == Init /\ [][Next]_vars

\* The loop runs what is ready, receive() and send() return, a thread of the
\* pool becomes free and applications return.
FairSpec ==
    /\ Spec
    /\ WF_vars(ReceiveLast) /\ WF_vars(WsgiEnds) /\ WF_vars(ResponderEnds)
    /\ WF_vars(SenderTakes) /\ WF_vars(SendReturns) /\ WF_vars(SenderWakes)
    /\ WF_vars(SenderWaits) /\ WF_vars(Wake)
    /\ WF_vars(ThreadStarts) /\ WF_vars(ThreadWakes)
    /\ WF_vars(ThreadRaises \/ Body("finishing"))

-----------------------------------------------------------------------------
\* No wake-up is lost between the thread, the loop and the sender: a sender
\* that waits while a message is queued will be woken.
WaitingIsWoken ==
    sender = "waiting" /\ queue # <<>> =>
        event \/ wakes > 0 \/ thread \in {"waking", "finishing"}

\* A responder that was not cancelled ends only when every message of its
\* application has been sent, also of one that raised, unless send() raised.
AllSent ==
    responder = "ended" /\ ~cancelled /\ sender # "raised" =>
        sender = "done" /\ taken = made /\ queue = <<>>

\* The responder ends, also one whose application or send() raised or that was
\* cancelled at any point: the sender it waits for is always told to finish.
ResponderReturns == <>(responder = "ended")
=============================================================================
