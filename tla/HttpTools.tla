------------------------------ MODULE HttpTools ------------------------------
(***************************************************************************)
(* One connection of the default HTTP protocol: HttpToolsProtocol and its  *)
(* RequestResponseCycle objects (protocols/http/httptools_impl.py) with    *)
(* their FlowControl (flow_control.py), the asyncio transport they drive,  *)
(* the client at the other end, and the application tasks.                 *)
(*                                                                         *)
(* The program runs on one event loop: code between two awaits is one      *)
(* step.  A call of data_received is a run of parser callbacks during      *)
(* which nothing else happens (feeding); so are the two sends of           *)
(* send_500_response while the connection is writable.                     *)
(*                                                                         *)
(* Request i is the i-th request head parsed; its RequestResponseCycle is  *)
(* the i-th entry of each per-request function, and self.cycle is entry    *)
(* cur.  The application is arbitrary: it may hold one receive and one     *)
(* send at a time, in any order, and end in any way.                       *)
(***************************************************************************)
EXTENDS Naturals, Sequences

CONSTANTS MaxRequests,  \* bound: requests the client sends on the connection
          HighWater,    \* HIGH_WATER_LIMIT, in chunks of request body
          WsAvailable   \* ws_protocol_class is not None

ASSUME MaxRequestsAssumption == MaxRequests \in Nat \ {0}
ASSUME HighWaterAssumption == HighWater \in Nat
ASSUME WsAvailableAssumption == WsAvailable \in BOOLEAN

Requests == 1 .. MaxRequests

VARIABLES
    \* the transport and the loop
    conn,           \* "open"; "closing": is_closing(); "lost": connection_lost ran
    failed,         \* the transport failed: connection_lost gets an exception
    feeding,        \* data_received is running
    inMessage,      \* the parser is inside the body of a request
    shutdownCalled, \* Server.shutdown has called shutdown()
    \* HttpToolsProtocol
    upgraded,       \* handle_websocket_upgrade has run
    inConnections,  \* self in server_state.connections
    timer,          \* the keep-alive timer is pending
    total,          \* this connection's share of server_state.total_requests
    cur,            \* the request of self.cycle, 0 for None
    pipeline,       \* self.pipeline, next request first
    \* FlowControl
    readPaused, writePaused,
    \* RequestResponseCycle
    phase,          \* "none", "queued", "app", "fail" (send_500_response), "done"
    recv,           \* "wait": receive() waits for message_event
    snd,            \* "drain": send() waits in drain(); "drained": released
    started, complete, disconnected, keepAlive,
    waiting100,     \* waiting_for_100_continue
    event,          \* message_event
    body,           \* len(self.body), in chunks
    moreBody,       \* more_body
    gotEnd          \* the application has been given the end of the body

transportVars == <<conn, failed>>
loopVars      == <<feeding, inMessage, shutdownCalled>>
protoVars     == <<upgraded, inConnections, timer, total, cur, pipeline>>
flowVars      == <<readPaused, writePaused>>
callVars      == <<phase, recv, snd>>
responseVars  == <<started, complete, disconnected, keepAlive, waiting100>>
bodyVars      == <<event, body, moreBody, gotEnd>>
vars == <<transportVars, loopVars, protoVars, flowVars, callVars,
          responseVars, bodyVars>>

TypeOK ==
    /\ conn \in {"open", "closing", "lost"}
    /\ failed \in BOOLEAN
    /\ feeding \in BOOLEAN
    /\ inMessage \in BOOLEAN
    /\ shutdownCalled \in BOOLEAN
    /\ upgraded \in BOOLEAN
    /\ inConnections \in BOOLEAN
    /\ timer \in BOOLEAN
    /\ total \in 0 .. MaxRequests
    /\ cur \in 0 .. MaxRequests
    /\ pipeline \in Seq(Requests)
    /\ readPaused \in BOOLEAN
    /\ writePaused \in BOOLEAN
    /\ phase \in [Requests -> {"none", "queued", "app", "fail", "done"}]
    /\ recv \in [Requests -> {"idle", "wait"}]
    /\ snd \in [Requests -> {"idle", "drain", "drained"}]
    /\ started \in [Requests -> BOOLEAN]
    /\ complete \in [Requests -> BOOLEAN]
    /\ disconnected \in [Requests -> BOOLEAN]
    /\ keepAlive \in [Requests -> BOOLEAN]
    /\ waiting100 \in [Requests -> BOOLEAN]
    /\ event \in [Requests -> BOOLEAN]
    /\ body \in [Requests -> 0 .. HighWater + 1]
    /\ moreBody \in [Requests -> BOOLEAN]
    /\ gotEnd \in [Requests -> BOOLEAN]

\* connection_made has run.
Init ==
    /\ conn = "open"
    /\ failed = FALSE
    /\ feeding = FALSE
    /\ inMessage = FALSE
    /\ shutdownCalled = FALSE
    /\ upgraded = FALSE
    /\ inConnections = TRUE
    /\ timer = FALSE
    /\ total = 0
    /\ cur = 0
    /\ pipeline = <<>>
    /\ readPaused = FALSE
    /\ writePaused = FALSE
    /\ phase = [i \in Requests |-> "none"]
    /\ recv = [i \in Requests |-> "idle"]
    /\ snd = [i \in Requests |-> "idle"]
    /\ started = [i \in Requests |-> FALSE]
    /\ complete = [i \in Requests |-> FALSE]
    /\ disconnected = [i \in Requests |-> FALSE]
    /\ keepAlive = [i \in Requests |-> FALSE]
    /\ waiting100 = [i \in Requests |-> FALSE]
    /\ event = [i \in Requests |-> FALSE]
    /\ body = [i \in Requests |-> 0]
    /\ moreBody = [i \in Requests |-> TRUE]
    /\ gotEnd = [i \in Requests |-> FALSE]

-----------------------------------------------------------------------------
\* The loop takes another callback or task: no data_received is running, and
\* no task is between the two sends of send_500_response.
Free == ~feeding /\ \A i \in Requests : ~(phase[i] = "fail" /\ snd[i] = "idle")

\* self.cycle is None or self.cycle.response_complete
\* (mutant: a response that has started is taken for complete)
LatestStarted == cur = 0 \/ started[cur]
LatestComplete == cur = 0 \/ complete[cur]

\* The transport still has a buffer that this protocol hears about.
Buffered == conn # "lost" /\ ~failed /\ ~upgraded

\* transport.write: the buffer may pass its high-water mark, and the
\* transport then calls pause_writing at once.
Write == writePaused' \in IF Buffered THEN {writePaused, TRUE} ELSE {writePaused}

\* FlowControl's writable event is set: every drain() in progress returns, even
\* if the event is cleared again before the task runs.
\* (mutant: the flag changes, the event does not)
NotReleased == snd
Released == [i \in Requests |-> IF snd[i] = "drain" THEN "drained" ELSE snd[i]]

\* FlowControl.resume_reading  (mutant: the call is missing)
LeaveReading == UNCHANGED readPaused
ResumeReading == readPaused' = FALSE

\* transport.close  (mutant: the call is missing)
NotClosing(c) == c
Closing(c) == IF c = "open" THEN "closing" ELSE c

-----------------------------------------------------------------------------
(* data_received and the parser callbacks it makes.                        *)

DataReceived ==
    /\ Free /\ conn = "open" /\ ~readPaused /\ ~upgraded
    /\ feeding' = TRUE
    /\ timer' = FALSE
    /\ UNCHANGED <<transportVars, inMessage, shutdownCalled, upgraded,
                   inConnections, total, cur, pipeline, flowVars, callVars,
                   responseVars, bodyVars>>

FeedEnds ==
    /\ feeding
    /\ feeding' = FALSE
    /\ UNCHANGED <<transportVars, inMessage, shutdownCalled, protoVars,
                   flowVars, callVars, responseVars, bodyVars>>

\* The keep-alive flag starts FALSE for HTTP/1.0.
OnHeadersComplete ==
    /\ feeding /\ ~inMessage /\ cur < MaxRequests
    /\ inMessage' = TRUE
    /\ cur' = cur + 1
    /\ \E b \in BOOLEAN : keepAlive' = [keepAlive EXCEPT ![cur + 1] = b]
    /\ \E b \in BOOLEAN : waiting100' = [waiting100 EXCEPT ![cur + 1] = b]
    /\ IF LatestComplete
         THEN /\ phase' = [phase EXCEPT ![cur + 1] = "app"]
              /\ UNCHANGED <<pipeline, readPaused>>
         ELSE /\ phase' = [phase EXCEPT ![cur + 1] = "queued"]
              /\ pipeline' = Append(pipeline, cur + 1)
              /\ readPaused' = TRUE
    /\ UNCHANGED <<transportVars, feeding, shutdownCalled, upgraded,
                   inConnections, timer, total, writePaused, recv, snd,
                   started, complete, disconnected, bodyVars>>

\* What follows a complete response is dropped, which changes nothing.
OnBody ==
    /\ feeding /\ inMessage /\ ~LatestComplete
    /\ body[cur] <= HighWater          \* bound: at most HighWater + 1 chunks
    /\ body' = [body EXCEPT ![cur] = @ + 1]
    /\ readPaused' = (readPaused \/ body'[cur] > HighWater)
    /\ event' = [event EXCEPT ![cur] = TRUE]
    /\ UNCHANGED <<transportVars, loopVars, protoVars, writePaused, callVars,
                   responseVars, moreBody, gotEnd>>

OnMessageComplete ==
    /\ feeding /\ inMessage
    /\ inMessage' = FALSE
    /\ IF LatestComplete
         THEN UNCHANGED <<event, moreBody>>
         ELSE /\ moreBody' = [moreBody EXCEPT ![cur] = FALSE]
              /\ event' = [event EXCEPT ![cur] = TRUE]
    /\ UNCHANGED <<transportVars, feeding, shutdownCalled, protoVars,
                   flowVars, callVars, responseVars, body, gotEnd>>

\* The parser rejects the data: send_400_response.
ParserError ==
    /\ feeding
    /\ feeding' = FALSE
    /\ Write
    /\ conn' = "closing"
    /\ UNCHANGED <<failed, inMessage, shutdownCalled, protoVars, readPaused,
                   callVars, responseVars, bodyVars>>

\* The request just parsed asks for a WebSocket, whose protocol takes the
\* transport over: this one gets no callback of it any more.
HandleWebsocketUpgrade ==
    /\ WsAvailable
    /\ feeding /\ ~inMessage
    /\ feeding' = FALSE
    /\ upgraded' = TRUE
    /\ inConnections' = FALSE
    /\ UNCHANGED <<transportVars, inMessage, shutdownCalled, timer, total, cur,
                   pipeline, flowVars, callVars, responseVars, bodyVars>>

-----------------------------------------------------------------------------
(* The other callbacks of the transport, and the client's side of it.      *)

\* The buffer drains below its low-water mark.
ResumeWriting ==
    /\ Free /\ Buffered /\ writePaused
    /\ writePaused' = FALSE
    /\ snd' = Released
    /\ UNCHANGED <<transportVars, loopVars, protoVars, readPaused, phase, recv,
                   responseVars, bodyVars>>

\* The end of the client's stream: eof_received returns None, and the
\* transport closes.
EofReceived ==
    /\ Free /\ conn = "open" /\ ~readPaused
    /\ conn' = "closing"
    /\ UNCHANGED <<failed, loopVars, protoVars, flowVars, callVars,
                   responseVars, bodyVars>>

\* A read or a write fails: the transport drops its buffer and closes.
TransportFails ==
    /\ Free /\ conn # "lost" /\ ~failed
    /\ conn' = "closing"
    /\ failed' = TRUE
    /\ UNCHANGED <<loopVars, protoVars, flowVars, callVars, responseVars,
                   bodyVars>>

\* connection_lost sets the latest cycle's message_event.
\* (mutant: it is only marked disconnected)
NobodyToldOfLoss == UNCHANGED event
LatestToldOfLoss == event' = [i \in Requests |-> event[i] \/ i = cur]

\* Only the latest cycle hears of it.  A closed transport has flushed its
\* buffer before, a failed one has not.
ConnectionLost ==
    /\ Free /\ conn = "closing" /\ ~upgraded /\ (failed \/ ~writePaused)
    /\ conn' = "lost"
    /\ inConnections' = FALSE
    /\ disconnected' = [i \in Requests |->
                          disconnected[i] \/ (i = cur /\ ~complete[i])]
    /\ LatestToldOfLoss
    /\ writePaused' = FALSE
    /\ snd' = Released
    /\ timer' = (timer /\ failed)
    /\ UNCHANGED <<failed, loopVars, upgraded, total, cur, pipeline,
                   readPaused, phase, recv, started, complete, keepAlive,
                   waiting100, body, moreBody, gotEnd>>

\* After an upgrade the WebSocket protocol hears of it instead.
ConnectionLostUpgraded ==
    /\ Free /\ conn = "closing" /\ upgraded
    /\ conn' = "lost"
    /\ UNCHANGED <<failed, loopVars, protoVars, flowVars, callVars,
                   responseVars, bodyVars>>

TimeoutKeepAliveHandler ==
    /\ Free /\ timer
    /\ timer' = FALSE
    /\ conn' = Closing(conn)
    /\ UNCHANGED <<failed, loopVars, upgraded, inConnections, total, cur,
                   pipeline, flowVars, callVars, responseVars, bodyVars>>

\* Server.shutdown calls this once on each of server_state.connections.
Shutdown ==
    /\ Free /\ inConnections /\ ~shutdownCalled
    /\ shutdownCalled' = TRUE
    /\ IF LatestComplete
         THEN conn' = Closing(conn) /\ UNCHANGED keepAlive
         ELSE keepAlive' = [keepAlive EXCEPT ![cur] = FALSE] /\ UNCHANGED conn
    /\ UNCHANGED <<failed, feeding, inMessage, protoVars, flowVars, callVars,
                   started, complete, disconnected, waiting100, bodyVars>>

-----------------------------------------------------------------------------
(* RequestResponseCycle.receive                                            *)

\* What receive() does once it no longer waits.
\* (mutant: the event is not cleared)
TakeKeepingEvent(i) ==
    /\ UNCHANGED event
    /\ body' = [body EXCEPT ![i] = 0]
    /\ gotEnd' = [gotEnd EXCEPT ![i] = @ \/ ~moreBody[i]]
TakeMessage(i) ==
    /\ event' = [event EXCEPT ![i] = FALSE]
    /\ IF disconnected[i] \/ complete[i]
         THEN UNCHANGED <<body, gotEnd>>                   \* http.disconnect
         ELSE /\ body' = [body EXCEPT ![i] = 0]            \* http.request
              /\ gotEnd' = [gotEnd EXCEPT ![i] = @ \/ ~moreBody[i]]

\* A call after disconnection or completion returns at once and changes
\* nothing.
Receive(i) ==
    /\ Free /\ phase[i] = "app" /\ recv[i] = "idle"
    /\ ~disconnected[i] /\ ~complete[i]
    /\ IF waiting100[i] /\ conn = "open"
         THEN Write /\ waiting100' = [waiting100 EXCEPT ![i] = FALSE]
         ELSE UNCHANGED <<writePaused, waiting100>>
    /\ ResumeReading
    /\ IF event[i]
         THEN TakeMessage(i) /\ UNCHANGED recv
         ELSE /\ recv' = [recv EXCEPT ![i] = "wait"]
              /\ UNCHANGED <<event, body, gotEnd>>
    /\ UNCHANGED <<transportVars, loopVars, protoVars, phase, snd, started,
                   complete, disconnected, keepAlive, moreBody>>

ReceiveWakes(i) ==
    /\ Free /\ recv[i] = "wait" /\ event[i]
    /\ recv' = [recv EXCEPT ![i] = "idle"]
    /\ TakeMessage(i)
    /\ UNCHANGED <<transportVars, loopVars, protoVars, flowVars, phase, snd,
                   responseVars, moreBody>>

\* The application gives up waiting, as under a timeout of its own.
ReceiveCancelled(i) ==
    /\ Free /\ recv[i] = "wait"
    /\ recv' = [recv EXCEPT ![i] = "idle"]
    /\ UNCHANGED <<transportVars, loopVars, protoVars, flowVars, phase, snd,
                   responseVars, bodyVars>>

-----------------------------------------------------------------------------
(* RequestResponseCycle.send, called by the application and, in phase      *)
(* "fail", by send_500_response.                                           *)

\* send() goes to drain().
SendWaits(i) ==
    /\ snd[i] = "idle" /\ writePaused /\ ~disconnected[i]
    /\ phase[i] = "fail" \/ (Free /\ phase[i] = "app")
    /\ snd' = [snd EXCEPT ![i] = "drain"]
    /\ UNCHANGED <<transportVars, loopVars, protoVars, flowVars, phase, recv,
                   responseVars, bodyVars>>

\* send() has passed drain() and the check for disconnection.
CanSend(i) ==
    /\ ~disconnected[i]
    /\ \/ Free /\ phase[i] \in {"app", "fail"} /\ snd[i] = "drained"
       \/ Free /\ phase[i] = "app" /\ snd[i] = "idle" /\ ~writePaused
       \/ phase[i] = "fail" /\ snd[i] = "idle" /\ ~writePaused

\* After drain() the client turns out to be gone, or the message is not the
\* one due and is refused: nothing is sent.
SendReturns(i) ==
    /\ Free /\ phase[i] = "app" /\ snd[i] = "drained"
    /\ snd' = [snd EXCEPT ![i] = "idle"]
    /\ UNCHANGED <<transportVars, loopVars, protoVars, flowVars, phase, recv,
                   responseVars, bodyVars>>

\* keep_alive after the start of the response of i.
\* (mutant: the headers decide alone)
KeepAliveByHeaders(i, close) == [keepAlive EXCEPT ![i] = ~close]
KeepAliveAfter(i, close) == [keepAlive EXCEPT ![i] = @ /\ ~close]

\* http.response.start.  A "connection: close" of the request, of the
\* application or of send_500_response ends keep-alive; with an invalid
\* header (valid = FALSE) the call raises before it writes.
SendStart(i, close, valid) ==
    /\ CanSend(i) /\ ~started[i]
    /\ phase[i] = "fail" => close /\ valid
    /\ started' = [started EXCEPT ![i] = TRUE]
    /\ waiting100' = [waiting100 EXCEPT ![i] = FALSE]
    /\ keepAlive' = KeepAliveAfter(i, close)
    /\ snd' = [snd EXCEPT ![i] = "idle"]
    /\ IF valid THEN Write ELSE UNCHANGED writePaused
    /\ UNCHANGED <<transportVars, loopVars, protoVars, readPaused, phase, recv,
                   complete, disconnected, bodyVars>>

\* http.response.body with more to come, or a last one that turns out
\* shorter than content-length: written, and the response stays incomplete.
SendBody(i) ==
    /\ CanSend(i) /\ phase[i] = "app" /\ started[i] /\ ~complete[i]
    /\ Write
    /\ snd' = [snd EXCEPT ![i] = "idle"]
    /\ UNCHANGED <<transportVars, loopVars, protoVars, readPaused, phase, recv,
                   responseVars, bodyVars>>

\* The end of on_response_complete: the next queued request is started; ph
\* are the phases so far.  (mutants: it is not; the newest one is)
StartNone(ph) == phase' = ph /\ UNCHANGED pipeline
StartNewest(ph) ==
    \/ pipeline = <<>> /\ StartNone(ph)
    \/ /\ pipeline # <<>>
       /\ phase' = [ph EXCEPT ![pipeline[Len(pipeline)]] = "app"]
       /\ pipeline' = SubSeq(pipeline, 1, Len(pipeline) - 1)
StartNext(ph) ==
    \/ pipeline = <<>> /\ phase' = ph /\ UNCHANGED pipeline
    \/ /\ pipeline # <<>>
       /\ phase' = [ph EXCEPT ![Head(pipeline)] = "app"]
       /\ pipeline' = Tail(pipeline)

\* Whether on_response_complete goes on, given the transport it finds.
\* (mutant: without the test of is_closing)
AlwaysGoesOn(c) == c \in {"open", "closing", "lost"}
GoesOn(c) == c = "open"

\* (mutant: the response is counted twice)
CountTwice == total' = total + 2
CountRequest == total' = total + 1

OnResponseComplete(c, ph) ==
    /\ CountRequest
    /\ IF GoesOn(c)
         THEN timer' = TRUE /\ ResumeReading /\ StartNext(ph)
         ELSE phase' = ph /\ UNCHANGED <<timer, readPaused, pipeline>>

\* The last http.response.body; run_asgi ends with it in phase "fail".
SendLast(i) ==
    /\ CanSend(i) /\ started[i] /\ ~complete[i]
    /\ Write
    /\ complete' = [complete EXCEPT ![i] = TRUE]
    /\ event' = [event EXCEPT ![i] = TRUE]
    /\ conn' = IF keepAlive[i] THEN conn ELSE Closing(conn)
    /\ OnResponseComplete(conn', [phase EXCEPT ![i] = IF @ = "fail" THEN "done" ELSE @])
    /\ snd' = [snd EXCEPT ![i] = "idle"]
    /\ UNCHANGED <<failed, loopVars, upgraded, inConnections, cur, recv,
                   started, disconnected, keepAlive, waiting100, body,
                   moreBody, gotEnd>>

-----------------------------------------------------------------------------
(* RequestResponseCycle.run_asgi: how the application ends.  Calls it      *)
(* still has pending are cancelled.                                        *)

\* Leaves phase "app" for "fail", or for "done" with or without close().
\* (mutant: an incomplete response does not close the connection)
RunAsgiEndsOpen(i, ph, close) ==
    /\ close \in BOOLEAN
    /\ phase' = [phase EXCEPT ![i] = ph]
    /\ recv' = [recv EXCEPT ![i] = "idle"]
    /\ snd' = [snd EXCEPT ![i] = "idle"]
    /\ UNCHANGED <<transportVars, loopVars, protoVars, flowVars, responseVars,
                   bodyVars>>
RunAsgiEnds(i, ph, close) ==
    /\ phase' = [phase EXCEPT ![i] = ph]
    /\ recv' = [recv EXCEPT ![i] = "idle"]
    /\ snd' = [snd EXCEPT ![i] = "idle"]
    /\ conn' = IF close THEN Closing(conn) ELSE conn
    /\ UNCHANGED <<failed, loopVars, protoVars, flowVars, responseVars,
                   bodyVars>>

AppRaises(i) ==
    /\ Free /\ phase[i] = "app"
    /\ IF ~started[i] THEN RunAsgiEnds(i, "fail", FALSE)
                      ELSE RunAsgiEnds(i, "done", TRUE)

AppReturnsValue(i) ==
    /\ Free /\ phase[i] = "app"
    /\ RunAsgiEnds(i, "done", TRUE)

AppReturnsNone(i) ==
    /\ Free /\ phase[i] = "app"
    /\ IF ~started[i] /\ ~disconnected[i]
         THEN RunAsgiEnds(i, "fail", FALSE)
         ELSE RunAsgiEnds(i, "done", ~complete[i] /\ ~disconnected[i])

\* Both sends of send_500_response return at once: the client is gone.
FailDropped(i) ==
    /\ phase[i] = "fail" /\ disconnected[i]
    /\ snd[i] = "idle" \/ (Free /\ snd[i] = "drained")
    /\ RunAsgiEnds(i, "done", FALSE)

-----------------------------------------------------------------------------
Parser == \/ DataReceived \/ FeedEnds
          \/ OnHeadersComplete \/ OnBody \/ OnMessageComplete
          \/ ParserError \/ HandleWebsocketUpgrade

Callbacks == \/ ResumeWriting \/ EofReceived \/ TransportFails
             \/ ConnectionLost \/ ConnectionLostUpgraded
             \/ TimeoutKeepAliveHandler \/ Shutdown

Sends(i) == \/ SendWaits(i) \/ SendReturns(i) \/ SendBody(i) \/ SendLast(i)
            \/ \E close, valid \in BOOLEAN : SendStart(i, close, valid)

Task(i) == \/ Receive(i) \/ ReceiveWakes(i) \/ ReceiveCancelled(i)
           \/ Sends(i)
           \/ AppRaises(i) \/ AppReturnsValue(i) \/ AppReturnsNone(i)
           \/ FailDropped(i)

Next == Parser \/ Callbacks \/ \E i \in Requests : Task(i)

Spec == Init /\ [][Next]_vars

-----------------------------------------------------------------------------
(* Safety properties.                                                      *)

InService(i) == phase[i] \in {"app", "fail"} /\ ~complete[i]

\* Responses leave in the order of the requests: a request is handed to the
\* application, and its response starts, only when every earlier response is
\* complete (on_headers_complete and on_response_complete decide together).
ServedInOrder ==
    \A j \in Requests :
        (started[j] \/ phase[j] \notin {"none", "queued"})
            => \A i \in 1 .. (j - 1) : complete[i]

\* A queued request is never forgotten: while the connection is open, some
\* request in service will pop the pipeline when its response completes.
QueueHasRunner ==
    conn = "open" /\ pipeline # <<>> => \E i \in Requests : InService(i)

\* Back-pressure is never permanent: if reading is paused on an open
\* connection, a request in service will resume it by receive() or by
\* completing its response.
PausedHasResumer ==
    conn = "open" /\ readPaused => \E i \in Requests : InService(i)

\* An application that waits in receive() for request body never waits with
\* the transport paused, where the body could not arrive.
BodyCanArrive ==
    \A i \in Requests :
        recv[i] = "wait" /\ ~event[i] /\ readPaused /\ conn = "open"
            => gotEnd[i]

\* While a request can still be answered its message_event is set exactly when
\* there is body, or the end of it, that the application has not been given:
\* no lost wakeup, and no empty http.request after the last one.
EventMeansNews ==
    \A i \in Requests :
        ~complete[i] /\ ~disconnected[i]
            => (event[i] <=> (body[i] > 0 \/ (~moreBody[i] /\ ~gotEnd[i])))

\* An application that has ended without completing its response never leaves
\* the client waiting on an open connection (the branches of run_asgi).
NoSilentEnd ==
    \A i \in Requests : phase[i] = "done" => complete[i] \/ conn # "open"

\* Once shutdown() has been called the connection is closing, or a request
\* that will close it is still to be answered, whatever arrives meanwhile.
ShutdownPending ==
    shutdownCalled =>
        \/ conn # "open"
        \/ \E i \in Requests :
              /\ phase[i] \in {"queued", "app", "fail"}
              /\ ~complete[i] /\ ~keepAlive[i]

\* drain() never waits on a flow that is writable (resume_writing and
\* connection_lost wake every waiter), as long as this protocol is told.
DrainHasCause ==
    \A i \in Requests : snd[i] = "drain" => writePaused

\* The connection implements the pipelined service: requests are served one at
\* a time in order, at once when idle, and not after the close.
Service == INSTANCE PipelinedService WITH
    received <- cur,
    served   <- cur - Len(pipeline),
    answered <- total,
    begun    <- \E i \in Requests : started[i] /\ ~complete[i],
    open     <- conn = "open"

ServiceSpec == Service!Spec

-----------------------------------------------------------------------------
(* Fairness and liveness.                                                  *)

\* asyncio runs every callback and task that is ready; a started feed ends.
\* A closed transport is flushed or fails, so that connection_lost is called,
\* and a client that does not read is a failed transport in the end.
LoopFairness ==
    /\ WF_vars(FeedEnds)
    /\ SF_vars(ResumeWriting)
    /\ SF_vars(ConnectionLost)
    /\ \A i \in Requests :
          /\ SF_vars(ReceiveWakes(i))
          /\ SF_vars(/\ phase[i] = "fail" \/ snd[i] = "drained"
                     /\ Sends(i) \/ FailDropped(i))

\* The application starts and completes the response of every request it is
\* given (or ends, which AppRaises and AppReturns* turn into the same).
AppFairness ==
    \A i \in Requests :
        SF_vars(Sends(i) /\ <<started, complete>>' # <<started, complete>>)

FairSpec == Spec /\ LoopFairness
AnsweringSpec == FairSpec /\ AppFairness

\* When the connection is lost the latest request's receive() returns.
LatestHearsOfLoss ==
    \A i \in Requests :
        (conn = "lost" /\ i = cur /\ recv[i] = "wait") ~> recv[i] = "idle"

\* Every request handed to an application that answers, and every request
\* behind it in the pipeline, is answered, or the connection closes.
EveryRequestAnswered ==
    \A i \in Requests :
        phase[i] \in {"queued", "app", "fail"} ~> complete[i] \/ conn # "open"

\* A graceful shutdown closes the connection, even if requests keep arriving.
ShutdownCloses == shutdownCalled ~> conn = "lost"

\* Reading that was paused is resumed, or the connection closes.
ReadingResumes == readPaused ~> ~readPaused \/ conn # "open"

-----------------------------------------------------------------------------
(* What docs and tests say and the code does not do.                       *)

\* tests/protocols/test_http.py, test_early_disconnect: an application that
\* waits in receive() is told when the connection is lost.  connection_lost
\* tells only the latest cycle.
ReceiverHearsOfLoss ==
    \A i \in Requests :
        (conn = "lost" /\ recv[i] = "wait") ~> recv[i] = "idle"

\* docs/server-behavior.md, timeouts: the keep-alive timeout runs between
\* requests.  on_response_complete arms it and then starts the next request.
TimeoutOnlyBetweenRequests ==
    [][TimeoutKeepAliveHandler /\ conn = "open" => LatestComplete]_vars
=============================================================================
