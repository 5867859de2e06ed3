---------------------------------- MODULE H11 ----------------------------------
(***************************************************************************)
(* One connection of the pure-Python HTTP protocol: H11Protocol and its    *)
(* RequestResponseCycle objects (protocols/http/h11_impl.py), over an      *)
(* h11.Connection, whose two state machines are an external part.          *)
(*                                                                         *)
(* Unlike the httptools protocol it has no pipeline of its own: h11 keeps  *)
(* what follows a request in its buffer and says PAUSED until both sides   *)
(* are DONE.  handle_events is a run of steps during which nothing else    *)
(* happens (feeding), in data_received as well as at the end of a          *)
(* response.  Events that h11 refuses to send raise LocalProtocolError and *)
(* put it into ERROR for good.                                             *)
(*                                                                         *)
(* The application is arbitrary, as in HttpTools; in particular it may     *)
(* catch what send() raises and go on.                                     *)
(***************************************************************************)
EXTENDS Naturals

CONSTANTS MaxRequests,  \* bound: requests the client sends on the connection
          HighWater     \* HIGH_WATER_LIMIT, in chunks of request body

ASSUME MaxRequestsAssumption == MaxRequests \in Nat \ {0}
ASSUME HighWaterAssumption == HighWater \in Nat

Requests == 1 .. MaxRequests

VARIABLES
    conn,        \* transport: "open"; "closing": is_closing(); "lost"
    failed,      \* the transport failed: connection_lost gets an exception
    feeding,     \* handle_events is running
    ours, theirs,\* h11: our_state, their_state
    reusable,    \* h11: keep_alive of the current request/response cycle
    heads,       \* whole request heads h11 has buffered behind the current request
    asked,       \* shutdown(): "no", "yes", or "raised" LocalProtocolError
    inConnections, upgraded,
    timer,       \* the keep-alive timer is pending
    total,       \* this connection's share of server_state.total_requests
    cur,         \* the latest request parsed; its cycle is self.cycle
    readPaused, writePaused,
    cycle        \* the RequestResponseCycle of each request

h11Vars   == <<ours, theirs, reusable, heads>>
protoVars == <<asked, inConnections, upgraded, timer, total, cur>>
vars == <<conn, failed, feeding, h11Vars, protoVars, readPaused, writePaused,
          cycle>>

\* snd "drained": drain() has been released, the task has not run yet; phase
\* "fail": in send_500_response.
Cycles == [phase : {"none", "app", "fail", "done"},
           recv : {"idle", "wait"}, snd : {"idle", "drain", "drained"},
           started : BOOLEAN, complete : BOOLEAN, disconnected : BOOLEAN,
           keepAlive : BOOLEAN, waiting100 : BOOLEAN,
           event : BOOLEAN, body : 0 .. HighWater + 1, moreBody : BOOLEAN]

TypeOK ==
    /\ conn \in {"open", "closing", "lost"}
    /\ failed \in BOOLEAN /\ feeding \in BOOLEAN
    /\ ours \in {"IDLE", "SEND_RESPONSE", "SEND_BODY", "DONE", "MUST_CLOSE",
                 "CLOSED", "ERROR"}
    /\ theirs \in {"IDLE", "SEND_BODY", "DONE", "MUST_CLOSE", "ERROR"}
    /\ reusable \in BOOLEAN
    /\ heads \in 0 .. MaxRequests - cur
    /\ asked \in {"no", "yes", "raised"}
    /\ inConnections \in BOOLEAN /\ upgraded \in BOOLEAN /\ timer \in BOOLEAN
    /\ total \in 0 .. cur /\ cur \in 0 .. MaxRequests
    /\ readPaused \in BOOLEAN /\ writePaused \in BOOLEAN
    /\ cycle \in [Requests -> Cycles]

NewCycle == [phase |-> "none", recv |-> "idle", snd |-> "idle",
             started |-> FALSE, complete |-> FALSE, disconnected |-> FALSE,
             keepAlive |-> TRUE, waiting100 |-> FALSE,
             event |-> FALSE, body |-> 0, moreBody |-> TRUE]

\* connection_made has run.
Init ==
    /\ conn = "open" /\ failed = FALSE /\ feeding = FALSE
    /\ ours = "IDLE" /\ theirs = "IDLE" /\ reusable = TRUE /\ heads = 0
    /\ asked = "no" /\ inConnections = TRUE /\ upgraded = FALSE
    /\ timer = FALSE /\ total = 0 /\ cur = 0
    /\ readPaused = FALSE /\ writePaused = FALSE
    /\ cycle = [i \in Requests |-> NewCycle]

-----------------------------------------------------------------------------
(* h11.Connection.                                                         *)

\* The states of ours in which an event may be sent.
MaySend(event) ==
    ours \in CASE event = "Response"         -> {"IDLE", "SEND_RESPONSE"}
               [] event = "Informational"    -> {"SEND_RESPONSE"}
               [] event = "Data"             -> {"SEND_BODY"}
               [] event = "ConnectionClosed" -> {"IDLE", "DONE", "MUST_CLOSE", "CLOSED"}

\* The states become (their, our) with the state-triggered transitions that
\* follow.
Settle(their, our, keep) ==
    /\ reusable' = keep
    /\ theirs' = IF \/ their = "DONE" /\ (~keep \/ our \in {"CLOSED", "ERROR"})
                    \/ their = "IDLE" /\ our = "CLOSED"
                   THEN "MUST_CLOSE" ELSE their
    /\ ours' = IF our = "DONE" /\ (~keep \/ their = "ERROR")
                 THEN "MUST_CLOSE" ELSE our

Refuse == Settle(theirs, "ERROR", reusable)

\* start_next_cycle  (mutant: the call is missing)
NoNextCycle    == ours' = "DONE" /\ theirs' = "DONE" /\ UNCHANGED reusable
StartNextCycle == ours' = "IDLE" /\ theirs' = "IDLE" /\ UNCHANGED reusable

-----------------------------------------------------------------------------
\* The loop takes another callback or task: no handle_events is running, and
\* no task is between the two sends of send_500_response.
Free == ~feeding /\ \A i \in Requests :
                        ~(cycle[i].phase = "fail" /\ cycle[i].snd = "idle")

LatestComplete == cur = 0 \/ cycle[cur].complete

Closing(c) == IF c = "open" THEN "closing" ELSE c

\* transport.write: pause_writing may be called at once.
Write == writePaused' \in IF conn # "lost" /\ ~failed /\ ~upgraded
                            THEN {writePaused, TRUE} ELSE {writePaused}

Released == [i \in Requests |-> [cycle[i] EXCEPT !.snd = IF @ = "drain" THEN "drained" ELSE @]]

-----------------------------------------------------------------------------
(* data_received and handle_events.                                        *)

DataReceived ==
    /\ Free /\ conn = "open" /\ ~readPaused /\ ~upgraded
    /\ feeding' = TRUE
    /\ timer' = FALSE
    /\ UNCHANGED <<conn, failed, h11Vars, asked, inConnections, upgraded,
                   total, cur, readPaused, writePaused, cycle>>

NeedData ==
    /\ feeding /\ heads = 0
    /\ feeding' = FALSE
    /\ UNCHANGED <<conn, failed, h11Vars, protoVars, readPaused, writePaused,
                   cycle>>

\* PAUSED: h11 has data behind a request that is not answered yet, a whole
\* head or less; or the request asks for an upgrade.
Paused ==
    /\ feeding /\ theirs = "DONE"
    /\ feeding' = FALSE
    /\ readPaused' = TRUE
    /\ heads' \in {heads, heads + 1} \cap 0 .. MaxRequests - cur
    /\ UNCHANGED <<conn, failed, ours, theirs, reusable, protoVars,
                   writePaused, cycle>>

\* A request head has been read, from the buffer if one is there.
\* (mutant: it stays in the buffer)
PeekHead ==
    /\ feeding /\ theirs = "IDLE" /\ cur < MaxRequests
    /\ cur' = cur + 1
    /\ UNCHANGED heads
TakeHead ==
    /\ feeding /\ theirs = "IDLE" /\ cur < MaxRequests
    /\ cur' = cur + 1
    /\ heads' = IF heads > 0 THEN heads - 1 ELSE 0

\* "Connection: close" or HTTP/1.0 ends the reuse of the connection.
Request ==
    /\ TakeHead
    /\ \E keep, expect \in BOOLEAN :
          /\ Settle("SEND_BODY", "SEND_RESPONSE", keep)
          /\ cycle' = [cycle EXCEPT ![cur + 1].phase = "app",
                                    ![cur + 1].waiting100 = expect]
    /\ UNCHANGED <<conn, failed, feeding, asked, inConnections, upgraded,
                   timer, total, readPaused, writePaused>>

\* A WebSocket protocol takes the transport over; the keep-alive timer stays
\* as it is.
HandleWebsocketUpgrade ==
    /\ TakeHead
    /\ Settle("SEND_BODY", "SEND_RESPONSE", TRUE)
    /\ feeding' = FALSE
    /\ upgraded' = TRUE
    /\ inConnections' = FALSE
    /\ UNCHANGED <<conn, failed, asked, timer, total, readPaused, writePaused,
                   cycle>>

\* What follows a response sent early is dropped.
Data ==
    /\ feeding /\ theirs = "SEND_BODY"
    /\ IF ours = "DONE"
         THEN UNCHANGED <<cycle, readPaused>>
         ELSE /\ cycle[cur].body <= HighWater   \* bound: HighWater + 1 chunks
              /\ cycle' = [cycle EXCEPT ![cur].body = @ + 1, ![cur].event = TRUE]
              /\ readPaused' = (readPaused \/ cycle[cur].body = HighWater)
    /\ UNCHANGED <<conn, failed, feeding, h11Vars, protoVars, writePaused>>

EndOfMessage ==
    /\ feeding /\ theirs = "SEND_BODY"
    /\ IF ours = "DONE"
         THEN StartNextCycle /\ UNCHANGED cycle
         ELSE /\ Settle("DONE", ours, reusable)
              /\ cycle' = [cycle EXCEPT ![cur].moreBody = FALSE, ![cur].event = TRUE]
    /\ UNCHANGED <<conn, failed, feeding, heads, protoVars, readPaused,
                   writePaused>>

\* RemoteProtocolError, for bad data or data after the last request.  Where
\* h11 refuses the 400 the exception leaves data_received, and asyncio aborts
\* the transport.
InvalidRequest ==
    /\ feeding
    /\ \/ theirs = "IDLE" /\ heads = 0
       \/ theirs \in {"SEND_BODY", "MUST_CLOSE"}
    /\ feeding' = FALSE
    /\ conn' = "closing"
    /\ IF MaySend("Response")
         THEN Settle("ERROR", "DONE", FALSE) /\ Write /\ UNCHANGED failed
         ELSE Settle("ERROR", "ERROR", reusable) /\ failed' = TRUE /\ UNCHANGED writePaused
    /\ UNCHANGED <<heads, protoVars, readPaused, cycle>>

-----------------------------------------------------------------------------
(* The other callbacks of the transport and of the server.                 *)

ResumeWriting ==
    /\ Free /\ conn # "lost" /\ ~failed /\ ~upgraded /\ writePaused
    /\ writePaused' = FALSE
    /\ cycle' = Released
    /\ UNCHANGED <<conn, failed, feeding, h11Vars, protoVars, readPaused>>

\* eof_received returns None, and the transport closes.
EofReceived ==
    /\ Free /\ conn = "open" /\ ~readPaused
    /\ conn' = "closing"
    /\ UNCHANGED <<failed, feeding, h11Vars, protoVars, readPaused,
                   writePaused, cycle>>

TransportFails ==
    /\ Free /\ conn # "lost" /\ ~failed
    /\ conn' = "closing"
    /\ failed' = TRUE
    /\ UNCHANGED <<feeding, h11Vars, protoVars, readPaused, writePaused, cycle>>

\* A LocalProtocolError is caught.
ConnectionLost ==
    /\ Free /\ conn = "closing" /\ ~upgraded /\ (failed \/ ~writePaused)
    /\ conn' = "lost"
    /\ inConnections' = FALSE
    /\ Settle(theirs, IF MaySend("ConnectionClosed") THEN "CLOSED" ELSE "ERROR", reusable)
    /\ cycle' = [i \in Requests |->
                   [Released[i] EXCEPT
                      !.disconnected = @ \/ (i = cur /\ ~cycle[i].complete),
                      !.event = @ \/ i = cur]]
    /\ writePaused' = FALSE
    /\ timer' = (timer /\ failed)
    /\ UNCHANGED <<failed, feeding, heads, asked, upgraded, total, cur, readPaused>>

\* After an upgrade the WebSocket protocol hears of it instead.
ConnectionLostUpgraded ==
    /\ Free /\ conn = "closing" /\ upgraded
    /\ conn' = "lost"
    /\ UNCHANGED <<failed, feeding, h11Vars, protoVars, readPaused,
                   writePaused, cycle>>

\* Where h11 refuses ConnectionClosed the exception ends the callback, and the
\* connection stays open.
TimeoutKeepAliveHandler ==
    /\ Free /\ timer
    /\ timer' = FALSE
    /\ IF conn # "open" THEN UNCHANGED <<conn, ours, theirs, reusable>>
       ELSE IF MaySend("ConnectionClosed")
         THEN Settle(theirs, "CLOSED", reusable) /\ conn' = "closing"
         ELSE Refuse /\ UNCHANGED conn
    /\ UNCHANGED <<failed, feeding, heads, asked, inConnections, upgraded,
                   total, cur, readPaused, writePaused, cycle>>

\* Server.shutdown calls this once on each of server_state.connections.
Shutdown ==
    /\ Free /\ inConnections /\ asked = "no"
    /\ IF ~LatestComplete
         THEN /\ asked' = "yes"
              /\ cycle' = [cycle EXCEPT ![cur].keepAlive = FALSE]
              /\ UNCHANGED <<conn, ours, theirs, reusable>>
       ELSE IF MaySend("ConnectionClosed")
         THEN /\ asked' = "yes" /\ conn' = Closing(conn)
              /\ Settle(theirs, "CLOSED", reusable) /\ UNCHANGED cycle
         ELSE asked' = "raised" /\ Refuse /\ UNCHANGED <<conn, cycle>>
    /\ UNCHANGED <<failed, feeding, heads, inConnections, upgraded, timer,
                   total, cur, readPaused, writePaused>>

-----------------------------------------------------------------------------
(* RequestResponseCycle.receive                                            *)

\* What receive() does once it no longer waits: http.request takes the body.
TakeMessage(c) ==
    [c EXCEPT !.recv = "idle", !.event = FALSE,
              !.body = IF c.disconnected \/ c.complete THEN @ ELSE 0]

\* A call after disconnection or completion returns at once and changes
\* nothing; one for which h11 refuses the 100 raises and changes nothing.
Receive(i) ==
    /\ Free /\ cycle[i].phase = "app" /\ cycle[i].recv = "idle"
    /\ ~cycle[i].disconnected /\ ~cycle[i].complete
    /\ LET continue == cycle[i].waiting100 /\ conn = "open"
           c == [cycle[i] EXCEPT !.waiting100 = @ /\ ~continue] IN
       /\ continue => MaySend("Informational")
       /\ IF continue THEN Write ELSE UNCHANGED writePaused
       /\ cycle' = [cycle EXCEPT ![i] =
                      IF c.event THEN TakeMessage(c) ELSE [c EXCEPT !.recv = "wait"]]
    /\ readPaused' = FALSE
    /\ UNCHANGED <<conn, failed, feeding, h11Vars, protoVars>>

ReceiveWakes(i) ==
    /\ Free /\ cycle[i].recv = "wait" /\ cycle[i].event
    /\ cycle' = [cycle EXCEPT ![i] = TakeMessage(@)]
    /\ UNCHANGED <<conn, failed, feeding, h11Vars, protoVars, readPaused,
                   writePaused>>

-----------------------------------------------------------------------------
(* RequestResponseCycle.send, called by the application and, in phase      *)
(* "fail", by send_500_response.                                           *)

SendWaits(i) ==
    /\ cycle[i].snd = "idle" /\ writePaused /\ ~cycle[i].disconnected
    /\ cycle[i].phase = "fail" \/ (Free /\ cycle[i].phase = "app")
    /\ cycle' = [cycle EXCEPT ![i].snd = "drain"]
    /\ UNCHANGED <<conn, failed, feeding, h11Vars, protoVars, readPaused,
                   writePaused>>

\* send() has passed drain() and the check for disconnection.
CanSend(i) ==
    /\ ~cycle[i].disconnected
    /\ \/ Free /\ cycle[i].phase \in {"app", "fail"} /\ cycle[i].snd = "drained"
       \/ Free /\ cycle[i].phase = "app" /\ cycle[i].snd = "idle" /\ ~writePaused
       \/ cycle[i].phase = "fail" /\ cycle[i].snd = "idle" /\ ~writePaused

\* The client turns out to be gone, or the message is not the one due.
SendReturns(i) ==
    /\ Free /\ cycle[i].phase = "app" /\ cycle[i].snd = "drained"
    /\ cycle' = [cycle EXCEPT ![i].snd = "idle"]
    /\ UNCHANGED <<conn, failed, feeding, h11Vars, protoVars, readPaused,
                   writePaused>>

\* h11 refuses what send() gives it: nothing is written, and send() raises,
\* which ends send_500_response.
SendRaises(c) ==
    [c EXCEPT !.snd = "idle", !.phase = IF @ = "fail" THEN "done" ELSE @]

\* http.response.start.  An invalid header raises before h11 is asked.
SendStart(i, close, valid) ==
    /\ CanSend(i) /\ ~cycle[i].started
    /\ cycle[i].phase = "fail" => close /\ valid
    /\ LET c == [cycle[i] EXCEPT !.started = TRUE, !.waiting100 = FALSE] IN
       IF valid /\ MaySend("Response")
         THEN /\ Settle(theirs, "SEND_BODY", reusable /\ ~close)
              /\ Write
              /\ cycle' = [cycle EXCEPT ![i] = [c EXCEPT !.snd = "idle"]]
         ELSE /\ IF valid THEN Refuse ELSE UNCHANGED <<ours, theirs, reusable>>
              /\ UNCHANGED writePaused
              /\ cycle' = [cycle EXCEPT ![i] = SendRaises(c)]
    /\ UNCHANGED <<conn, failed, feeding, heads, protoVars, readPaused>>

\* http.response.body with more to come, fits: not more than the
\* content-length.
SendBody(i, fits) ==
    /\ CanSend(i) /\ cycle[i].started /\ ~cycle[i].complete
    /\ cycle[i].phase = "app"
    /\ IF fits /\ MaySend("Data")
         THEN Write /\ UNCHANGED <<ours, theirs, reusable>>
         ELSE Refuse /\ UNCHANGED writePaused
    /\ cycle' = [cycle EXCEPT ![i].snd = "idle"]
    /\ UNCHANGED <<conn, failed, feeding, heads, protoVars, readPaused>>

\* Whether on_response_complete goes on.  (mutant: without the test of is_closing)
AlwaysGoesOn(c) == c \in {"open", "closing", "lost"}
GoesOn(c) == c = "open"

\* on_response_complete, the transport being c and the states of h11 (their,
\* our); the next request is read in the same step if it is buffered.
OnResponseComplete(c, their, our) ==
    /\ total' = total + 1
    /\ IF ~GoesOn(c)
         THEN Settle(their, our, reusable) /\ UNCHANGED <<timer, readPaused, feeding>>
         ELSE /\ timer' = TRUE
              /\ readPaused' = FALSE
              /\ IF their = "DONE" /\ our = "DONE"
                   THEN StartNextCycle /\ feeding' = TRUE
                   ELSE Settle(their, our, reusable) /\ UNCHANGED feeding

\* Whether the connection is closed with the response of cycle k.
\* (mutant: only if h11 says so)
EndsByH11(k)      == ~reusable \/ theirs = "ERROR"
EndsConnection(k) == ~reusable \/ theirs = "ERROR" \/ ~k.keepAlive

\* The last http.response.body.  It is complete before h11 may find it
\* shorter than the content-length; on_response is then not called.
SendLast(i, whole) ==
    /\ CanSend(i) /\ cycle[i].started /\ ~cycle[i].complete
    /\ cycle[i].phase = "fail" => whole
    /\ UNCHANGED <<failed, heads, asked, inConnections, upgraded, cur>>
    /\ LET c == [SendRaises(cycle[i]) EXCEPT !.complete = TRUE, !.event = TRUE] IN
       \/ /\ MaySend("Data") /\ whole
          /\ Write
          /\ cycle' = [cycle EXCEPT ![i] = c]
          /\ IF EndsConnection(cycle[i])
               THEN /\ conn' = Closing(conn)
                    /\ OnResponseComplete(conn', theirs, "CLOSED")
               ELSE /\ UNCHANGED conn
                    /\ OnResponseComplete(conn, theirs, "DONE")
       \/ /\ MaySend("Data") /\ ~whole
          /\ Write /\ Refuse
          /\ cycle' = [cycle EXCEPT ![i] = c]
          /\ UNCHANGED <<conn, feeding, timer, total, readPaused>>
       \/ /\ ~MaySend("Data")
          /\ Refuse
          /\ cycle' = [cycle EXCEPT ![i] = SendRaises(@)]
          /\ UNCHANGED <<conn, feeding, timer, total, readPaused, writePaused>>

-----------------------------------------------------------------------------
(* RequestResponseCycle.run_asgi: how the application ends.                *)

RunAsgiEnds(i, ph, close) ==
    /\ cycle' = [cycle EXCEPT ![i].phase = ph, ![i].recv = "idle", ![i].snd = "idle"]
    /\ conn' = IF close THEN Closing(conn) ELSE conn
    /\ UNCHANGED <<failed, feeding, h11Vars, protoVars, readPaused, writePaused>>

\* An exception after the response has started closes the connection.
\* (mutant: only when the response is complete)
ClosesIfComplete(c) == c.complete
ClosesOnError(c) == c.started

AppRaises(i) ==
    /\ Free /\ cycle[i].phase = "app"
    /\ IF ~cycle[i].started THEN RunAsgiEnds(i, "fail", FALSE)
                            ELSE RunAsgiEnds(i, "done", ClosesOnError(cycle[i]))

AppReturnsValue(i) ==
    /\ Free /\ cycle[i].phase = "app"
    /\ RunAsgiEnds(i, "done", TRUE)

AppReturnsNone(i) ==
    /\ Free /\ cycle[i].phase = "app"
    /\ LET c == cycle[i] IN
       IF ~c.started /\ ~c.disconnected
         THEN RunAsgiEnds(i, "fail", FALSE)
         ELSE RunAsgiEnds(i, "done", ~c.complete /\ ~c.disconnected)

\* Both sends of send_500_response return at once: the client is gone.
FailDropped(i) ==
    /\ cycle[i].phase = "fail" /\ cycle[i].disconnected
    /\ cycle[i].snd = "idle" \/ (Free /\ cycle[i].snd = "drained")
    /\ RunAsgiEnds(i, "done", FALSE)

-----------------------------------------------------------------------------
HandleEvents == \/ DataReceived \/ NeedData \/ Paused \/ Request
                \/ HandleWebsocketUpgrade \/ Data \/ EndOfMessage
                \/ InvalidRequest

Callbacks == \/ ResumeWriting \/ EofReceived \/ TransportFails
             \/ ConnectionLost \/ ConnectionLostUpgraded
             \/ TimeoutKeepAliveHandler \/ Shutdown

Task(i) == \/ Receive(i) \/ ReceiveWakes(i)
           \/ SendWaits(i) \/ SendReturns(i)
           \/ \E close, valid \in BOOLEAN : SendStart(i, close, valid)
           \/ \E fits \in BOOLEAN : SendBody(i, fits) \/ SendLast(i, fits)
           \/ AppRaises(i) \/ AppReturnsValue(i) \/ AppReturnsNone(i)
           \/ FailDropped(i)

Next == HandleEvents \/ Callbacks \/ \E i \in Requests : Task(i)

Spec == Init /\ [][Next]_vars

-----------------------------------------------------------------------------
InService(c) == c.phase \in {"app", "fail"} /\ ~c.complete

\* The latest request is being answered.
Answering == cur > 0 /\ InService(cycle[cur])

\* h11 has refused something (a response shorter or longer than declared, a
\* keep-alive timeout during a response): nothing can be sent any more.
Refused == ours = "ERROR"

\* The two sides of h11 and the cycle turn over together.  Between callbacks
\* an open connection that h11 has not given up is ready for a request, or
\* reads the rest of one answered early with reading on, or answers one; it is
\* never left DONE on both sides, where h11 would say PAUSED for ever.
CycleTurns ==
    conn = "open" /\ ~feeding /\ ~upgraded /\ ~Refused =>
        \/ ours = "IDLE" /\ theirs = "IDLE" /\ heads = 0 /\ ~readPaused /\ LatestComplete
        \/ ours = "DONE" /\ theirs = "SEND_BODY" /\ ~readPaused /\ LatestComplete
        \/ ours \in {"SEND_RESPONSE", "SEND_BODY"} /\ Answering

\* An application that has ended never leaves its client waiting on an open
\* connection: its response was completed, or h11 has refused it.
NoSilentEnd ==
    \A i \in Requests :
        cycle[i].phase = "done" => i <= total \/ conn # "open" \/ Refused

\* shutdown() closes the connection, or leaves a request in service that will.
ShutdownPending ==
    asked = "yes" => conn # "open" \/ Refused \/ (Answering /\ ~cycle[cur].keepAlive)

\* The same service as with httptools: requests in order, one at a time, the
\* next one handed on in the step that completes a response.
Service == INSTANCE PipelinedService WITH
    received <- cur + heads,
    served   <- IF feeding /\ theirs = "IDLE" /\ heads > 0 THEN cur + 1 ELSE cur,
    answered <- total,
    begun    <- \E i \in Requests : cycle[i].started /\ ~(i <= total),
    open     <- conn = "open"

ServiceSpec == Service!Spec
=============================================================================
