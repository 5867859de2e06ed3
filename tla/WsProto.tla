-------------------------------- MODULE WsProto --------------------------------
(***************************************************************************)
(* One WebSocket connection of WSProtocol (protocols/websockets/           *)
(* wsproto_impl.py): the handlers of wsproto's events, the queue between   *)
(* them and receive(), the back-pressure of that queue, the handshake and  *)
(* the denial response, shutdown() and the ASGI task.                      *)
(*                                                                         *)
(* The state of wsproto.WSConnection is an external part: an event it      *)
(* refuses to send raises LocalProtocolError and changes nothing.  What    *)
(* uvicorn sets before such a call stays set.  The client conforms to      *)
(* RFC 6455: it sends no frame before the handshake is answered and none   *)
(* after its close frame.                                                  *)
(***************************************************************************)
EXTENDS WebSocketTransport

VARIABLES
    conn,             \* transport: "open"; "closing": is_closing(); "lost"
    failed,           \* the transport failed: connection_lost gets an exception
    feeding,          \* data_received is running
    asked,            \* shutdown(): "no", "yes", or "raised" LocalProtocolError
    inConnections,
    state,            \* wsproto: the state of WSConnection
    answer,           \* to the handshake: "none", "accepted", "refused"
    sent,             \* messages the client has sent
    queue,            \* self.queue, next event first
    handshakeComplete, closeSent, responseStarted,
    readPaused,
    writePaused,      \* self.writable is clear
    app,              \* run_asgi: "none", "run", "done"
    snd,              \* send(): "drain": waits for writable; "drained": released
    given             \* the last event receive() returned

protoVars == <<handshakeComplete, closeSent, responseStarted>>
taskVars  == <<app, snd, given>>
vars == <<conn, failed, feeding, asked, inConnections, state, answer, sent,
          queue, protoVars, readPaused, writePaused, taskVars>>

Events == {"connect", "receive", "disconnect"}

TypeOK ==
    /\ conn \in {"open", "closing", "lost"}
    /\ failed \in BOOLEAN /\ feeding \in BOOLEAN
    /\ asked \in {"no", "yes", "raised"}
    /\ inConnections \in BOOLEAN
    /\ state \in {"CONNECTING", "OPEN", "REJECTING", "LOCAL_CLOSING", "CLOSED"}
    /\ answer \in {"none", "accepted", "refused"}
    /\ sent \in 0 .. MaxMessages
    /\ queue \in Seq(Events)
    /\ handshakeComplete \in BOOLEAN /\ closeSent \in BOOLEAN
    /\ responseStarted \in BOOLEAN
    /\ readPaused \in BOOLEAN /\ writePaused \in BOOLEAN
    /\ app \in {"none", "run", "done"}
    /\ snd \in {"idle", "drain", "drained"}
    /\ given \in Events \cup {"none"}

\* connection_made has run.
Init ==
    /\ conn = "open" /\ failed = FALSE /\ feeding = FALSE
    /\ asked = "no" /\ inConnections = TRUE
    /\ state = "CONNECTING" /\ answer = "none" /\ sent = 0
    /\ queue = <<>>
    /\ handshakeComplete = FALSE /\ closeSent = FALSE /\ responseStarted = FALSE
    /\ readPaused = FALSE /\ writePaused = FALSE
    /\ app = "none" /\ snd = "idle" /\ given = "none"

-----------------------------------------------------------------------------
Put(event) == queue' = Append(queue, event)

\* transport.write: pause_writing may be called at once.
Write == writePaused' \in IF conn # "lost" /\ ~failed THEN {writePaused, TRUE}
                                                      ELSE {writePaused}

\* The handshake is answered once: wsproto takes an answer while CONNECTING.
Answers(how, next) ==
    /\ state = "CONNECTING"
    /\ state' = next
    /\ answer' = how

-----------------------------------------------------------------------------
(* data_received and the handlers of wsproto's events.                     *)

DataReceived ==
    /\ ~feeding /\ conn = "open" /\ ~readPaused
    /\ app = "none" \/ state = "OPEN"
    /\ feeding' = TRUE
    /\ UNCHANGED <<conn, failed, asked, inConnections, state, answer, sent,
                   queue, protoVars, readPaused, writePaused, taskVars>>

FeedEnds ==
    /\ feeding
    /\ feeding' = FALSE
    /\ UNCHANGED <<conn, failed, asked, inConnections, state, answer, sent,
                   queue, protoVars, readPaused, writePaused, taskVars>>

HandleConnect ==
    /\ feeding /\ app = "none" /\ state = "CONNECTING"
    /\ feeding' = FALSE
    /\ Put("connect")
    /\ app' = "run"
    /\ UNCHANGED <<conn, failed, asked, inConnections, state, answer, sent,
                   protoVars, readPaused, writePaused, snd, given>>

\* RemoteProtocolError: not a WebSocket handshake.
BadHandshake ==
    /\ feeding /\ app = "none"
    /\ feeding' = FALSE
    /\ Answers("refused", "CLOSED")
    /\ Write
    /\ conn' = "closing"
    /\ UNCHANGED <<failed, asked, inConnections, sent, queue, protoVars,
                   readPaused, taskVars>>

\* handle_text and handle_bytes: the end of a message pauses reading.
HandleMessage ==
    /\ feeding /\ state = "OPEN" /\ sent < MaxMessages
    /\ sent' = sent + 1
    /\ Put("receive")
    /\ readPaused' = TRUE
    /\ UNCHANGED <<conn, failed, feeding, asked, inConnections, state, answer,
                   protoVars, writePaused, taskVars>>

HandlePing ==
    /\ feeding /\ state = "OPEN"
    /\ Write
    /\ UNCHANGED <<conn, failed, feeding, asked, inConnections, state, answer,
                   sent, queue, protoVars, readPaused, taskVars>>

\* A close frame, which is answered, or a frame that wsproto cannot parse,
\* which is not.  (mutant: the transport is not closed)
LeavesOpen  == UNCHANGED conn
ClosesAfter == conn' = "closing"
HandleClose ==
    /\ feeding /\ state = "OPEN"
    /\ feeding' = FALSE
    /\ \/ Write /\ state' = "CLOSED"
       \/ UNCHANGED <<state, writePaused>>
    /\ Put("disconnect")
    /\ ClosesAfter
    /\ UNCHANGED <<failed, asked, inConnections, answer, sent, protoVars,
                   readPaused, taskVars>>

-----------------------------------------------------------------------------
(* The other callbacks of the transport and of the server.                 *)

ResumeWriting ==
    /\ ~feeding /\ conn # "lost" /\ ~failed /\ writePaused
    /\ writePaused' = FALSE
    /\ snd' = IF snd = "drain" THEN "drained" ELSE snd
    /\ UNCHANGED <<conn, failed, feeding, asked, inConnections, state, answer,
                   sent, queue, protoVars, readPaused, app, given>>

\* eof_received returns None, and the transport closes.
EofReceived ==
    /\ ~feeding /\ conn = "open" /\ ~readPaused
    /\ conn' = "closing"
    /\ UNCHANGED <<failed, feeding, asked, inConnections, state, answer, sent,
                   queue, protoVars, readPaused, writePaused, taskVars>>

TransportFails ==
    /\ ~feeding /\ conn # "lost" /\ ~failed
    /\ conn' = "closing"
    /\ failed' = TRUE
    /\ UNCHANGED <<feeding, asked, inConnections, state, answer, sent, queue,
                   protoVars, readPaused, writePaused, taskVars>>

\* writable is left as it is: a buffer that was flushed has set it before, one
\* that was dropped has not.  (mutant: the application is not told)
LossUntold == UNCHANGED queue
LossTold   == Put("disconnect")
ConnectionLost ==
    /\ ~feeding /\ conn = "closing" /\ (failed \/ ~writePaused)
    /\ conn' = "lost"
    /\ LossTold
    /\ inConnections' = FALSE
    /\ handshakeComplete' = TRUE
    /\ UNCHANGED <<failed, feeding, asked, state, answer, sent, closeSent,
                   responseStarted, readPaused, writePaused, taskVars>>

\* send_500_response where it may still send one; only wsproto's state tells
\* whether one has been sent without the application.
May500 == ~responseStarted /\ ~handshakeComplete

Send500 == Answers("refused", "CLOSED") /\ Write

\* Server.shutdown calls this once on each of server_state.connections.
\* Where wsproto refuses the event the exception leaves shutdown() before it
\* closes the transport.
Shutdown ==
    /\ ~feeding /\ inConnections /\ asked = "no"
    /\ IF handshakeComplete
         THEN /\ Put("disconnect")
              /\ \/ /\ state = "OPEN"
                    /\ state' = "LOCAL_CLOSING" /\ Write
                    /\ asked' = "yes" /\ conn' = Closing(conn)
                 \/ /\ state # "OPEN"
                    /\ asked' = "raised"
                    /\ UNCHANGED <<state, writePaused, conn>>
              /\ UNCHANGED answer
         ELSE /\ \/ Send500 /\ asked' = "yes" /\ conn' = Closing(conn)
                 \/ /\ state # "CONNECTING"
                    /\ asked' = "raised"
                    /\ UNCHANGED <<state, answer, writePaused, conn>>
              /\ UNCHANGED queue
    /\ UNCHANGED <<failed, feeding, inConnections, sent, protoVars, readPaused,
                   taskVars>>

-----------------------------------------------------------------------------
(* The ASGI interface.                                                     *)

\* (mutant: only a queue with more in it resumes)
ResumesLate == Len(queue) > 1
Resumes     == Len(queue) = 1

Receive ==
    /\ ~feeding /\ app = "run" /\ queue # <<>>
    /\ given' = Head(queue)
    /\ queue' = Tail(queue)
    /\ readPaused' = (readPaused /\ ~Resumes)
    /\ UNCHANGED <<conn, failed, feeding, asked, inConnections, state, answer,
                   sent, protoVars, writePaused, app, snd>>

SendWaits ==
    /\ ~feeding /\ app = "run" /\ snd = "idle" /\ writePaused
    /\ snd' = "drain"
    /\ UNCHANGED <<conn, failed, feeding, asked, inConnections, state, answer,
                   sent, queue, protoVars, readPaused, writePaused, app, given>>

\* send() has passed writable.wait(); it returns in the same step.
CanSend ==
    /\ ~feeding /\ app = "run"
    /\ snd = "drained" \/ (snd = "idle" /\ ~writePaused)
    /\ snd' = "idle"
    /\ UNCHANGED <<failed, feeding, asked, inConnections, sent, readPaused,
                   app, given>>

\* Nothing is sent and nothing changes: a message that is not due, or an
\* event that wsproto refuses.
SendRaises ==
    /\ CanSend /\ snd = "drained"
    /\ UNCHANGED <<conn, state, answer, queue, protoVars, writePaused>>

\* websocket.accept.  wsproto refuses a subprotocol the client did not offer,
\* when handshake_complete is already set; valid tells.
SendAccept(valid) ==
    /\ CanSend /\ ~handshakeComplete /\ conn = "open"
    /\ handshakeComplete' = TRUE
    /\ IF valid THEN Answers("accepted", "OPEN") /\ Write
                ELSE UNCHANGED <<state, answer, writePaused>>
    /\ UNCHANGED <<conn, queue, closeSent, responseStarted>>

\* websocket.close before the handshake is complete: 403.
SendReject ==
    /\ CanSend /\ ~handshakeComplete
    /\ Put("disconnect")
    /\ handshakeComplete' = TRUE
    /\ closeSent' = TRUE
    /\ \/ Answers("refused", "CLOSED") /\ Write /\ conn' = Closing(conn)
       \/ state # "CONNECTING" /\ UNCHANGED <<conn, state, answer, writePaused>>
    /\ UNCHANGED responseStarted

\* websocket.http.response.start: valid tells whether h11 takes the headers.
SendResponseStart(valid) ==
    /\ CanSend /\ ~handshakeComplete
    /\ handshakeComplete' = TRUE
    /\ \/ valid /\ Answers("refused", "REJECTING") /\ Write /\ responseStarted' = TRUE
       \/ /\ ~valid \/ state # "CONNECTING"
          /\ UNCHANGED <<state, answer, writePaused, responseStarted>>
    /\ UNCHANGED <<conn, queue, closeSent>>

\* websocket.send
SendMessage ==
    /\ CanSend /\ handshakeComplete /\ ~closeSent /\ ~responseStarted
    /\ state = "OPEN"
    /\ IF conn = "open" THEN Write ELSE UNCHANGED writePaused
    /\ UNCHANGED <<conn, state, answer, queue, protoVars>>

\* websocket.close of an accepted connection.
SendClose ==
    /\ CanSend /\ handshakeComplete /\ ~closeSent /\ ~responseStarted
    /\ closeSent' = TRUE
    /\ Put("disconnect")
    /\ \/ /\ state = "OPEN"
          /\ state' = "LOCAL_CLOSING"
          /\ IF conn = "open" THEN Write ELSE UNCHANGED writePaused
          /\ conn' = Closing(conn)
       \/ state # "OPEN" /\ UNCHANGED <<conn, state, writePaused>>
    /\ UNCHANGED <<answer, handshakeComplete, responseStarted>>

\* websocket.http.response.body
SendResponseBody(more) ==
    /\ CanSend /\ responseStarted /\ state = "REJECTING"
    /\ Write
    /\ IF more THEN UNCHANGED <<conn, state, queue, closeSent>>
               ELSE /\ state' = "CLOSED" /\ closeSent' = TRUE
                    /\ Put("disconnect") /\ conn' = Closing(conn)
    /\ UNCHANGED <<answer, handshakeComplete, responseStarted>>

\* The end of run_asgi, with an exception, None or another value.  A second
\* 500 is refused by wsproto, which ends the task before transport.close().
RunAsgiEnds(how) ==
    /\ ~feeding /\ app = "run"
    /\ app' = "done" /\ snd' = "idle"
    /\ IF May500 /\ state = "CONNECTING" THEN Send500
                                         ELSE UNCHANGED <<state, answer, writePaused>>
    /\ conn' = IF \/ May500 /\ state = "CONNECTING"
                  \/ ~May500 /\ how # "none"
                 THEN Closing(conn) ELSE conn
    /\ UNCHANGED <<failed, feeding, asked, inConnections, sent, queue,
                   protoVars, readPaused, given>>

-----------------------------------------------------------------------------
Callbacks == \/ DataReceived \/ FeedEnds \/ HandleConnect \/ BadHandshake
             \/ HandleMessage \/ HandlePing \/ HandleClose
             \/ ResumeWriting \/ EofReceived \/ TransportFails
             \/ ConnectionLost \/ Shutdown

Application == \/ Receive \/ SendWaits \/ SendRaises
               \/ \E valid \in BOOLEAN : SendAccept(valid) \/ SendResponseStart(valid)
               \/ SendReject \/ SendMessage \/ SendClose
               \/ \E more \in BOOLEAN : SendResponseBody(more)
               \/ \E how \in {"raises", "none", "value"} : RunAsgiEnds(how)

Next == Callbacks \/ Application

Spec == Init /\ [][Next]_vars

\* The application keeps receiving.
Fairness == WF_vars(Receive)

-----------------------------------------------------------------------------
\* Back-pressure is never permanent for an application that keeps receiving:
\* while reading is paused there is an event for receive(), and the one that
\* empties the queue resumes reading.
PausedHasUnread == readPaused => queue # <<>>

\* A connection that closes tells its application: once the connection is lost
\* a disconnect has been given or waits in the queue, whatever was given before.
LossIsQueued ==
    conn = "lost" /\ app # "none" =>
        given = "disconnect" \/ \E k \in DOMAIN queue : queue[k] = "disconnect"

\* wsproto has refused the application's answer (a subprotocol not offered, an
\* invalid header) when handshake_complete was set: no answer will be sent.
AnswerRefused == handshakeComplete /\ state = "CONNECTING"

\* An application that has ended leaves no client without an answer on an open
\* connection, unless it caught the exception of its refused answer.
NoSilentEnd ==
    app = "done" /\ conn = "open" => answer # "none" \/ AnswerRefused

\* The connection counts as closed for the application when wsproto has refused
\* its answer or its close frame.
InUse == conn = "open" /\ ~AnswerRefused /\ asked # "raised"
=============================================================================
