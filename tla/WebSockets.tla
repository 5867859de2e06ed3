------------------------------- MODULE WebSockets -------------------------------
(***************************************************************************)
(* One connection of WebSocketProtocol (protocols/websockets/              *)
(* websockets_impl.py), a subclass of the websockets library's server      *)
(* protocol.  Three parties meet in its events: the library's handler      *)
(* task, which runs process_request, writes the answer to the handshake    *)
(* and then ws_handler; the application's task (run_asgi); and the         *)
(* callbacks of the transport and of Server.shutdown.                      *)
(*                                                                         *)
(* The library is an external part: its state, its inbox of messages, its  *)
(* closing handshake.  What is written after transport.close() is dropped  *)
(* by asyncio (the answer to a handshake finds the write buffer empty).    *)
(***************************************************************************)
EXTENDS WebSocketTransport

VARIABLES
    conn,               \* transport: "open"; "closing": is_closing(); "lost"
    asked,              \* shutdown(): "no", "yes" (ws_server.closing)
    inConnections,
    state,              \* library: "CONNECTING", "OPEN", "CLOSING", "CLOSED"
    handler,            \* library task: "request", "started" (waits for
                        \* handshake_started_event), "open" (ws_handler),
                        \* "abort" (waits for the transport to close), "done"
    answer,             \* on the wire: "none", "accepted", "refused"
    sent, inbox,        \* messages the client has sent; messages not yet popped
    handshakeStarted, handshakeCompleted, closed,   \* the three events
    denial,             \* self.initial_response is not None
    lostBeforeHandshake,
    connectSent,
    app,                \* run_asgi: "none", "run", "closing" (waits for
                        \* handshake_completed_event to close), "done"
    recv,               \* asgi_receive(): "idle", "handshake", "pop"
    snd,                \* asgi_send(): "idle", waiting for the handshake to
                        \* "send" or to "close", or in close(): "closing"
    given               \* the last event asgi_receive() returned

eventVars == <<handshakeStarted, handshakeCompleted, closed, denial,
               lostBeforeHandshake>>
taskVars == <<app, recv, snd>>
vars == <<conn, asked, inConnections, state, handler, answer, sent, inbox,
          eventVars, connectSent, taskVars, given>>

TypeOK ==
    /\ conn \in {"open", "closing", "lost"}
    /\ asked \in {"no", "yes"} /\ inConnections \in BOOLEAN
    /\ state \in {"CONNECTING", "OPEN", "CLOSING", "CLOSED"}
    /\ handler \in {"request", "started", "open", "abort", "done"}
    /\ answer \in {"none", "accepted", "refused"}
    /\ sent \in 0 .. MaxMessages /\ inbox \in 0 .. sent
    /\ handshakeStarted \in BOOLEAN /\ handshakeCompleted \in BOOLEAN
    /\ closed \in BOOLEAN /\ denial \in BOOLEAN
    /\ lostBeforeHandshake \in BOOLEAN /\ connectSent \in BOOLEAN
    /\ app \in {"none", "run", "closing", "done"}
    /\ recv \in {"idle", "handshake", "pop"}
    /\ snd \in {"idle", "send", "close", "closing"}
    /\ given \in {"none", "connect", "receive", "disconnect"}

\* connection_made has run: the library has started the handler task.
Init ==
    /\ conn = "open" /\ asked = "no" /\ inConnections = TRUE
    /\ state = "CONNECTING" /\ handler = "request" /\ answer = "none"
    /\ sent = 0 /\ inbox = 0
    /\ handshakeStarted = FALSE /\ handshakeCompleted = FALSE
    /\ closed = FALSE /\ denial = FALSE
    /\ lostBeforeHandshake = FALSE /\ connectSent = FALSE
    /\ app = "none" /\ recv = "idle" /\ snd = "idle" /\ given = "none"

-----------------------------------------------------------------------------
\* An answer reaches the wire while the transport is open.
Answer(how) == answer' = IF conn = "open" THEN how ELSE answer

\* send_500_response, which also releases the handler task.
Send500 == Answer("refused") /\ handshakeStarted' = TRUE

-----------------------------------------------------------------------------
(* The handler task.                                                       *)

\* process_request starts the application.
ProcessRequest ==
    /\ handler = "request"
    /\ handler' = "started"
    /\ app' = "run"
    /\ UNCHANGED <<conn, asked, inConnections, state, answer, sent, inbox,
                   eventVars, connectSent, recv, snd, given>>

\* check_request, or the library before it, refuses the request.
BadRequest ==
    /\ handler = "request"
    /\ handler' = "abort"
    /\ Answer("refused")
    /\ conn' = Closing(conn)
    /\ UNCHANGED <<asked, inConnections, state, sent, inbox, eventVars,
                   connectSent, taskVars, given>>

\* What process_request returns to the library: a response, or None to accept.
\* The library refuses by itself when the server is closing (is_serving).
\* (mutant: it does not look)
IgnoresClosing == denial
Refuses == denial \/ asked = "yes"

\* handshake_started_event is set: process_request returns and the library
\* answers; ws_handler sets handshake_completed_event in the same step.
HandshakeEnds ==
    /\ handler = "started" /\ handshakeStarted
    /\ \/ /\ state = "CLOSED"                    \* lost meanwhile
          /\ handler' = "done"
          /\ UNCHANGED <<conn, state, answer, handshakeCompleted>>
       \/ /\ state = "CONNECTING" /\ Refuses
          /\ handler' = "abort"
          /\ Answer("refused")
          /\ conn' = Closing(conn)
          /\ UNCHANGED <<state, handshakeCompleted>>
       \/ /\ state = "CONNECTING" /\ ~Refuses
          /\ handler' = "open"
          /\ Answer("accepted")
          /\ state' = "OPEN"
          /\ handshakeCompleted' = TRUE
          /\ UNCHANGED conn
    /\ UNCHANGED <<asked, inConnections, sent, inbox, handshakeStarted, closed,
                   denial, lostBeforeHandshake, connectSent, taskVars, given>>

HandlerEnds ==
    /\ handler \in {"open", "abort"} /\ conn = "lost"
    /\ handler' = "done"
    /\ UNCHANGED <<conn, asked, inConnections, state, answer, sent, inbox,
                   eventVars, connectSent, taskVars, given>>

-----------------------------------------------------------------------------
(* The client, the library's tasks, and the transport.                     *)

ClientSends ==
    /\ conn = "open" /\ state \in {"OPEN", "CLOSING"} /\ sent < MaxMessages
    /\ sent' = sent + 1
    /\ inbox' = inbox + 1
    /\ UNCHANGED <<conn, asked, inConnections, state, handler, answer,
                   eventVars, connectSent, taskVars, given>>

\* A close frame of the client, a protocol error or a timeout of the library.
LibraryCloses ==
    /\ conn = "open" /\ state \in {"OPEN", "CLOSING"}
    /\ state' = "CLOSING"
    /\ conn' = "closing"
    /\ UNCHANGED <<asked, inConnections, handler, answer, sent, inbox,
                   eventVars, connectSent, taskVars, given>>

\* The end of the client's stream, or a failure of the transport.
TransportEnds ==
    /\ conn = "open"
    /\ conn' = "closing"
    /\ UNCHANGED <<asked, inConnections, state, handler, answer, sent, inbox,
                   eventVars, connectSent, taskVars, given>>

\* (mutant: handshake_completed_event is not set)
LeaveHandshake   == UNCHANGED handshakeCompleted
ReleaseHandshake == handshakeCompleted' = TRUE
ConnectionLost ==
    /\ conn = "closing"
    /\ conn' = "lost"
    /\ inConnections' = FALSE
    /\ lostBeforeHandshake' = ~handshakeCompleted
    /\ ReleaseHandshake
    /\ state' = "CLOSED"
    /\ UNCHANGED <<asked, handler, answer, sent, inbox, handshakeStarted,
                   closed, denial, connectSent, taskVars, given>>

\* Server.shutdown calls this once on each of server_state.connections.
Shutdown ==
    /\ inConnections /\ asked = "no"
    /\ asked' = "yes"
    /\ IF handshakeCompleted
         THEN /\ state' = IF state = "OPEN" THEN "CLOSING" ELSE state
              /\ UNCHANGED <<answer, handshakeStarted>>
         ELSE Send500 /\ UNCHANGED state
    /\ conn' = Closing(conn)
    /\ UNCHANGED <<inConnections, handler, sent, inbox, handshakeCompleted,
                   closed, denial, lostBeforeHandshake, connectSent, taskVars,
                   given>>

-----------------------------------------------------------------------------
(* asgi_receive                                                            *)

Receive ==
    /\ app = "run" /\ recv = "idle"
    /\ IF ~connectSent
         THEN connectSent' = TRUE /\ given' = "connect" /\ UNCHANGED recv
         ELSE recv' = "handshake" /\ UNCHANGED <<connectSent, given>>
    /\ UNCHANGED <<conn, asked, inConnections, state, handler, answer, sent,
                   inbox, eventVars, app, snd>>

ReceiveAfterHandshake ==
    /\ recv = "handshake" /\ handshakeCompleted
    /\ IF lostBeforeHandshake \/ closed
         THEN recv' = "idle" /\ given' = "disconnect"
         ELSE recv' = "pop" /\ UNCHANGED given
    /\ UNCHANGED <<conn, asked, inConnections, state, handler, answer, sent,
                   inbox, eventVars, connectSent, app, snd>>

\* The library's recv(): a message, even after the close, or ConnectionClosed
\* once the connection is lost.  (mutant: it does not wait for a message)
PopsAnyway == inbox' = inbox - 1
Pops       == inbox > 0 /\ inbox' = inbox - 1
ReceivePops ==
    /\ recv = "pop"
    /\ \/ Pops /\ given' = "receive" /\ UNCHANGED closed
       \/ inbox = 0 /\ conn = "lost" /\ closed' = TRUE /\ given' = "disconnect"
          /\ UNCHANGED inbox
    /\ recv' = "idle"
    /\ UNCHANGED <<conn, asked, inConnections, state, handler, answer, sent,
                   handshakeStarted, handshakeCompleted, denial,
                   lostBeforeHandshake, connectSent, app, snd>>

-----------------------------------------------------------------------------
(* asgi_send.  A message that is not due raises and changes nothing.       *)

SendUnchanged == UNCHANGED <<conn, asked, inConnections, state, handler,
                             answer, sent, inbox, handshakeCompleted,
                             lostBeforeHandshake, connectSent, app, recv, given>>

\* The answer of the application: websocket.accept, websocket.close or
\* websocket.http.response.start.
SendAnswer(message) ==
    /\ app = "run" /\ snd = "idle" /\ ~handshakeStarted
    /\ handshakeStarted' = TRUE
    /\ denial' = (message # "accept")
    /\ closed' = (closed \/ message = "close")
    /\ SendUnchanged /\ UNCHANGED snd

\* websocket.send and websocket.close wait for the end of the handshake.
SendWaits(message) ==
    /\ app = "run" /\ snd = "idle" /\ handshakeStarted /\ ~closed /\ ~denial
    /\ snd' = message
    /\ SendUnchanged /\ UNCHANGED <<handshakeStarted, closed, denial>>

\* The library's send() writes, or raises ConnectionClosed.
SendReturns ==
    /\ snd = "send" /\ handshakeCompleted
    /\ snd' = "idle"
    /\ SendUnchanged /\ UNCHANGED <<handshakeStarted, closed, denial>>

\* The library's close() starts the closing handshake and waits for its end; it
\* raises when the opening handshake never succeeded.
SendCloses ==
    /\ snd = "close" /\ handshakeCompleted
    /\ snd' = IF lostBeforeHandshake THEN "idle" ELSE "closing"
    /\ state' = IF state = "OPEN" THEN "CLOSING" ELSE state
    /\ UNCHANGED <<conn, asked, inConnections, handler, answer, sent, inbox,
                   eventVars, connectSent, app, recv, given>>

CloseReturns ==
    /\ snd = "closing" /\ conn = "lost"
    /\ snd' = "idle"
    /\ closed' = TRUE
    /\ SendUnchanged /\ UNCHANGED <<handshakeStarted, denial>>

\* The last websocket.http.response.body.
SendResponseEnds ==
    /\ app = "run" /\ snd = "idle" /\ denial
    /\ closed' = TRUE
    /\ SendUnchanged /\ UNCHANGED <<handshakeStarted, denial, snd>>

-----------------------------------------------------------------------------
(* run_asgi: the application raises, returns None or another value.        *)

\* (mutant: a handshake the application did not start is left as it is)
LeaveUnstarted == UNCHANGED <<conn, answer, handshakeStarted>>
FailUnstarted  == Send500 /\ conn' = Closing(conn)
RunAsgiEnds(how) ==
    /\ app = "run"
    /\ closed' = TRUE
    /\ recv' = "idle" /\ snd' = "idle"
    /\ IF ~handshakeStarted
         THEN FailUnstarted /\ app' = "done"
         ELSE /\ app' = IF how = "none" THEN "done" ELSE "closing"
              /\ UNCHANGED <<conn, answer, handshakeStarted>>
    /\ UNCHANGED <<asked, inConnections, state, handler, sent, inbox,
                   handshakeCompleted, denial, lostBeforeHandshake,
                   connectSent, given>>

RunAsgiCloses ==
    /\ app = "closing" /\ handshakeCompleted
    /\ app' = "done"
    /\ conn' = Closing(conn)
    /\ UNCHANGED <<asked, inConnections, state, handler, answer, sent, inbox,
                   eventVars, connectSent, recv, snd, given>>

-----------------------------------------------------------------------------
Library == \/ ProcessRequest \/ BadRequest \/ HandshakeEnds \/ HandlerEnds
           \/ ClientSends \/ LibraryCloses

Callbacks == TransportEnds \/ ConnectionLost \/ Shutdown

Application == \/ Receive \/ ReceiveAfterHandshake \/ ReceivePops
               \/ \E message \in {"accept", "close", "response"} : SendAnswer(message)
               \/ \E message \in {"send", "close"} : SendWaits(message)
               \/ SendReturns \/ SendCloses \/ CloseReturns \/ SendResponseEnds
               \/ \E how \in {"raises", "none", "value"} : RunAsgiEnds(how)
               \/ RunAsgiCloses

Next == Library \/ Callbacks \/ Application

Spec == Init /\ [][Next]_vars

\* asyncio runs what is ready and closes what is closing; the application
\* keeps receiving.
Fairness ==
    /\ WF_vars(HandshakeEnds) /\ WF_vars(ConnectionLost)
    /\ WF_vars(Receive) /\ WF_vars(ReceiveAfterHandshake) /\ WF_vars(ReceivePops)
    /\ WF_vars(RunAsgiCloses)

-----------------------------------------------------------------------------
\* An application that has ended leaves no client without an answer on an open
\* connection: the handler task still has its answer to write, or it is there.
NoSilentEnd ==
    app = "done" /\ conn = "open" =>
        answer # "none" \/ (handler = "started" /\ handshakeStarted)

InUse == conn = "open"
=============================================================================
