----------------------------- MODULE MCWebSockets -----------------------------
(***************************************************************************)
(* A WebSocket connection as websockets/auto.py makes one: with the        *)
(* websockets library or with wsproto.  The variables both modules have    *)
(* are shared, the other module's own ones keep their initial values.      *)
(***************************************************************************)
EXTENDS WebSocketTransport

VARIABLES
    impl,       \* the protocol class: "websockets" or "wsproto"
    conn, asked, inConnections, state, answer, sent, app, snd, given,
    handler, inbox, handshakeStarted, handshakeCompleted, closed, denial,
    lostBeforeHandshake, connectSent, recv,
    failed, feeding, queue, handshakeComplete, closeSent, responseStarted,
    readPaused, writePaused

WS == INSTANCE WebSockets
WP == INSTANCE WsProto

onlyWS == <<handler, inbox, handshakeStarted, handshakeCompleted, closed, denial,
            lostBeforeHandshake, connectSent, recv>>
onlyWP == <<failed, feeding, queue, handshakeComplete, closeSent,
            responseStarted, readPaused, writePaused>>
vars   == <<impl, conn, asked, inConnections, state, answer, sent, app, snd,
            given, onlyWS, onlyWP>>

Init == impl \in {"websockets", "wsproto"} /\ WS!Init /\ WP!Init

WithWebSockets == impl = "websockets" /\ WS!Next /\ UNCHANGED <<impl, onlyWP>>
WithWsProto    == impl = "wsproto" /\ WP!Next /\ UNCHANGED <<impl, onlyWS>>

Spec == Init /\ [][WithWebSockets \/ WithWsProto]_vars

\* asyncio runs what is ready, and the application keeps receiving.
FairSpec == /\ Spec
            /\ impl = "websockets" => WS!Fairness
            /\ impl = "wsproto" => WP!Fairness

-----------------------------------------------------------------------------
\* The type of the state, as each module gives it.
TypeOK == IF impl = "websockets" THEN WS!TypeOK ELSE WP!TypeOK

\* Both protocol classes: when the application has ended, a client on an open
\* connection has its answer or will get it (run_asgi).
NoSilentEnd == IF impl = "websockets" THEN WS!NoSilentEnd ELSE WP!NoSilentEnd

\* WSProtocol: reading is never paused for ever (receive, handle_text).
PausedHasUnread == impl = "wsproto" => WP!PausedHasUnread

\* Both: a connection asked to shut down during its handshake is not opened any
\* more, whatever the application has sent or sends (shutdown, send).
NotOpenedAfterShutdown ==
    [][asked # "no" /\ state = "CONNECTING" => state' # "OPEN"]_vars

\* Both: an application that keeps receiving is told of the loss of its
\* connection, and a run_asgi that waits for the end of a handshake returns
\* (connection_lost, receive, handshake_completed_event).
LossIsHeard ==
    conn = "lost" /\ app \in {"run", "closing"} ~> given = "disconnect" \/ app = "done"

\* Both keep the promises of AsgiWebSocket.
Service == INSTANCE AsgiWebSocket WITH
    open <- IF impl = "websockets" THEN WS!InUse ELSE WP!InUse

ServiceSpec == Service!Spec
=============================================================================
