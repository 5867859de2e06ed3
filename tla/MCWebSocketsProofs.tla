--------------------------- MODULE MCWebSocketsProofs ---------------------------
(***************************************************************************)
(* What the runs of MCWebSockets check, for every MaxMessages: a WebSocket *)
(* connection keeps the promises of AsgiWebSocket whichever of the two     *)
(* protocol classes serves it.                                             *)
(*                                                                         *)
(* A step of the connection is a step of one class, so the inductive       *)
(* invariants and the step lemmas are those of WebSocketsProofs and        *)
(* WsProtoProofs, instantiated on the shared state.                        *)
(***************************************************************************)
EXTENDS MCWebSockets, TLAPS

WSP == INSTANCE WebSocketsProofs
WPP == INSTANCE WsProtoProofs

-----------------------------------------------------------------------------
(* The proof modules speak of the same definitions.                        *)

LEMMA SameWebSockets ==
    /\ WS!vars = WSP!vars
    /\ (WS!Init <=> WSP!Init) /\ (WS!Next <=> WSP!Next)
    /\ (WS!TypeOK <=> WSP!TypeOK) /\ (WS!NoSilentEnd <=> WSP!NoSilentEnd)
    /\ (WS!InUse <=> WSP!InUse)
    BY DEF WS!vars, WSP!vars, WS!eventVars, WSP!eventVars, WS!taskVars,
       WSP!taskVars, WS!Init, WSP!Init, WS!Next, WSP!Next, WS!Library,
       WSP!Library, WS!Callbacks, WSP!Callbacks, WS!Application,
       WSP!Application, WS!ProcessRequest, WSP!ProcessRequest, WS!BadRequest,
       WSP!BadRequest, WS!HandshakeEnds, WSP!HandshakeEnds, WS!Refuses,
       WSP!Refuses, WS!HandlerEnds, WSP!HandlerEnds, WS!ClientSends,
       WSP!ClientSends, WS!LibraryCloses, WSP!LibraryCloses, WS!TransportEnds,
       WSP!TransportEnds, WS!ConnectionLost, WSP!ConnectionLost,
       WS!ReleaseHandshake, WSP!ReleaseHandshake, WS!Shutdown, WSP!Shutdown,
       WS!Receive, WSP!Receive, WS!ReceiveAfterHandshake,
       WSP!ReceiveAfterHandshake, WS!ReceivePops, WSP!ReceivePops, WS!Pops,
       WSP!Pops, WS!SendAnswer, WSP!SendAnswer, WS!SendWaits, WSP!SendWaits,
       WS!SendReturns, WSP!SendReturns, WS!SendCloses, WSP!SendCloses,
       WS!CloseReturns, WSP!CloseReturns, WS!SendResponseEnds,
       WSP!SendResponseEnds, WS!SendUnchanged, WSP!SendUnchanged,
       WS!RunAsgiEnds, WSP!RunAsgiEnds, WS!FailUnstarted, WSP!FailUnstarted,
       WS!RunAsgiCloses, WSP!RunAsgiCloses, WS!Answer, WSP!Answer, WS!Send500,
       WSP!Send500, WS!Closing, WSP!Closing, WS!TypeOK, WSP!TypeOK,
       WS!NoSilentEnd, WSP!NoSilentEnd, WS!InUse, WSP!InUse

LEMMA SameWsProto ==
    /\ WP!vars = WPP!vars
    /\ (WP!Init <=> WPP!Init) /\ (WP!Next <=> WPP!Next)
    /\ (WP!TypeOK <=> WPP!TypeOK) /\ (WP!NoSilentEnd <=> WPP!NoSilentEnd)
    /\ (WP!PausedHasUnread <=> WPP!PausedHasUnread)
    /\ (WP!InUse <=> WPP!InUse)
    BY DEF WP!vars, WPP!vars, WP!protoVars, WPP!protoVars, WP!taskVars,
       WPP!taskVars, WP!Init, WPP!Init, WP!Next, WPP!Next, WP!Callbacks,
       WPP!Callbacks, WP!Application, WPP!Application, WP!DataReceived,
       WPP!DataReceived, WP!FeedEnds, WPP!FeedEnds, WP!HandleConnect,
       WPP!HandleConnect, WP!BadHandshake, WPP!BadHandshake, WP!HandleMessage,
       WPP!HandleMessage, WP!HandlePing, WPP!HandlePing, WP!HandleClose,
       WPP!HandleClose, WP!ClosesAfter, WPP!ClosesAfter, WP!ResumeWriting,
       WPP!ResumeWriting, WP!EofReceived, WPP!EofReceived, WP!TransportFails,
       WPP!TransportFails, WP!ConnectionLost, WPP!ConnectionLost, WP!LossTold,
       WPP!LossTold, WP!Shutdown, WPP!Shutdown, WP!Receive, WPP!Receive,
       WP!Resumes, WPP!Resumes, WP!SendWaits, WPP!SendWaits, WP!SendRaises,
       WPP!SendRaises, WP!SendAccept, WPP!SendAccept, WP!SendReject,
       WPP!SendReject, WP!SendResponseStart, WPP!SendResponseStart,
       WP!SendMessage, WPP!SendMessage, WP!SendClose, WPP!SendClose,
       WP!SendResponseBody, WPP!SendResponseBody, WP!CanSend, WPP!CanSend,
       WP!RunAsgiEnds, WPP!RunAsgiEnds, WP!May500, WPP!May500, WP!Send500,
       WPP!Send500, WP!Answers, WPP!Answers, WP!Put, WPP!Put, WP!Write,
       WPP!Write, WP!Closing, WPP!Closing, WP!TypeOK, WPP!TypeOK, WP!Events,
       WPP!Events, WP!NoSilentEnd, WPP!NoSilentEnd, WP!PausedHasUnread,
       WPP!PausedHasUnread, WP!InUse, WPP!InUse, WP!AnswerRefused,
       WPP!AnswerRefused

-----------------------------------------------------------------------------
(* The inductive invariant.                                                *)

ConnInv ==
    /\ impl \in {"websockets", "wsproto"}
    /\ impl = "websockets" => WSP!ConnInv
    /\ impl = "wsproto" => WPP!ServiceInv /\ WPP!NoSilentEnd

\* A step of the connection is one of its protocol class.
LEMMA OneClass ==
    ASSUME [WithWebSockets \/ WithWsProto]_vars
    PROVE  /\ impl' = impl
           /\ impl = "websockets" => [WSP!Next]_(WSP!vars)
           /\ impl = "wsproto" => [WPP!Next]_(WPP!vars)
<1>1. CASE WithWebSockets
    BY <1>1, SameWebSockets DEF WithWebSockets
<1>2. CASE WithWsProto
    BY <1>2, SameWsProto DEF WithWsProto
<1>3. CASE UNCHANGED vars
    BY <1>3 DEF vars, onlyWS, onlyWP, WSP!vars, WSP!eventVars, WSP!taskVars,
       WPP!vars, WPP!protoVars, WPP!taskVars
<1>4. QED
    BY <1>1, <1>2, <1>3

LEMMA InitInv == Init => ConnInv
<1> SUFFICES ASSUME Init PROVE ConnInv
    OBVIOUS
<1>1. WSP!Init /\ WPP!Init /\ impl \in {"websockets", "wsproto"}
    BY SameWebSockets, SameWsProto DEF Init
<1>2. WSP!ConnInv
    BY <1>1, MaxMessagesAssumption, WSP!InitInv
<1>3. WPP!ServiceInv
    BY <1>1, MaxMessagesAssumption, WPP!ServiceInit
<1>4. WPP!NoSilentEnd
    BY <1>1 DEF WPP!Init, WPP!NoSilentEnd
<1>5. QED
    BY <1>1, <1>2, <1>3, <1>4 DEF ConnInv

LEMMA InvStep == ConnInv /\ [WithWebSockets \/ WithWsProto]_vars => ConnInv'
<1> SUFFICES ASSUME ConnInv, [WithWebSockets \/ WithWsProto]_vars PROVE ConnInv'
    OBVIOUS
<1>1. impl' = impl /\ impl \in {"websockets", "wsproto"}
    BY OneClass DEF ConnInv
<1>2. CASE impl = "websockets"
  <2>1. WSP!ConnInv /\ [WSP!Next]_(WSP!vars)
      BY <1>2, OneClass DEF ConnInv
  <2>2. WSP!ConnInv'
      BY <2>1, MaxMessagesAssumption, WSP!InvStep
  <2>3. QED
      BY <1>1, <1>2, <2>2 DEF ConnInv
<1>3. CASE impl = "wsproto"
  <2>1. WPP!ServiceInv /\ WPP!NoSilentEnd /\ [WPP!Next]_(WPP!vars)
      BY <1>3, OneClass DEF ConnInv
  <2>2. WPP!ServiceInv'
      BY <2>1, MaxMessagesAssumption, WPP!ServiceStep
  <2>3. WPP!TypeOK /\ WPP!HandshakeInv
      BY <2>1 DEF WPP!ServiceInv, WPP!EventInv
  <2>4. WPP!NoSilentEnd'
      BY <2>1, <2>3, MaxMessagesAssumption, WPP!EndStep
  <2>5. QED
      BY <1>1, <1>3, <2>2, <2>4 DEF ConnInv
<1>4. QED
    BY <1>1, <1>2, <1>3

LEMMA InvAlways == Spec => []ConnInv
    BY InitInv, InvStep, PTL DEF Spec

-----------------------------------------------------------------------------
(* The properties of the runs.                                             *)

\* The state of either protocol class keeps its types.
THEOREM ConnectionTypeCorrect == Spec => []TypeOK
<1>1. ConnInv => TypeOK
    BY SameWebSockets, SameWsProto
    DEF ConnInv, TypeOK, WSP!ConnInv, WPP!ServiceInv, WPP!EventInv
<1>2. QED
    BY <1>1, InvAlways, PTL

\* With both protocol classes, an application that has ended leaves no client
\* on an open connection without an answer that is there or on its way.
THEOREM ConnectionNoSilentEnd == Spec => []NoSilentEnd
<1>1. ConnInv => NoSilentEnd
  <2>1. WSP!ConnInv => WSP!NoSilentEnd
      BY MaxMessagesAssumption, WSP!EndsAnswered
  <2>2. QED
      BY <2>1, SameWebSockets, SameWsProto DEF ConnInv, NoSilentEnd
<1>2. QED
    BY <1>1, InvAlways, PTL

\* WSProtocol pauses reading only while receive() has an event to give.
THEOREM ConnectionUnread == Spec => []PausedHasUnread
<1>1. ConnInv => PausedHasUnread
    BY SameWsProto DEF ConnInv, PausedHasUnread, WPP!ServiceInv, WPP!EventInv
<1>2. QED
    BY <1>1, InvAlways, PTL

\* With both protocol classes, shutdown() during the handshake keeps the
\* connection from being opened, whatever the application answers.
THEOREM ShutdownKeepsShut == Spec => NotOpenedAfterShutdown
<1>1. ConnInv /\ [WithWebSockets \/ WithWsProto]_vars =>
          [asked # "no" /\ state = "CONNECTING" => state' # "OPEN"]_vars
  <2> SUFFICES ASSUME ConnInv, [WithWebSockets \/ WithWsProto]_vars,
                      asked # "no", state = "CONNECTING"
               PROVE  state' # "OPEN"
      OBVIOUS
  <2>1. CASE impl = "websockets"
    <3>1. WSP!TypeOK /\ [WSP!Next]_(WSP!vars)
        BY <2>1, OneClass DEF ConnInv, WSP!ConnInv
    <3>2. QED
        BY <3>1, MaxMessagesAssumption, WSP!NotOpened
  <2>2. CASE impl = "wsproto"
    <3>1. WPP!TypeOK /\ WPP!HandshakeInv /\ [WPP!Next]_(WPP!vars)
        BY <2>2, OneClass DEF ConnInv, WPP!ServiceInv, WPP!EventInv
    <3>2. QED
        BY <3>1, MaxMessagesAssumption, WPP!NotOpened
  <2>3. QED
      BY <2>1, <2>2 DEF ConnInv
<1>2. QED
    BY <1>1, InvAlways, PTL DEF Spec, NotOpenedAfterShutdown

\* A WebSocket connection keeps the promises of AsgiWebSocket with either
\* protocol class: the handshake is answered once, and the application is given
\* connect, then messages of an accepted connection, then only disconnect, and
\* that never while the connection is in use.
THEOREM ConnectionServiceRefinement == Spec => ServiceSpec
<1>1. Init => Service!Init
  <2> SUFFICES ASSUME Init PROVE Service!Init
      OBVIOUS
  <2>1. WSP!Init /\ WPP!Init
      BY SameWebSockets, SameWsProto DEF Init
  <2>2. QED
      BY <2>1, SameWebSockets, SameWsProto
      DEF Service!Init, WSP!Init, WSP!InUse, WPP!Init, WPP!InUse, WPP!AnswerRefused
<1>2. ConnInv /\ [WithWebSockets \/ WithWsProto]_vars => [Service!Next]_(Service!vars)
  <2> SUFFICES ASSUME ConnInv, [WithWebSockets \/ WithWsProto]_vars
               PROVE  [Service!Next]_(Service!vars)
      OBVIOUS
  <2>a. impl' = impl
      BY OneClass
  <2> USE DEF Service!Next, Service!vars, Service!Answer, Service!GiveConnect,
          Service!GiveMessage, Service!GiveDisconnect, Service!Close
  <2>1. CASE impl = "websockets"
    <3>1. WSP!ConnInv /\ [WSP!Next]_(WSP!vars)
        BY <2>1, OneClass DEF ConnInv
    <3>2. [WSP!Service!Next]_(WSP!Service!vars)
        BY <3>1, MaxMessagesAssumption, WSP!RefineStep
    <3>3. QED
        BY <2>a, <2>1, <3>2
        DEF WS!InUse, WSP!InUse, WSP!Service!Next, WSP!Service!vars, WSP!Service!Answer,
            WSP!Service!GiveConnect, WSP!Service!GiveMessage,
            WSP!Service!GiveDisconnect, WSP!Service!Close
  <2>2. CASE impl = "wsproto"
    <3>1. WPP!ServiceInv /\ [WPP!Next]_(WPP!vars)
        BY <2>2, OneClass DEF ConnInv
    <3>2. [WPP!Service!Next]_(WPP!Service!vars)
        BY <3>1, MaxMessagesAssumption, WPP!RefineStep
    <3>3. QED
        BY <2>a, <2>2, <3>2
        DEF WP!InUse, WP!AnswerRefused, WPP!InUse, WPP!AnswerRefused, WPP!Service!Next, WPP!Service!vars, WPP!Service!Answer,
            WPP!Service!GiveConnect, WPP!Service!GiveMessage,
            WPP!Service!GiveDisconnect, WPP!Service!Close
  <2>3. QED
      BY <2>1, <2>2 DEF ConnInv
<1>3. QED
    BY <1>1, <1>2, InvAlways, PTL DEF Spec, ServiceSpec, Service!Spec
=============================================================================
