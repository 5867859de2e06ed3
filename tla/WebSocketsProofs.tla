---------------------------- MODULE WebSocketsProofs ----------------------------
(***************************************************************************)
(* Safety of WebSocketProtocol, and that it implements AsgiWebSocket, for  *)
(* any number of messages.                                                 *)
(***************************************************************************)
EXTENDS WebSockets, TLAPS

-----------------------------------------------------------------------------
(* The inductive invariant.                                                *)

\* An open connection has either not been answered, and the handler task is on
\* its way to the answer, or has been accepted.
HandshakeInv ==
    /\ state = "CLOSED" => conn = "lost"
    /\ lostBeforeHandshake => conn = "lost"
    /\ handler = "request" => app = "none"
    /\ denial => handshakeStarted
    /\ conn = "open" =>
        \/ /\ handler \in {"request", "started"}
           /\ answer = "none" /\ state = "CONNECTING" /\ ~handshakeCompleted
        \/ /\ handler = "open" /\ ~denial /\ handshakeStarted
           /\ answer = "accepted" /\ state \in {"OPEN", "CLOSING"} /\ handshakeCompleted
    /\ app = "done" /\ conn = "open" => handshakeStarted

\* Which events receive() has returned, and that messages and disconnects are
\* only on their way when they are due.
ReceiveInv ==
    /\ app = "none" => ~connectSent /\ ~closed /\ snd = "idle"
    /\ app # "run" => recv = "idle"
    /\ recv # "idle" => connectSent
    /\ connectSent <=> given # "none"
    /\ recv = "pop" => given # "disconnect"
    /\ given = "disconnect" => closed \/ lostBeforeHandshake
    /\ closed /\ app = "run" => denial \/ conn = "lost"
    /\ inbox > 0 => answer = "accepted"

ConnInv == TypeOK /\ HandshakeInv /\ ReceiveInv

-----------------------------------------------------------------------------
(* The invariant is inductive.                                             *)

Modes ==
    /\ conn \in {"open", "closing", "lost"}
    /\ asked \in {"no", "yes"}
    /\ state \in {"CONNECTING", "OPEN", "CLOSING", "CLOSED"}
    /\ handler \in {"request", "started", "open", "abort", "done"}
    /\ answer \in {"none", "accepted", "refused"}
    /\ app \in {"none", "run", "closing", "done"}
    /\ recv \in {"idle", "handshake", "pop"}
    /\ snd \in {"idle", "send", "close", "closing"}
    /\ given \in {"none", "connect", "receive", "disconnect"}

Flags ==
    /\ inConnections \in BOOLEAN
    /\ handshakeStarted \in BOOLEAN /\ handshakeCompleted \in BOOLEAN
    /\ closed \in BOOLEAN /\ denial \in BOOLEAN
    /\ lostBeforeHandshake \in BOOLEAN /\ connectSent \in BOOLEAN

LEMMA ModesStep == Modes /\ [Next]_vars => Modes'
<1> SUFFICES ASSUME Modes, [Next]_vars PROVE Modes'
    OBVIOUS
<1> USE DEF Modes, taskVars, Closing, Answer
<1>1. CASE UNCHANGED vars
    BY <1>1 DEF vars
<1>2. CASE ProcessRequest \/ HandlerEnds
    BY <1>2 DEF ProcessRequest, HandlerEnds
<1>3. CASE BadRequest
    BY <1>3 DEF BadRequest
<1>4. CASE HandshakeEnds
    BY <1>4 DEF HandshakeEnds
<1>5. CASE ClientSends \/ LibraryCloses \/ TransportEnds
    BY <1>5 DEF ClientSends, LibraryCloses, TransportEnds
<1>6. CASE ConnectionLost
    BY <1>6 DEF ConnectionLost
<1>7. CASE Shutdown
    BY <1>7 DEF Shutdown, Send500
<1>8. CASE Receive
    BY <1>8 DEF Receive
<1>9. CASE ReceiveAfterHandshake
    BY <1>9 DEF ReceiveAfterHandshake
<1>10. CASE ReceivePops
    BY <1>10 DEF ReceivePops
<1>11. ASSUME NEW message \in {"accept", "close", "response"}, SendAnswer(message)
       PROVE  Modes'
    BY <1>11 DEF SendAnswer, SendUnchanged
<1>12. ASSUME NEW message \in {"send", "close"}, SendWaits(message)
       PROVE  Modes'
    BY <1>12 DEF SendWaits, SendUnchanged
<1>13. CASE SendReturns \/ CloseReturns \/ SendResponseEnds
    BY <1>13 DEF SendReturns, CloseReturns, SendResponseEnds, SendUnchanged
<1>14. CASE SendCloses
    BY <1>14 DEF SendCloses
<1>15. ASSUME NEW how \in {"raises", "none", "value"}, RunAsgiEnds(how)
       PROVE  Modes'
    BY <1>15 DEF RunAsgiEnds, FailUnstarted, Send500
<1>16. CASE RunAsgiCloses
    BY <1>16 DEF RunAsgiCloses
<1>17. QED
    BY <1>1, <1>2, <1>3, <1>4, <1>5, <1>6, <1>7, <1>8, <1>9, <1>10, <1>11, <1>12,
       <1>13, <1>14, <1>15, <1>16 DEF Next, Library, Callbacks, Application

LEMMA FlagsStep == Flags /\ [Next]_vars => Flags'
<1> SUFFICES ASSUME Flags, [Next]_vars PROVE Flags'
    OBVIOUS
<1>0. CASE UNCHANGED <<inConnections, eventVars, connectSent>>
    BY <1>0 DEF Flags, eventVars
<1>1. CASE \/ UNCHANGED vars
           \/ ProcessRequest \/ BadRequest \/ HandlerEnds \/ ClientSends \/ LibraryCloses
           \/ TransportEnds \/ ReceiveAfterHandshake \/ SendCloses \/ RunAsgiCloses
           \/ \E message \in {"send", "close"} : SendWaits(message)
           \/ SendReturns
    BY <1>0, <1>1 DEF vars, ProcessRequest, BadRequest, HandlerEnds, ClientSends,
       LibraryCloses, TransportEnds, ReceiveAfterHandshake, SendCloses,
       RunAsgiCloses, SendWaits, SendReturns, SendUnchanged, eventVars
<1>2. CASE HandshakeEnds
  <2>1. /\ UNCHANGED <<inConnections, handshakeStarted, closed, denial,
                       lostBeforeHandshake, connectSent>>
        /\ handshakeCompleted' = TRUE \/ UNCHANGED handshakeCompleted
      BY <1>2 DEF HandshakeEnds
  <2>2. QED
      BY <2>1 DEF Flags
<1>3. CASE ConnectionLost
  <2>1. PICK l \in BOOLEAN : l = ~handshakeCompleted
      OBVIOUS
  <2>2. /\ lostBeforeHandshake' = l /\ handshakeCompleted' = TRUE /\ inConnections' = FALSE
        /\ UNCHANGED <<handshakeStarted, closed, denial, connectSent>>
      BY <1>3, <2>1 DEF ConnectionLost, ReleaseHandshake
  <2>3. QED
      BY <2>2 DEF Flags
<1>4. CASE Shutdown \/ \E how \in {"raises", "none", "value"} : RunAsgiEnds(how)
  <2>1. /\ UNCHANGED <<inConnections, handshakeCompleted, denial, lostBeforeHandshake,
                       connectSent>>
        /\ handshakeStarted' = TRUE \/ UNCHANGED handshakeStarted
        /\ closed' = TRUE \/ UNCHANGED closed
      BY <1>4 DEF Shutdown, Send500, RunAsgiEnds, FailUnstarted
  <2>2. QED
      BY <2>1 DEF Flags
<1>5. CASE Receive
  <2>1. /\ UNCHANGED <<inConnections, eventVars>>
        /\ connectSent' = TRUE \/ UNCHANGED connectSent
      BY <1>5 DEF Receive
  <2>2. QED
      BY <2>1 DEF Flags, eventVars
<1>6. CASE ReceivePops \/ CloseReturns \/ SendResponseEnds
  <2>1. /\ UNCHANGED <<inConnections, handshakeStarted, handshakeCompleted, denial,
                       lostBeforeHandshake, connectSent>>
        /\ closed' = TRUE \/ UNCHANGED closed
      BY <1>6 DEF ReceivePops, CloseReturns, SendResponseEnds, SendUnchanged
  <2>2. QED
      BY <2>1 DEF Flags
<1>7. ASSUME NEW message \in {"accept", "close", "response"}, SendAnswer(message)
      PROVE  Flags'
  <2>1. PICK d \in BOOLEAN, c \in BOOLEAN :
            d = (message # "accept") /\ c = (closed \/ message = "close")
      OBVIOUS
  <2>2. /\ denial' = d /\ closed' = c /\ handshakeStarted' = TRUE
        /\ UNCHANGED <<inConnections, handshakeCompleted, lostBeforeHandshake, connectSent>>
      BY <1>7, <2>1 DEF SendAnswer, SendUnchanged
  <2>3. QED
      BY <2>2 DEF Flags
<1>8. QED
    BY <1>1, <1>2, <1>3, <1>4, <1>5, <1>6, <1>7
    DEF Next, Library, Callbacks, Application

LEMMA TypeStep == TypeOK /\ [Next]_vars => TypeOK'
<1> SUFFICES ASSUME TypeOK, [Next]_vars PROVE TypeOK'
    OBVIOUS
<1>1. Modes' /\ Flags'
    BY ModesStep, FlagsStep DEF TypeOK, Modes, Flags
<1>2. sent' \in 0 .. MaxMessages /\ inbox' \in 0 .. sent'
  <2>t. sent \in 0 .. MaxMessages /\ inbox \in 0 .. sent
      BY DEF TypeOK
  <2>1. CASE UNCHANGED <<sent, inbox>>
      BY <2>t, <2>1
  <2>2. CASE ClientSends
      BY <2>t, <2>2, MaxMessagesAssumption DEF ClientSends
  <2>3. CASE ReceivePops
      BY <2>t, <2>3, MaxMessagesAssumption DEF ReceivePops, Pops
  <2>4. CASE ~ClientSends /\ ~ReceivePops
      BY <2>1, <2>4 DEF Next, Library, Callbacks, Application, ProcessRequest,
         BadRequest, HandshakeEnds, HandlerEnds, LibraryCloses, TransportEnds,
         ConnectionLost, Shutdown, Receive, ReceiveAfterHandshake, SendAnswer,
         SendWaits, SendReturns, SendCloses, CloseReturns, SendResponseEnds,
         SendUnchanged, RunAsgiEnds, RunAsgiCloses, vars
  <2>5. QED
      BY <2>2, <2>3, <2>4
<1>3. QED
    BY <1>1, <1>2 DEF TypeOK, Modes, Flags

LEMMA HandshakeStep == ConnInv /\ [Next]_vars => HandshakeInv'
<1> SUFFICES ASSUME ConnInv, [Next]_vars PROVE HandshakeInv'
    OBVIOUS
<1> USE DEF ConnInv, TypeOK, HandshakeInv, eventVars, taskVars, Closing, Answer
<1>1. CASE UNCHANGED vars
    BY <1>1 DEF vars
<1>2. CASE ProcessRequest \/ HandlerEnds
    BY <1>2 DEF ProcessRequest, HandlerEnds
<1>b. CASE BadRequest
    BY <1>b DEF BadRequest
<1>3. CASE HandshakeEnds
    BY <1>3 DEF HandshakeEnds, Refuses
<1>4. CASE ClientSends \/ LibraryCloses \/ TransportEnds
    BY <1>4 DEF ClientSends, LibraryCloses, TransportEnds
<1>5. CASE ConnectionLost
    BY <1>5 DEF ConnectionLost, ReleaseHandshake
<1>6. CASE Shutdown
    BY <1>6 DEF Shutdown, Send500
<1>7. CASE Receive \/ ReceiveAfterHandshake \/ ReceivePops
    BY <1>7 DEF Receive, ReceiveAfterHandshake, ReceivePops
<1>8. ASSUME NEW message \in {"accept", "close", "response"}, SendAnswer(message)
      PROVE  HandshakeInv'
    BY <1>8 DEF SendAnswer, SendUnchanged
<1>9. ASSUME NEW message \in {"send", "close"}, SendWaits(message)
      PROVE  HandshakeInv'
    BY <1>9 DEF SendWaits, SendUnchanged
<1>10. CASE SendReturns \/ CloseReturns \/ SendResponseEnds
    BY <1>10 DEF SendReturns, CloseReturns, SendResponseEnds, SendUnchanged
<1>11. CASE SendCloses
    BY <1>11 DEF SendCloses
<1>12. ASSUME NEW how \in {"raises", "none", "value"}, RunAsgiEnds(how)
       PROVE  HandshakeInv'
    BY <1>12 DEF RunAsgiEnds, FailUnstarted, Send500
<1>13. CASE RunAsgiCloses
    BY <1>13 DEF RunAsgiCloses
<1>14. QED
    BY <1>1, <1>2, <1>b, <1>3, <1>4, <1>5, <1>6, <1>7, <1>8, <1>9, <1>10, <1>11, <1>12,
       <1>13 DEF Next, Library, Callbacks, Application

\* Once a request has been accepted the answer stays, and a connection that is
\* lost stays lost.
LEMMA AcceptedStays ==
    ASSUME ConnInv, [Next]_vars
    PROVE  /\ conn = "lost" => conn' = "lost"
           /\ answer = "accepted" => answer' = "accepted"
<1> USE DEF ConnInv, TypeOK, HandshakeInv, Closing, Answer
<1>1. CASE UNCHANGED vars
    BY <1>1 DEF vars
<1>2. CASE Library
    BY <1>2 DEF Library, ProcessRequest, BadRequest, HandlerEnds, HandshakeEnds,
       ClientSends, LibraryCloses
<1>3. CASE Callbacks
    BY <1>3 DEF Callbacks, TransportEnds, ConnectionLost, Shutdown, Send500
<1>4. ASSUME NEW how \in {"raises", "none", "value"}, RunAsgiEnds(how)
      PROVE  conn' \in {conn, Closing(conn)} /\ answer' \in {answer, "refused"}
             /\ (answer = "accepted" => answer' = answer)
    BY <1>4 DEF RunAsgiEnds, FailUnstarted, Send500
<1>5. CASE Application /\ ~ \E how \in {"raises", "none", "value"} : RunAsgiEnds(how)
  <2>1. conn' \in {conn, Closing(conn)} /\ answer' = answer
      BY <1>5 DEF Application, Receive, ReceiveAfterHandshake, ReceivePops, SendAnswer,
         SendWaits, SendReturns, SendCloses, CloseReturns, SendResponseEnds,
         SendUnchanged, RunAsgiCloses
  <2>2. QED
      BY <2>1
<1>6. QED
    BY <1>1, <1>2, <1>3, <1>4, <1>5 DEF Next, Application

LEMMA ReceiveStep == ConnInv /\ [Next]_vars => ReceiveInv'
<1> SUFFICES ASSUME ConnInv, [Next]_vars PROVE ReceiveInv'
    OBVIOUS
<1>m. /\ conn = "lost" => conn' = "lost"
      /\ answer = "accepted" => answer' = "accepted"
    BY AcceptedStays
<1>n. sent \in Nat /\ inbox \in Nat
    BY MaxMessagesAssumption DEF ConnInv, TypeOK
<1> USE <1>m, <1>n DEF ConnInv, TypeOK, HandshakeInv, ReceiveInv, eventVars, taskVars
<1>1. CASE UNCHANGED vars
    BY <1>1 DEF vars
<1>2. CASE ProcessRequest \/ HandlerEnds
    BY <1>2 DEF ProcessRequest, HandlerEnds
<1>b. CASE BadRequest
    BY <1>b DEF BadRequest
<1>3. CASE HandshakeEnds
    BY <1>3 DEF HandshakeEnds
<1>4. CASE ClientSends
    BY <1>4 DEF ClientSends
<1>5. CASE LibraryCloses \/ TransportEnds
    BY <1>5 DEF LibraryCloses, TransportEnds
<1>6. CASE ConnectionLost
    BY <1>6 DEF ConnectionLost
<1>7. CASE Shutdown
    BY <1>7 DEF Shutdown
<1>8. CASE Receive \/ ReceiveAfterHandshake
    BY <1>8 DEF Receive, ReceiveAfterHandshake
<1>9. CASE ReceivePops
    BY <1>9 DEF ReceivePops, Pops
<1>10. ASSUME NEW message \in {"accept", "close", "response"}, SendAnswer(message)
       PROVE  ReceiveInv'
    BY <1>10 DEF SendAnswer, SendUnchanged
<1>11. ASSUME NEW message \in {"send", "close"}, SendWaits(message)
       PROVE  ReceiveInv'
    BY <1>11 DEF SendWaits, SendUnchanged
<1>12. CASE SendReturns \/ CloseReturns \/ SendResponseEnds
    BY <1>12 DEF SendReturns, CloseReturns, SendResponseEnds, SendUnchanged
<1>13. CASE SendCloses
    BY <1>13 DEF SendCloses
<1>14. ASSUME NEW how \in {"raises", "none", "value"}, RunAsgiEnds(how)
       PROVE  ReceiveInv'
    BY <1>14 DEF RunAsgiEnds
<1>15. CASE RunAsgiCloses
    BY <1>15 DEF RunAsgiCloses
<1>16. QED
    BY <1>1, <1>2, <1>b, <1>3, <1>4, <1>5, <1>6, <1>7, <1>8, <1>9, <1>10, <1>11, <1>12,
       <1>13, <1>14, <1>15 DEF Next, Library, Callbacks, Application

LEMMA InitInv == Init => ConnInv
<1> SUFFICES ASSUME Init PROVE ConnInv
    OBVIOUS
<1>1. sent \in 0 .. MaxMessages /\ inbox \in 0 .. sent /\ ~(inbox > 0)
    BY MaxMessagesAssumption DEF Init
<1>2. QED
    BY <1>1 DEF Init, ConnInv, TypeOK, HandshakeInv, ReceiveInv

LEMMA InvStep == ConnInv /\ [Next]_vars => ConnInv'
BY TypeStep, HandshakeStep, ReceiveStep DEF ConnInv

LEMMA InvAlways == Spec => []ConnInv
<1>1. QED
    BY InitInv, InvStep, PTL DEF Spec

\* The state of a connection has the type the library and the protocol give it:
\* the inbox never holds more than has been sent.
THEOREM WebSocketsTypeCorrect == Spec => []TypeOK
<1>1. ConnInv => TypeOK
    BY DEF ConnInv
<1>2. QED
    BY <1>1, InvAlways, PTL

LEMMA EndsAnswered == ConnInv => NoSilentEnd
BY DEF ConnInv, HandshakeInv, NoSilentEnd

\* An application that has ended leaves no client of an open connection without
\* its answer: it is there, or the handler task has been released to write it.
THEOREM WebSocketsNoSilentEnd == Spec => []NoSilentEnd
<1>1. QED
    BY EndsAnswered, InvAlways, PTL

-----------------------------------------------------------------------------
(* Steps: shutdown() and the promises of AsgiWebSocket.                    *)

\* Only the end of the handshake opens a connection, and the library looks
\* whether the server is closing.
LEMMA NotOpened ==
    ASSUME TypeOK, [Next]_vars, asked # "no", state = "CONNECTING"
    PROVE  state' # "OPEN"
<1>1. asked = "yes"
    BY DEF TypeOK
<1>2. HandshakeEnds => state' # "OPEN"
    BY <1>1 DEF HandshakeEnds, Refuses
<1>3. QED
    BY <1>2 DEF Next, Library, Callbacks, Application, ProcessRequest, BadRequest,
       HandlerEnds, ClientSends, LibraryCloses, TransportEnds, ConnectionLost,
       Shutdown, Receive, ReceiveAfterHandshake, ReceivePops, SendAnswer, SendWaits,
       SendReturns, SendCloses, CloseReturns, SendResponseEnds, SendUnchanged,
       RunAsgiEnds, RunAsgiCloses, vars

Service == INSTANCE AsgiWebSocket WITH open <- InUse

\* Steps that give the application nothing and answer at most a handshake that
\* has no answer yet.
LEMMA RefineAnswer ==
    ASSUME ConnInv, [Next]_vars, UNCHANGED given,
           conn # "open" => UNCHANGED answer,
           \/ UNCHANGED answer
           \/ answer = "none" /\ answer' \in {"accepted", "refused"}
    PROVE  Service!Next \/ UNCHANGED Service!vars
<1>1. conn # "open" => conn' # "open"
    BY DEF Next, Library, Callbacks, Application, ProcessRequest, BadRequest,
       HandshakeEnds, HandlerEnds, ClientSends, LibraryCloses, TransportEnds,
       ConnectionLost, Shutdown, Receive, ReceiveAfterHandshake, ReceivePops,
       SendAnswer, SendWaits, SendReturns, SendCloses, CloseReturns,
       SendResponseEnds, SendUnchanged, RunAsgiEnds, FailUnstarted, RunAsgiCloses,
       Closing, vars
<1>2. CASE UNCHANGED answer /\ (conn = "open") = (conn' = "open")
    BY <1>2 DEF Service!vars, InUse
<1>3. CASE UNCHANGED answer /\ conn = "open" /\ conn' # "open"
    BY <1>3 DEF Service!Next, Service!Close, InUse
<1>4. CASE answer = "none" /\ answer' \in {"accepted", "refused"}
    BY <1>1, <1>4 DEF Service!Next, Service!Answer, InUse
<1>5. QED
    BY <1>1, <1>2, <1>3, <1>4

LEMMA RefineStep == ConnInv /\ [Next]_vars => [Service!Next]_Service!vars
<1> SUFFICES ASSUME ConnInv, [Next]_vars
             PROVE  Service!Next \/ UNCHANGED Service!vars
    OBVIOUS
<1> USE DEF ConnInv, TypeOK, HandshakeInv, ReceiveInv
<1>1. CASE \/ UNCHANGED vars \/ ProcessRequest \/ HandlerEnds \/ ClientSends
           \/ LibraryCloses \/ TransportEnds \/ ConnectionLost
  <2>1. UNCHANGED <<answer, given>>
      BY <1>1 DEF vars, ProcessRequest, HandlerEnds, ClientSends, LibraryCloses,
         TransportEnds, ConnectionLost
  <2>2. QED
      BY <2>1, RefineAnswer
<1>2. CASE BadRequest \/ HandshakeEnds
  <2>1. /\ handler \in {"request", "started"} /\ UNCHANGED given
        /\ UNCHANGED answer \/ \E how \in {"accepted", "refused"} : Answer(how)
      BY <1>2 DEF BadRequest, HandshakeEnds
  <2>2. conn = "open" => answer = "none"
      BY <2>1
  <2>3. QED
      BY <2>1, <2>2, RefineAnswer DEF Answer
<1>3. CASE Shutdown \/ \E how \in {"raises", "none", "value"} : RunAsgiEnds(how)
  <2>1. /\ UNCHANGED given
        /\ UNCHANGED answer \/ (Answer("refused") /\ ~(handshakeCompleted /\ handshakeStarted))
      BY <1>3 DEF Shutdown, RunAsgiEnds, FailUnstarted, Send500
  <2>2. CASE UNCHANGED answer
      BY <2>1, <2>2, RefineAnswer
  <2>3. CASE Answer("refused") /\ ~(handshakeCompleted /\ handshakeStarted)
    <3>1. conn = "open" => answer = "none"
        BY <2>3
    <3>2. QED
        BY <2>1, <2>3, <3>1, RefineAnswer DEF Answer
  <2>4. QED
      BY <2>1, <2>2, <2>3
<1>4. CASE Receive
  <2>1. CASE ~connectSent
      BY <1>4, <2>1 DEF Receive, Service!Next, Service!GiveConnect, InUse
  <2>2. CASE connectSent
    <3>1. UNCHANGED <<answer, given>>
        BY <1>4, <2>2 DEF Receive
    <3>2. QED
        BY <3>1, RefineAnswer
  <2>3. QED
      BY <2>1, <2>2
<1>5. CASE ReceiveAfterHandshake
  <2>1. CASE given' = given
    <3>1. UNCHANGED answer
        BY <1>5 DEF ReceiveAfterHandshake
    <3>2. QED
        BY <2>1, <3>1, RefineAnswer
  <2>2. CASE given' # given
    <3>1. /\ given' = "disconnect" /\ UNCHANGED <<answer, conn>>
          /\ lostBeforeHandshake \/ closed
          /\ app = "run" /\ handshakeCompleted /\ given # "none"
        BY <1>5, <2>2 DEF ReceiveAfterHandshake
    <3>2. conn # "open"
        BY <3>1
    <3>3. QED
        BY <3>1, <3>2 DEF Service!Next, Service!GiveDisconnect, InUse
  <2>3. QED
      BY <2>1, <2>2
<1>6. CASE ReceivePops
  <2>1. recv = "pop" /\ given \in {"connect", "receive"} /\ UNCHANGED <<answer, conn>>
      BY <1>6 DEF ReceivePops
  <2>2. CASE inbox > 0 /\ given' = "receive"
    <3>1. answer = "accepted"
        BY <2>2
    <3>2. QED
        BY <2>1, <2>2, <3>1 DEF Service!Next, Service!GiveMessage, InUse
  <2>3. CASE conn = "lost" /\ given' = "disconnect"
      BY <2>1, <2>3 DEF Service!Next, Service!GiveDisconnect, InUse
  <2>4. QED
      BY <1>6, <2>2, <2>3 DEF ReceivePops, Pops
<1>7. CASE \/ \E message \in {"accept", "close", "response"} : SendAnswer(message)
           \/ \E message \in {"send", "close"} : SendWaits(message)
           \/ SendReturns \/ SendCloses \/ CloseReturns \/ SendResponseEnds
           \/ RunAsgiCloses
  <2>1. UNCHANGED <<answer, given>>
      BY <1>7 DEF SendAnswer, SendWaits, SendReturns, SendCloses, CloseReturns,
         SendResponseEnds, SendUnchanged, RunAsgiCloses
  <2>2. QED
      BY <2>1, RefineAnswer
<1>8. QED
    BY <1>1, <1>2, <1>3, <1>4, <1>5, <1>6, <1>7 DEF Next, Library, Callbacks, Application

LEMMA RefineInit == Init => Service!Init
BY DEF Init, Service!Init, InUse

\* A connection of the websockets library keeps the promises of AsgiWebSocket:
\* one answer, and connect, messages and disconnect in that order and when due.
THEOREM WebSocketsServiceRefinement == Spec => Service!Spec
<1>1. QED
    BY RefineInit, RefineStep, InvAlways, PTL DEF Spec, Service!Spec
=============================================================================
