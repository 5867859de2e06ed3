------------------------------ MODULE WsProtoProofs ------------------------------
(***************************************************************************)
(* Safety of WSProtocol's event queue for any number of messages.          *)
(***************************************************************************)
EXTENDS WsProto, SequenceTheorems, TLAPS

-----------------------------------------------------------------------------
(* The queue.                                                              *)

LEMMA QueueAppend ==
    ASSUME queue \in Seq(Events), NEW e \in Events, Put(e)
    PROVE  /\ queue' \in Seq(Events)
           /\ Len(queue') \in Nat \ {0}
           /\ queue' # <<>>
           /\ queue'[Len(queue')] = e
<1>1. /\ Append(queue, e) \in Seq(Events)
      /\ Len(Append(queue, e)) = Len(queue) + 1
      /\ Append(queue, e)[Len(queue) + 1] = e
      /\ Len(queue) \in Nat
    BY AppendProperties, LenProperties
<1>2. QED
    BY <1>1, EmptySeq DEF Put

LEMMA QueueTake ==
    ASSUME queue \in Seq(Events), queue # <<>>, queue' = Tail(queue)
    PROVE  /\ queue' \in Seq(Events)
           /\ Head(queue) \in Events
           /\ Len(queue) \in Nat \ {0}
           /\ Len(queue') = Len(queue) - 1
           /\ queue' # <<>> => queue'[Len(queue')] = queue[Len(queue)]
           /\ queue' = <<>> => Len(queue) = 1 /\ Head(queue) = queue[Len(queue)]
<1>1. /\ Head(queue) = queue[1]
      /\ Len(queue) \in Nat \ {0}
    BY EmptySeq, LenProperties
<1>2. /\ Head(queue) \in Events
      /\ Tail(queue) \in Seq(Events)
      /\ Len(Tail(queue)) = Len(queue) - 1
      /\ \A k \in 1 .. Len(Tail(queue)) : Tail(queue)[k] = queue[k + 1]
    BY <1>1, HeadTailProperties, EmptySeq
<1>3. queue' # <<>> => Len(queue') \in 1 .. Len(queue')
    BY <1>1, <1>2, EmptySeq
<1>4. queue' = <<>> => Len(queue) = 1
  <2>1. queue' = <<>> => Len(queue') = 0
      BY EmptySeq
  <2>2. Len(queue') = Len(queue) - 1
      BY <1>2
  <2>3. QED
      BY <1>1, <2>1, <2>2
<1>5. QED
    BY <1>1, <1>2, <1>3, <1>4

-----------------------------------------------------------------------------
(* Types.                                                                  *)

LEMMA InitTyped == Init => TypeOK
<1> SUFFICES ASSUME Init PROVE TypeOK
    OBVIOUS
<1>1. queue \in Seq(Events)
    BY EmptySeq DEF Init
<1>2. sent \in 0 .. MaxMessages
    BY MaxMessagesAssumption DEF Init
<1>3. QED
    BY <1>1, <1>2 DEF Init, TypeOK, Events

LEMMA WriteTyped ==
    ASSUME TypeOK, Write
    PROVE  writePaused' \in BOOLEAN
BY DEF TypeOK, Write

LEMMA ClosingTyped ==
    ASSUME TypeOK
    PROVE  Closing(conn) \in {"open", "closing", "lost"}
BY DEF TypeOK, Closing

LEMMA PutTyped ==
    ASSUME TypeOK, NEW e \in {"connect", "receive", "disconnect"}, Put(e)
    PROVE  queue' \in Seq(Events)
BY QueueAppend DEF TypeOK, Events

LEMMA TypeStep == TypeOK /\ [Next]_vars => TypeOK'
<1> SUFFICES ASSUME TypeOK, [Next]_vars PROVE TypeOK'
    OBVIOUS
<1>1. CASE UNCHANGED vars
    BY <1>1 DEF TypeOK, vars, protoVars, taskVars
<1>2. CASE DataReceived
    BY <1>2 DEF TypeOK, DataReceived, protoVars, taskVars
<1>3. CASE FeedEnds
  <2>1. feeding' \in BOOLEAN
      BY <1>3 DEF TypeOK, FeedEnds
  <2>2. QED
      BY <1>3, <2>1 DEF TypeOK, FeedEnds, protoVars, taskVars
<1>4. CASE HandleConnect
  <2>1. feeding' \in BOOLEAN /\ app' \in {"none", "run", "done"}
        /\ queue' \in Seq(Events)
      BY <1>4, PutTyped DEF TypeOK, HandleConnect
  <2>2. QED
      BY <1>4, <2>1 DEF TypeOK, HandleConnect, protoVars, taskVars
<1>5. CASE BadHandshake
    BY <1>5, WriteTyped DEF TypeOK, BadHandshake, protoVars, taskVars, Answers
<1>6. CASE HandleMessage
    BY <1>6, PutTyped, MaxMessagesAssumption
    DEF TypeOK, HandleMessage, protoVars, taskVars
<1>7. CASE HandlePing
    BY <1>7, WriteTyped DEF TypeOK, HandlePing, protoVars, taskVars
<1>8. CASE HandleClose
  <2>1. /\ feeding' \in BOOLEAN /\ queue' \in Seq(Events)
        /\ state' \in {"OPEN", "CLOSED"} /\ writePaused' \in BOOLEAN
        /\ conn' \in {"open", "closing", "lost"}
      BY <1>8, PutTyped, WriteTyped DEF TypeOK, HandleClose, ClosesAfter
  <2>2. QED
      BY <1>8, <2>1 DEF TypeOK, HandleClose, protoVars, taskVars
<1>9. CASE ResumeWriting
  <2>1. /\ writePaused' \in BOOLEAN
        /\ snd' \in {"idle", "drain", "drained"}
      BY <1>9 DEF TypeOK, ResumeWriting
  <2>2. QED
      BY <1>9, <2>1 DEF TypeOK, ResumeWriting, protoVars, taskVars
<1>10. CASE EofReceived
    BY <1>10 DEF TypeOK, EofReceived, protoVars, taskVars
<1>11. CASE TransportFails
    BY <1>11 DEF TypeOK, TransportFails, protoVars, taskVars
<1>12. CASE ConnectionLost
  <2>1. /\ queue' \in Seq(Events) /\ inConnections' \in BOOLEAN
        /\ handshakeComplete' \in BOOLEAN
        /\ conn' \in {"open", "closing", "lost"}
      BY <1>12, PutTyped DEF TypeOK, ConnectionLost, LossTold
  <2>2. QED
      BY <1>12, <2>1 DEF TypeOK, ConnectionLost, protoVars, taskVars
<1>13. CASE Shutdown
    BY <1>13, PutTyped, WriteTyped, ClosingTyped DEF TypeOK, Shutdown, protoVars, taskVars, Send500, Answers
<1>14. CASE Receive
    BY <1>14, QueueTake DEF TypeOK, Receive, protoVars, taskVars, Resumes
<1>15. CASE SendWaits
    BY <1>15 DEF TypeOK, SendWaits, protoVars, taskVars
<1>16. CASE SendRaises
    BY <1>16 DEF TypeOK, SendRaises, protoVars, taskVars, CanSend
<1>17. ASSUME NEW valid \in BOOLEAN, SendAccept(valid) PROVE TypeOK'
    BY <1>17, WriteTyped DEF TypeOK, SendAccept, protoVars, taskVars, CanSend, Answers
<1>18. CASE SendReject
    BY <1>18, PutTyped, WriteTyped, ClosingTyped DEF TypeOK, SendReject, protoVars, taskVars, CanSend, Answers
<1>19. ASSUME NEW valid \in BOOLEAN, SendResponseStart(valid) PROVE TypeOK'
    BY <1>19, WriteTyped DEF TypeOK, SendResponseStart, protoVars, taskVars, CanSend, Answers
<1>20. CASE SendMessage
    BY <1>20, WriteTyped DEF TypeOK, SendMessage, protoVars, taskVars, CanSend
<1>21. CASE SendClose
    BY <1>21, PutTyped, WriteTyped, ClosingTyped DEF TypeOK, SendClose, protoVars, taskVars, CanSend
<1>22. ASSUME NEW more \in BOOLEAN, SendResponseBody(more) PROVE TypeOK'
    BY <1>22, PutTyped, WriteTyped, ClosingTyped DEF TypeOK, SendResponseBody, protoVars, taskVars, CanSend
<1>23. ASSUME NEW how \in {"raises", "none", "value"}, RunAsgiEnds(how) PROVE TypeOK'
    BY <1>23, WriteTyped, ClosingTyped DEF TypeOK, RunAsgiEnds, protoVars, taskVars, Send500, Answers, May500
<1>24. QED
    BY <1>1, <1>2, <1>3, <1>4, <1>5, <1>6, <1>7, <1>8, <1>9, <1>10, <1>11, <1>12, <1>13, <1>14, <1>15, <1>16, <1>17, <1>18, <1>19, <1>20, <1>21, <1>22, <1>23
    DEF Next, Callbacks, Application

-----------------------------------------------------------------------------
(* The inductive invariant: data_received does not run on a lost           *)
(* connection, and the last event it leaves is a disconnect.               *)

LostInv ==
    conn = "lost" =>
        /\ ~feeding
        /\ IF queue = <<>> THEN given = "disconnect"
                           ELSE queue[Len(queue)] = "disconnect"

EventInv == TypeOK /\ PausedHasUnread /\ LostInv

\* Steps that leave the queue alone and do not lose the connection.
LEMMA QuietStep ==
    ASSUME EventInv,
           UNCHANGED <<queue, given, readPaused>>,
           conn' = "lost" => conn = "lost",
           feeding' => feeding \/ conn = "open",
           conn = "lost" => conn' = "lost"
    PROVE  PausedHasUnread' /\ LostInv'
BY DEF EventInv, PausedHasUnread, LostInv

\* Steps that put an event; data_received puts only on a connection in use.
LEMMA PutStep ==
    ASSUME EventInv, NEW e \in Events, Put(e),
           conn' = "lost" => ~feeding' /\ e = "disconnect"
    PROVE  PausedHasUnread' /\ LostInv'
<1>1. queue' # <<>> /\ queue'[Len(queue')] = e
    BY QueueAppend DEF EventInv, TypeOK
<1>2. QED
    BY <1>1 DEF PausedHasUnread, LostInv

LEMMA ReceiveStep == EventInv /\ Receive => PausedHasUnread' /\ LostInv'
<1> SUFFICES ASSUME EventInv, Receive PROVE PausedHasUnread' /\ LostInv'
    OBVIOUS
<1>1. /\ queue \in Seq(Events) /\ queue # <<>> /\ queue' = Tail(queue)
      /\ given' = Head(queue) /\ UNCHANGED <<conn, feeding>>
      /\ readPaused' = (readPaused /\ Len(queue) # 1)
    BY DEF EventInv, TypeOK, Receive, Resumes
<1>2. /\ queue' # <<>> => queue'[Len(queue')] = queue[Len(queue)]
      /\ queue' = <<>> => Len(queue) = 1 /\ Head(queue) = queue[Len(queue)]
    BY <1>1, QueueTake
<1>3. PausedHasUnread'
    BY <1>1, <1>2 DEF PausedHasUnread
<1>4. LostInv'
    BY <1>1, <1>2 DEF EventInv, LostInv
<1>5. QED
    BY <1>3, <1>4

LEMMA EventStep == EventInv /\ [Next]_vars => EventInv'
<1> SUFFICES ASSUME EventInv, [Next]_vars PROVE EventInv'
    OBVIOUS
<1>t. TypeOK'
    BY TypeStep DEF EventInv
<1>c. conn \in {"open", "closing", "lost"}
    BY DEF EventInv, TypeOK
<1>l. conn = "lost" => ~feeding
    BY DEF EventInv, LostInv
<1>e. "connect" \in Events /\ "receive" \in Events /\ "disconnect" \in Events
    BY DEF Events
<1> SUFFICES PausedHasUnread' /\ LostInv'
    BY <1>t DEF EventInv
<1>1. CASE UNCHANGED vars
    BY <1>1, QuietStep DEF vars, taskVars
<1>2. CASE DataReceived
    BY <1>2, QuietStep DEF DataReceived, taskVars
<1>3. CASE FeedEnds
    BY <1>3, QuietStep DEF FeedEnds, taskVars
<1>4. CASE HandleConnect
    BY <1>4, <1>l, <1>e, PutStep DEF HandleConnect
<1>5. CASE BadHandshake
    BY <1>5, <1>l, QuietStep DEF BadHandshake, taskVars
<1>6. CASE HandleMessage
    BY <1>6, <1>l, <1>e, PutStep DEF HandleMessage
<1>7. CASE HandlePing
    BY <1>7, QuietStep DEF HandlePing, taskVars
<1>8. CASE HandleClose
    BY <1>8, <1>e, PutStep DEF HandleClose, ClosesAfter
<1>9. CASE ResumeWriting
    BY <1>9, QuietStep DEF ResumeWriting
<1>10. CASE EofReceived
    BY <1>10, QuietStep DEF EofReceived, taskVars
<1>11. CASE TransportFails
    BY <1>11, QuietStep DEF TransportFails, taskVars
<1>12. CASE ConnectionLost
    BY <1>12, <1>e, PutStep DEF ConnectionLost, LossTold
<1>13. CASE Shutdown
  <2>1. /\ UNCHANGED <<feeding, readPaused, given>> /\ ~feeding
        /\ conn' \in {conn, Closing(conn)}
      BY <1>13 DEF Shutdown, taskVars
  <2>2. (conn' = "lost") <=> (conn = "lost")
      BY <2>1, <1>c DEF Closing
  <2>3. CASE handshakeComplete
      BY <1>13, <2>1, <2>3, <1>e, PutStep DEF Shutdown
  <2>4. CASE ~handshakeComplete
      BY <1>13, <2>1, <2>2, <2>4, QuietStep DEF Shutdown
  <2>5. QED
      BY <2>3, <2>4
<1>14. CASE Receive
    BY <1>14, ReceiveStep
<1>15. CASE SendWaits
    BY <1>15, QuietStep DEF SendWaits
<1>16. CASE SendRaises
    BY <1>16, QuietStep DEF SendRaises, CanSend
<1>17. ASSUME NEW valid \in BOOLEAN, SendAccept(valid) PROVE PausedHasUnread' /\ LostInv'
    BY <1>17, QuietStep DEF SendAccept, CanSend
<1>18. CASE SendReject
    BY <1>18, <1>e, PutStep DEF SendReject, CanSend
<1>19. ASSUME NEW valid \in BOOLEAN, SendResponseStart(valid)
       PROVE  PausedHasUnread' /\ LostInv'
    BY <1>19, QuietStep DEF SendResponseStart, CanSend
<1>20. CASE SendMessage
    BY <1>20, QuietStep DEF SendMessage, CanSend
<1>21. CASE SendClose
    BY <1>21, <1>e, PutStep DEF SendClose, CanSend
<1>22. ASSUME NEW more \in BOOLEAN, SendResponseBody(more)
       PROVE  PausedHasUnread' /\ LostInv'
  <2>1. CASE more
      BY <1>22, <2>1, QuietStep DEF SendResponseBody, CanSend
  <2>2. CASE ~more
      BY <1>22, <2>2, <1>e, PutStep DEF SendResponseBody, CanSend
  <2>3. QED
      BY <2>1, <2>2
<1>23. ASSUME NEW how \in {"raises", "none", "value"}, RunAsgiEnds(how)
       PROVE  PausedHasUnread' /\ LostInv'
  <2>1. /\ UNCHANGED <<queue, readPaused, given, feeding>>
        /\ conn' \in {conn, Closing(conn)}
      BY <1>23 DEF RunAsgiEnds
  <2>2. (conn' = "lost") <=> (conn = "lost")
      BY <2>1, <1>c DEF Closing
  <2>3. QED
      BY <2>1, <2>2, QuietStep
<1>24. QED
    BY <1>1, <1>2, <1>3, <1>4, <1>5, <1>6, <1>7, <1>8, <1>9, <1>10, <1>11,
       <1>12, <1>13, <1>14, <1>15, <1>16, <1>17, <1>18, <1>19, <1>20, <1>21,
       <1>22, <1>23 DEF Next, Callbacks, Application

LEMMA EventAlways == Spec => []EventInv
<1>1. Init => EventInv
    BY InitTyped DEF Init, EventInv, PausedHasUnread, LostInv
<1>2. QED
    BY <1>1, EventStep, PTL DEF Spec

\* The state of a connection has the type the code gives it.
THEOREM WsProtoTypeCorrect == Spec => []TypeOK
<1>1. EventInv => TypeOK
    BY DEF EventInv
<1>2. QED
    BY <1>1, EventAlways, PTL

\* Reading is never paused without an event whose receive() resumes it.
THEOREM UnreadSafety == Spec => []PausedHasUnread
<1>1. EventInv => PausedHasUnread
    BY DEF EventInv
<1>2. QED
    BY <1>1, EventAlways, PTL

\* The application of a lost connection has been told, or finds a disconnect in
\* the queue, whatever was queued before and is put after it.
THEOREM LossSafety == Spec => []LossIsQueued
<1>1. EventInv => LossIsQueued
  <2>1. SUFFICES ASSUME EventInv, conn = "lost", queue # <<>>
                 PROVE  \E k \in DOMAIN queue : queue[k] = "disconnect"
      BY DEF EventInv, LostInv, LossIsQueued
  <2>2. queue \in Seq(Events) /\ queue[Len(queue)] = "disconnect"
      BY <2>1 DEF EventInv, TypeOK, LostInv
  <2>3. Len(queue) \in DOMAIN queue
      BY <2>1, <2>2, LenProperties, EmptySeq
  <2>4. QED
      BY <2>2, <2>3
<1>2. QED
    BY <1>1, EventAlways, PTL

-----------------------------------------------------------------------------
(* The handshake.                                                          *)

\* What wsproto's state says of the answer and of the transport.
HandshakeInv ==
    /\ state = "CONNECTING" <=> answer = "none"
    /\ state = "OPEN" => answer = "accepted" /\ handshakeComplete
    /\ state \in {"LOCAL_CLOSING", "CLOSED"} => conn # "open"
    /\ state = "REJECTING" => responseStarted
    /\ responseStarted => handshakeComplete
    /\ app = "none" /\ handshakeComplete => conn = "lost"
    /\ feeding => conn = "open"
    /\ asked = "yes" => conn # "open"
    /\ asked = "raised" => state # "OPEN" /\ (state = "CONNECTING" => handshakeComplete)

LEMMA HandshakeStep == TypeOK /\ HandshakeInv /\ [Next]_vars => HandshakeInv'
<1> SUFFICES ASSUME TypeOK, HandshakeInv, [Next]_vars PROVE HandshakeInv'
    OBVIOUS
<1> USE DEF TypeOK, HandshakeInv, protoVars, taskVars, Answers, Closing
<1>1. CASE UNCHANGED vars
    BY <1>1 DEF vars
<1>2. CASE DataReceived \/ FeedEnds
    BY <1>2 DEF DataReceived, FeedEnds
<1>3. CASE HandleConnect
    BY <1>3 DEF HandleConnect
<1>4. CASE BadHandshake
    BY <1>4 DEF BadHandshake
<1>5. CASE HandleMessage \/ HandlePing
    BY <1>5 DEF HandleMessage, HandlePing
<1>6. CASE HandleClose
    BY <1>6 DEF HandleClose, ClosesAfter
<1>7. CASE ResumeWriting \/ EofReceived \/ TransportFails
    BY <1>7 DEF ResumeWriting, EofReceived, TransportFails
<1>8. CASE ConnectionLost
    BY <1>8 DEF ConnectionLost
<1>9. CASE Shutdown
    BY <1>9 DEF Shutdown, Send500
<1>10. CASE Receive \/ SendWaits
    BY <1>10 DEF Receive, SendWaits
<1>11. CASE SendRaises \/ SendMessage
    BY <1>11 DEF SendRaises, SendMessage, CanSend
<1>12. ASSUME NEW valid \in BOOLEAN, SendAccept(valid) PROVE HandshakeInv'
    BY <1>12 DEF SendAccept, CanSend
<1>13. CASE SendReject
    BY <1>13 DEF SendReject, CanSend
<1>14. ASSUME NEW valid \in BOOLEAN, SendResponseStart(valid) PROVE HandshakeInv'
    BY <1>14 DEF SendResponseStart, CanSend
<1>15. CASE SendClose
    BY <1>15 DEF SendClose, CanSend
<1>16. ASSUME NEW more \in BOOLEAN, SendResponseBody(more) PROVE HandshakeInv'
    BY <1>16 DEF SendResponseBody, CanSend
<1>17. ASSUME NEW how \in {"raises", "none", "value"}, RunAsgiEnds(how)
       PROVE  HandshakeInv'
    BY <1>17 DEF RunAsgiEnds, Send500, May500
<1>18. QED
    BY <1>1, <1>2, <1>3, <1>4, <1>5, <1>6, <1>7, <1>8, <1>9, <1>10, <1>11, <1>12,
       <1>13, <1>14, <1>15, <1>16, <1>17 DEF Next, Callbacks, Application

\* What a step never takes back.
LEMMA Monotone ==
    ASSUME TypeOK, HandshakeInv, [Next]_vars
    PROVE  /\ conn = "lost" => conn' = "lost"
           /\ answer = "accepted" => answer' = "accepted"
           /\ ~InUse => ~InUse'
<1> USE DEF TypeOK, HandshakeInv, InUse, AnswerRefused, Answers, Closing, protoVars
<1>1. CASE UNCHANGED vars
    BY <1>1 DEF vars
<1>2. CASE DataReceived \/ FeedEnds
    BY <1>2 DEF DataReceived, FeedEnds
<1>3. CASE HandleConnect \/ BadHandshake
    BY <1>3 DEF HandleConnect, BadHandshake
<1>4. CASE HandleMessage \/ HandlePing
    BY <1>4 DEF HandleMessage, HandlePing
<1>5. CASE HandleClose
    BY <1>5 DEF HandleClose, ClosesAfter
<1>6. CASE ResumeWriting \/ EofReceived \/ TransportFails
    BY <1>6 DEF ResumeWriting, EofReceived, TransportFails
<1>7. CASE ConnectionLost
    BY <1>7 DEF ConnectionLost
<1>8. CASE Shutdown
    BY <1>8 DEF Shutdown, Send500
<1>9. CASE Receive \/ SendWaits
    BY <1>9 DEF Receive, SendWaits
<1>10. CASE SendRaises \/ SendMessage
    BY <1>10 DEF SendRaises, SendMessage, CanSend
<1>11. ASSUME NEW valid \in BOOLEAN, SendAccept(valid)
       PROVE  UNCHANGED conn /\ (InUse' => InUse) /\ (answer = "accepted" => answer' = "accepted")
    BY <1>11 DEF SendAccept, CanSend
<1>12. CASE SendReject
    BY <1>12 DEF SendReject, CanSend
<1>13. ASSUME NEW valid \in BOOLEAN, SendResponseStart(valid)
       PROVE  UNCHANGED conn /\ (InUse' => InUse) /\ (answer = "accepted" => answer' = "accepted")
    BY <1>13 DEF SendResponseStart, CanSend
<1>14. CASE SendClose
    BY <1>14 DEF SendClose, CanSend
<1>15. CASE \E more \in BOOLEAN : SendResponseBody(more)
    BY <1>15 DEF SendResponseBody, CanSend
<1>16. CASE \E how \in {"raises", "none", "value"} : RunAsgiEnds(how)
    BY <1>16 DEF RunAsgiEnds, Send500, May500
<1>17. QED
    BY <1>1, <1>2, <1>3, <1>4, <1>5, <1>6, <1>7, <1>8, <1>9, <1>10, <1>11, <1>12,
       <1>13, <1>14, <1>15, <1>16 DEF Next, Callbacks, Application

\* data_received reads no frame of an accepted connection, nor will.
Deaf == ~InUse /\ ~(feeding /\ state = "OPEN")

LEMMA DeafStays ==
    ASSUME TypeOK, HandshakeInv, [Next]_vars, Deaf
    PROVE  Deaf'
<1>1. feeding' /\ state' = "OPEN" => (feeding \/ DataReceived) /\ state = "OPEN"
  <2> USE DEF Answers
  <2>1. CASE Callbacks \/ UNCHANGED vars
      BY <2>1 DEF Callbacks, DataReceived, FeedEnds, HandleConnect, BadHandshake,
         HandleMessage, HandlePing, HandleClose, ResumeWriting, EofReceived,
         TransportFails, ConnectionLost, Shutdown, Send500, vars
  <2>2. CASE Application
      BY <2>2 DEF Application, Receive, SendWaits, SendRaises, SendAccept,
         SendResponseStart, SendReject, SendMessage, SendClose, SendResponseBody,
         CanSend, RunAsgiEnds
  <2>3. QED
      BY <2>1, <2>2 DEF Next
<1>2. DataReceived /\ state = "OPEN" => InUse
    BY DEF DataReceived, InUse, AnswerRefused, HandshakeInv
<1>3. QED
    BY <1>1, <1>2, Monotone DEF Deaf

-----------------------------------------------------------------------------
(* The order of the events.                                                *)

Told == given = "disconnect" \/ \E k \in 1 .. Len(queue) : queue[k] = "disconnect"

\* websocket.connect comes first and once, a message never after a disconnect
\* and only if the handshake was accepted, and a disconnect only when the
\* connection is not in use and nothing more will be read from it.
OrderInv ==
    /\ app # "none" /\ given = "none" => queue # <<>> /\ queue[1] = "connect"
    /\ app = "none" => given = "none" /\ (conn # "lost" => queue = <<>>)
    /\ \A k \in 1 .. Len(queue) : queue[k] = "connect" => k = 1 /\ given = "none"
    /\ \A k \in 1 .. Len(queue) : queue[k] = "receive" =>
          /\ answer = "accepted" /\ given # "disconnect"
          /\ \A l \in 1 .. Len(queue) : l < k => queue[l] # "disconnect"
    /\ Told => Deaf

ServiceInv == EventInv /\ HandshakeInv /\ OrderInv

LEMMA AppendFacts ==
    ASSUME queue \in Seq(Events), NEW e \in Events, Put(e)
    PROVE  /\ Len(queue) \in Nat /\ Len(queue') = Len(queue) + 1
           /\ queue' # <<>>
           /\ \A k \in 1 .. Len(queue) : queue'[k] = queue[k]
           /\ queue'[Len(queue')] = e
<1>1. /\ Len(Append(queue, e)) = Len(queue) + 1
      /\ \A k \in 1 .. Len(queue) : Append(queue, e)[k] = queue[k]
      /\ Append(queue, e)[Len(queue) + 1] = e
      /\ Len(queue) \in Nat
    BY AppendProperties, LenProperties
<1>2. queue' # <<>>
    BY QueueAppend
<1>3. QED
    BY <1>1, <1>2 DEF Put

\* Steps that leave the queue and what was given alone.
LEMMA OrderFrame ==
    ASSUME ServiceInv, [Next]_vars, UNCHANGED <<queue, given>>,
           (app' = "none") = (app = "none")
    PROVE  OrderInv'
<1>1. Deaf => Deaf'
    BY DeafStays DEF ServiceInv, EventInv
<1>2. QED
    BY <1>1, Monotone DEF ServiceInv, EventInv, OrderInv, Told

\* A disconnect that is put last closes the connection for the application.
LEMMA PutDisconnect ==
    ASSUME ServiceInv, [Next]_vars, Put("disconnect"), UNCHANGED <<given, app>>,
           Deaf', app = "none" => conn' = "lost"
    PROVE  OrderInv'
<1>1. /\ Len(queue) \in Nat /\ Len(queue') = Len(queue) + 1 /\ queue' # <<>>
      /\ \A k \in 1 .. Len(queue) : queue'[k] = queue[k]
      /\ queue'[Len(queue')] = "disconnect"
    BY AppendFacts DEF ServiceInv, EventInv, TypeOK, Events
<1>2. queue # <<>> => Len(queue) \in Nat \ {0}
    BY EmptySeq DEF ServiceInv, EventInv, TypeOK
<1>3. queue # <<>> => 1 \in 1 .. Len(queue)
    BY <1>2
<1>4. app' # "none" /\ given' = "none" => queue' # <<>> /\ queue'[1] = "connect"
    BY <1>1, <1>3 DEF ServiceInv, OrderInv
<1>5. app' = "none" => given' = "none" /\ (conn' # "lost" => queue' = <<>>)
    BY DEF ServiceInv, OrderInv
<1>6. ASSUME NEW k \in 1 .. Len(queue'), queue'[k] # "disconnect"
      PROVE  k \in 1 .. Len(queue) /\ queue'[k] = queue[k]
    BY <1>1, <1>6
<1>7. \A k \in 1 .. Len(queue') : queue'[k] = "connect" => k = 1 /\ given' = "none"
    BY <1>6 DEF ServiceInv, OrderInv
<1>8. ASSUME NEW k \in 1 .. Len(queue'), queue'[k] = "receive"
      PROVE  /\ answer' = "accepted" /\ given' # "disconnect"
             /\ \A l \in 1 .. Len(queue') : l < k => queue'[l] # "disconnect"
  <2>1. k \in 1 .. Len(queue) /\ queue[k] = "receive"
      BY <1>6, <1>8
  <2>2. \A l \in 1 .. Len(queue') : l < k => l \in 1 .. Len(queue)
      BY <1>1, <2>1
  <2>3. QED
      BY <1>1, <2>1, <2>2, Monotone DEF ServiceInv, EventInv, OrderInv
<1>9. QED
    BY <1>4, <1>5, <1>7, <1>8 DEF OrderInv

\* handle_connect: nothing was queued before.
LEMMA OrderConnect == ServiceInv /\ [Next]_vars /\ HandleConnect => OrderInv'
<1> SUFFICES ASSUME ServiceInv, [Next]_vars, HandleConnect PROVE OrderInv'
    OBVIOUS
<1>1. /\ conn = "open" /\ app = "none" /\ app' = "run" /\ Put("connect")
      /\ UNCHANGED given
    BY DEF HandleConnect, ServiceInv, HandshakeInv, taskVars
<1>2. queue = <<>> /\ given = "none"
    BY <1>1 DEF ServiceInv, OrderInv
<1>3. Len(queue) = 0
    BY <1>2, EmptySeq
<1>4. Len(queue') = 1 /\ queue' # <<>> /\ queue'[1] = "connect"
  <2>1. queue \in Seq(Events) /\ "connect" \in Events
      BY DEF ServiceInv, EventInv, TypeOK, Events
  <2>2. /\ Len(queue') = Len(queue) + 1 /\ queue' # <<>>
        /\ queue'[Len(queue')] = "connect"
      BY <1>1, <2>1, AppendFacts
  <2>3. Len(queue') = 1
      BY <1>3, <2>2
  <2>4. QED
      BY <2>2, <2>3
<1>5. \A k \in 1 .. Len(queue') : k = 1 /\ queue'[k] = "connect"
    BY <1>4
<1>6. QED
    BY <1>1, <1>2, <1>4, <1>5 DEF OrderInv, Told

\* handle_text and handle_bytes: the application has not been told of the end.
LEMMA OrderMessage == ServiceInv /\ [Next]_vars /\ HandleMessage => OrderInv'
<1> SUFFICES ASSUME ServiceInv, [Next]_vars, HandleMessage PROVE OrderInv'
    OBVIOUS
<1>1. /\ feeding /\ state = "OPEN" /\ Put("receive") /\ UNCHANGED <<given, app, answer>>
    BY DEF HandleMessage, taskVars
<1>2. answer = "accepted" /\ app # "none"
    BY <1>1 DEF ServiceInv, HandshakeInv
<1>3. ~Told
    BY <1>1 DEF ServiceInv, OrderInv, Deaf
<1>4. /\ Len(queue) \in Nat /\ Len(queue') = Len(queue) + 1 /\ queue' # <<>>
      /\ \A k \in 1 .. Len(queue) : queue'[k] = queue[k]
      /\ queue'[Len(queue')] = "receive"
    BY <1>1, AppendFacts DEF ServiceInv, EventInv, TypeOK, Events
<1>5. \A k \in 1 .. Len(queue') : \/ k \in 1 .. Len(queue) /\ queue'[k] = queue[k]
                                  \/ queue'[k] = "receive"
    BY <1>4
<1>6. \A k \in 1 .. Len(queue') : queue'[k] # "disconnect"
    BY <1>3, <1>5 DEF Told
<1>7. queue # <<>> => 1 \in 1 .. Len(queue)
  <2>1. queue # <<>> => Len(queue) \in Nat \ {0}
      BY EmptySeq DEF ServiceInv, EventInv, TypeOK
  <2>2. QED
      BY <2>1
<1>8. given' = "none" => queue' # <<>> /\ queue'[1] = "connect"
    BY <1>1, <1>2, <1>4, <1>7 DEF ServiceInv, OrderInv
<1>9. \A k \in 1 .. Len(queue') : queue'[k] = "connect" => k = 1 /\ given' = "none"
    BY <1>1, <1>5 DEF ServiceInv, OrderInv
<1>10. given' # "disconnect" /\ ~Told'
    BY <1>1, <1>3, <1>6 DEF Told
<1>11. QED
    BY <1>1, <1>2, <1>6, <1>8, <1>9, <1>10 DEF OrderInv

\* receive() gives the event that has waited longest.
LEMMA OrderReceive == ServiceInv /\ [Next]_vars /\ Receive => OrderInv'
<1> SUFFICES ASSUME ServiceInv, [Next]_vars, Receive PROVE OrderInv'
    OBVIOUS
<1>1. /\ queue \in Seq(Events) /\ queue # <<>> /\ queue' = Tail(queue)
      /\ given' = Head(queue) /\ app = "run"
      /\ UNCHANGED <<conn, asked, feeding, state, answer, handshakeComplete, app>>
    BY DEF ServiceInv, EventInv, TypeOK, Receive, protoVars
<1>2. /\ Len(queue) \in Nat \ {0} /\ Len(queue') = Len(queue) - 1
      /\ given' = queue[1] /\ given' \in Events
    BY <1>1, QueueTake, EmptySeq
<1>3. \A k \in 1 .. Len(queue') : queue'[k] = queue[k + 1] /\ k + 1 \in 1 .. Len(queue)
  <2>1. \A k \in 1 .. Len(Tail(queue)) : Tail(queue)[k] = queue[k + 1]
      BY <1>1, HeadTailProperties
  <2>2. QED
      BY <1>1, <1>2, <2>1
<1>4. \A k \in 1 .. Len(queue') : queue'[k] # "connect"
    BY <1>3 DEF ServiceInv, OrderInv
<1>5. ASSUME NEW k \in 1 .. Len(queue'), queue'[k] = "receive"
      PROVE  /\ answer' = "accepted" /\ given' # "disconnect"
             /\ \A l \in 1 .. Len(queue') : l < k => queue'[l] # "disconnect"
  <2>1. k + 1 \in 1 .. Len(queue) /\ queue[k + 1] = "receive"
      BY <1>3, <1>5
  <2>2. 1 \in 1 .. Len(queue) /\ 1 < k + 1
      BY <1>2
  <2>3. queue[1] # "disconnect" /\ answer = "accepted"
      BY <2>1, <2>2 DEF ServiceInv, OrderInv
  <2>4. ASSUME NEW l \in 1 .. Len(queue'), l < k PROVE queue'[l] # "disconnect"
    <3>1. l + 1 \in 1 .. Len(queue) /\ l + 1 < k + 1 /\ queue'[l] = queue[l + 1]
        BY <1>3, <2>4
    <3>2. QED
        BY <2>1, <3>1 DEF ServiceInv, OrderInv
  <2>5. QED
      BY <1>1, <1>2, <2>3, <2>4
<1>6. Told' => Told
    BY <1>2, <1>3 DEF Told
<1>7. Deaf => Deaf'
    BY DeafStays DEF ServiceInv, EventInv
<1>8. given' # "none"
    BY <1>2 DEF Events
<1>9. QED
    BY <1>1, <1>4, <1>5, <1>6, <1>7, <1>8 DEF ServiceInv, OrderInv

\* A disconnect is put by: handle_close, connection_lost, shutdown(), and the
\* send() of a close or of the end of a denial response.
LEMMA OrderStep == ServiceInv /\ [Next]_vars => OrderInv'
<1> SUFFICES ASSUME ServiceInv, [Next]_vars PROVE OrderInv'
    OBVIOUS
<1> USE DEF protoVars, taskVars
<1>a. TypeOK /\ HandshakeInv
    BY DEF ServiceInv, EventInv
<1>b. Deaf => Deaf'
    BY <1>a, DeafStays
<1>c. ASSUME conn' # "open", feeding' = FALSE PROVE Deaf'
    BY <1>c DEF Deaf, InUse
<1>1. CASE UNCHANGED vars
    BY <1>1, OrderFrame DEF vars
<1>2. CASE DataReceived \/ FeedEnds \/ BadHandshake \/ HandlePing
    BY <1>2, OrderFrame DEF DataReceived, FeedEnds, BadHandshake, HandlePing
<1>3. CASE ResumeWriting \/ EofReceived \/ TransportFails
    BY <1>3, OrderFrame DEF ResumeWriting, EofReceived, TransportFails
<1>4. CASE HandleConnect \/ HandleMessage \/ Receive
    BY <1>4, OrderConnect, OrderMessage, OrderReceive
<1>5. CASE HandleClose
  <2>1. /\ conn' = "closing" /\ feeding' = FALSE /\ Put("disconnect")
        /\ UNCHANGED <<given, app>> /\ app # "none"
      BY <1>5, <1>a DEF HandleClose, ClosesAfter, HandshakeInv
  <2>2. QED
      BY <1>c, <2>1, PutDisconnect
<1>6. CASE ConnectionLost
  <2>1. /\ conn' = "lost" /\ feeding' = FALSE /\ Put("disconnect")
        /\ UNCHANGED <<given, app>>
      BY <1>6, <1>a DEF ConnectionLost, LossTold, TypeOK
  <2>2. QED
      BY <1>c, <2>1, PutDisconnect
<1>7. CASE Shutdown
  <2>1. CASE ~handshakeComplete
      BY <1>7, <2>1, OrderFrame DEF Shutdown
  <2>2. CASE handshakeComplete
    <3>1. Put("disconnect") /\ feeding' = FALSE /\ UNCHANGED <<given, app>>
        BY <1>7, <1>a, <2>2 DEF Shutdown, TypeOK
    <3>2. conn' # "open" \/ asked' = "raised"
        BY <1>7, <2>2 DEF Shutdown, Closing
    <3>3. Deaf'
        BY <3>1, <3>2 DEF Deaf, InUse
    <3>4. app = "none" => conn' = "lost"
      <4>1. app = "none" => conn = "lost"
          BY <1>a, <2>2 DEF HandshakeInv
      <4>2. QED
          BY <4>1, <1>a, Monotone
    <3>5. QED
        BY <3>1, <3>3, <3>4, PutDisconnect
  <2>3. QED
      BY <2>1, <2>2, <1>a DEF TypeOK
<1>8. CASE SendWaits \/ SendRaises \/ SendMessage
    BY <1>8, OrderFrame DEF SendWaits, SendRaises, SendMessage, CanSend
<1>9. ASSUME NEW valid \in BOOLEAN, SendAccept(valid) PROVE OrderInv'
    BY <1>9, OrderFrame DEF SendAccept, CanSend
<1>10. ASSUME NEW valid \in BOOLEAN, SendResponseStart(valid) PROVE OrderInv'
    BY <1>10, OrderFrame DEF SendResponseStart, CanSend
<1>11. CASE SendReject
  <2>1. /\ Put("disconnect") /\ feeding' = FALSE /\ UNCHANGED <<given, app>>
        /\ app = "run"
      BY <1>11, <1>a DEF SendReject, CanSend, TypeOK
  <2>2. conn' # "open"
      BY <1>11, <1>a DEF SendReject, CanSend, Closing, Answers, HandshakeInv, TypeOK
  <2>3. QED
      BY <1>c, <2>1, <2>2, PutDisconnect
<1>12. CASE SendClose
  <2>1. /\ Put("disconnect") /\ feeding' = FALSE /\ UNCHANGED <<given, app>>
        /\ app = "run"
      BY <1>12, <1>a DEF SendClose, CanSend, TypeOK
  <2>2. ~InUse'
      BY <1>12, <1>a DEF SendClose, CanSend, Closing, HandshakeInv, InUse,
         AnswerRefused, TypeOK
  <2>3. QED
      BY <2>1, <2>2, PutDisconnect DEF Deaf
<1>13. ASSUME NEW more \in BOOLEAN, SendResponseBody(more) PROVE OrderInv'
  <2>1. CASE more
      BY <1>13, <2>1, OrderFrame DEF SendResponseBody, CanSend
  <2>2. CASE ~more
    <3>1. /\ Put("disconnect") /\ feeding' = FALSE /\ UNCHANGED <<given, app>>
          /\ app = "run" /\ conn' # "open"
        BY <1>13, <1>a, <2>2 DEF SendResponseBody, CanSend, Closing, TypeOK
    <3>2. QED
        BY <1>c, <3>1, PutDisconnect
  <2>3. QED
      BY <2>1, <2>2
<1>14. ASSUME NEW how \in {"raises", "none", "value"}, RunAsgiEnds(how)
       PROVE  OrderInv'
    BY <1>14, OrderFrame DEF RunAsgiEnds
<1>15. QED
    BY <1>1, <1>2, <1>3, <1>4, <1>5, <1>6, <1>7, <1>8, <1>9, <1>10, <1>11, <1>12,
       <1>13, <1>14 DEF Next, Callbacks, Application

LEMMA ServiceInit == Init => ServiceInv
<1> SUFFICES ASSUME Init PROVE ServiceInv
    OBVIOUS
<1>1. TypeOK
    BY InitTyped
<1>2. HandshakeInv
    BY DEF Init, HandshakeInv
<1>3. OrderInv
    BY EmptySeq DEF Init, OrderInv, Told
<1>4. PausedHasUnread /\ LostInv
    BY DEF Init, PausedHasUnread, LostInv
<1>5. QED
    BY <1>1, <1>2, <1>3, <1>4 DEF ServiceInv, EventInv

LEMMA ServiceStep == ServiceInv /\ [Next]_vars => ServiceInv'
    BY EventStep, HandshakeStep, OrderStep DEF ServiceInv, EventInv

LEMMA ServiceAlways == Spec => []ServiceInv
    BY ServiceInit, ServiceStep, PTL DEF Spec

-----------------------------------------------------------------------------
(* The end of run_asgi, and what follows from shutdown().                  *)

\* run_asgi sends its 500 unless the handshake has been answered already.
LEMMA EndStep ==
    TypeOK /\ HandshakeInv /\ NoSilentEnd /\ [Next]_vars => NoSilentEnd'
<1> SUFFICES ASSUME TypeOK, HandshakeInv, NoSilentEnd, [Next]_vars PROVE NoSilentEnd'
    OBVIOUS
<1> USE DEF NoSilentEnd, AnswerRefused, Closing, Answers, protoVars, taskVars
<1>1. CASE UNCHANGED vars
    BY <1>1 DEF vars
<1>2. CASE DataReceived \/ FeedEnds \/ HandleConnect \/ BadHandshake
    BY <1>2 DEF DataReceived, FeedEnds, HandleConnect, BadHandshake
<1>3. CASE HandleMessage \/ HandlePing
    BY <1>3 DEF HandleMessage, HandlePing
<1>4. CASE HandleClose
    BY <1>4 DEF HandleClose, ClosesAfter
<1>5. CASE ResumeWriting \/ EofReceived \/ TransportFails \/ ConnectionLost
    BY <1>5 DEF ResumeWriting, EofReceived, TransportFails, ConnectionLost
<1>6. CASE Shutdown
    BY <1>6, Monotone DEF Shutdown, Send500
<1>7. CASE Application /\ app' # "done"
    BY <1>7
<1>8. CASE Application /\ app = "done"
    BY <1>8 DEF Application, Receive, SendWaits, SendRaises, SendAccept, SendReject,
       SendResponseStart, SendMessage, SendClose, SendResponseBody, CanSend, RunAsgiEnds
<1>9. CASE Application /\ app' = "done" /\ app # "done"
  <2>1. PICK how \in {"raises", "none", "value"} : RunAsgiEnds(how)
      BY <1>9 DEF Application, Receive, SendWaits, SendRaises, SendAccept, SendReject,
         SendResponseStart, SendMessage, SendClose, SendResponseBody, CanSend
  <2>2. CASE state = "CONNECTING" /\ May500
      BY <2>1, <2>2 DEF RunAsgiEnds, Send500
  <2>3. CASE state = "CONNECTING" /\ ~May500
      BY <2>1, <2>3 DEF RunAsgiEnds, May500, HandshakeInv
  <2>4. CASE state # "CONNECTING"
      BY <2>1, <2>4 DEF RunAsgiEnds, HandshakeInv
  <2>5. QED
      BY <2>2, <2>3, <2>4
<1>10. QED
    BY <1>1, <1>2, <1>3, <1>4, <1>5, <1>6, <1>7, <1>8, <1>9 DEF Next, Callbacks

\* An application of wsproto's that has ended leaves no client without an answer
\* on an open connection, unless wsproto refused the answer it gave (run_asgi).
THEOREM WsProtoNoSilentEnd == Spec => []NoSilentEnd
<1>1. Init => NoSilentEnd
    BY DEF Init, NoSilentEnd
<1>2. ServiceInv /\ ServiceInv' /\ NoSilentEnd /\ [Next]_vars => NoSilentEnd'
    BY EndStep DEF ServiceInv, EventInv
<1>3. QED
    BY <1>1, <1>2, ServiceAlways, PTL DEF Spec

\* After shutdown() the handshake is refused, or wsproto has refused already
\* what the application answered: SendAccept finds neither.
LEMMA NotOpened ==
    ASSUME TypeOK, HandshakeInv, [Next]_vars, asked # "no", state = "CONNECTING"
    PROVE  state' # "OPEN"
<1>1. conn # "open" \/ handshakeComplete
    BY DEF TypeOK, HandshakeInv
<1>2. CASE Callbacks \/ UNCHANGED vars
    BY <1>2 DEF Callbacks, DataReceived, FeedEnds, HandleConnect, BadHandshake,
       HandleMessage, HandlePing, HandleClose, ResumeWriting, EofReceived,
       TransportFails, ConnectionLost, Shutdown, Send500, Answers, vars
<1>3. CASE Application
    BY <1>1, <1>3 DEF Application, Receive, SendWaits, SendRaises, SendAccept,
       SendResponseStart, SendReject, SendMessage, SendClose, SendResponseBody,
       CanSend, RunAsgiEnds, Send500, Answers
<1>4. QED
    BY <1>2, <1>3 DEF Next

-----------------------------------------------------------------------------
(* WSProtocol implements AsgiWebSocket.                                    *)

Service == INSTANCE AsgiWebSocket WITH open <- InUse

\* Steps that give the application nothing and answer at most a handshake that
\* has no answer yet.
LEMMA RefineAnswer ==
    ASSUME ServiceInv, [Next]_vars, UNCHANGED given,
           \/ UNCHANGED answer
           \/ answer = "none" /\ answer' \in {"accepted", "refused"}
    PROVE  Service!Next \/ UNCHANGED Service!vars
<1>1. InUse \in BOOLEAN /\ InUse' \in BOOLEAN
    BY DEF InUse
<1>2. ~InUse => ~InUse'
    BY Monotone DEF ServiceInv, EventInv
<1>3. CASE UNCHANGED answer /\ InUse = InUse'
    BY <1>3 DEF Service!vars
<1>4. CASE UNCHANGED answer /\ InUse /\ ~InUse'
    BY <1>1, <1>4 DEF Service!Next, Service!Close
<1>5. CASE answer = "none" /\ answer' \in {"accepted", "refused"}
    BY <1>1, <1>2, <1>5 DEF Service!Next, Service!Answer
<1>6. QED
    BY <1>1, <1>2, <1>3, <1>4, <1>5

\* receive() gives what is due.
LEMMA RefineReceive == ServiceInv /\ Receive => Service!Next
<1> SUFFICES ASSUME ServiceInv, Receive PROVE Service!Next
    OBVIOUS
<1>1. /\ queue \in Seq(Events) /\ queue # <<>> /\ given' = Head(queue) /\ app = "run"
      /\ UNCHANGED <<conn, asked, state, answer, handshakeComplete>>
    BY DEF ServiceInv, EventInv, TypeOK, Receive, protoVars
<1>2. UNCHANGED InUse
    BY <1>1 DEF InUse, AnswerRefused
<1>3. 1 \in 1 .. Len(queue) /\ given' = queue[1] /\ given' \in Events
  <2>1. Len(queue) \in Nat \ {0} /\ Head(queue) = queue[1]
      BY <1>1, QueueTake, EmptySeq
  <2>2. Head(queue) \in Events
      BY <1>1, QueueTake
  <2>3. QED
      BY <1>1, <2>1, <2>2
<1>4. CASE given' = "connect"
  <2>1. given = "none"
      BY <1>3, <1>4 DEF ServiceInv, OrderInv
  <2>2. QED
      BY <1>1, <1>2, <1>4, <2>1 DEF Service!Next, Service!GiveConnect
<1>5. CASE given' = "receive"
  <2>1. answer = "accepted" /\ given \in {"connect", "receive"}
      BY <1>1, <1>3, <1>5 DEF ServiceInv, EventInv, OrderInv, TypeOK, Events
  <2>2. QED
      BY <1>1, <1>2, <1>5, <2>1 DEF Service!Next, Service!GiveMessage
<1>6. CASE given' = "disconnect"
  <2>1. ~InUse
      BY <1>3, <1>6 DEF ServiceInv, OrderInv, Told, Deaf
  <2>2. given # "none"
      BY <1>1, <1>3, <1>6 DEF ServiceInv, OrderInv
  <2>3. QED
      BY <1>1, <1>2, <1>6, <2>1, <2>2 DEF Service!Next, Service!GiveDisconnect
<1>7. QED
    BY <1>3, <1>4, <1>5, <1>6 DEF Events

LEMMA RefineStep == ServiceInv /\ [Next]_vars => [Service!Next]_Service!vars
<1> SUFFICES ASSUME ServiceInv, [Next]_vars
             PROVE  Service!Next \/ UNCHANGED Service!vars
    OBVIOUS
<1>a. state = "CONNECTING" => answer = "none"
    BY DEF ServiceInv, HandshakeInv
<1>1. CASE Receive
    BY <1>1, RefineReceive
<1>2. CASE ~Receive
  <2>1. UNCHANGED given
      BY <1>2 DEF Next, Callbacks, Application, DataReceived, FeedEnds, HandleConnect,
         BadHandshake, HandleMessage, HandlePing, HandleClose, ResumeWriting,
         EofReceived, TransportFails, ConnectionLost, Shutdown, SendWaits, SendRaises,
         SendAccept, SendResponseStart, SendReject, SendMessage, SendClose,
         SendResponseBody, CanSend, RunAsgiEnds, taskVars, vars
  <2>2. UNCHANGED answer \/ (state = "CONNECTING" /\ answer' \in {"accepted", "refused"})
    <3> USE DEF Answers, Send500
    <3>1. CASE Callbacks \/ UNCHANGED vars
        BY <3>1 DEF Callbacks, DataReceived, FeedEnds, HandleConnect, BadHandshake,
           HandleMessage, HandlePing, HandleClose, ResumeWriting, EofReceived,
           TransportFails, ConnectionLost, Shutdown, vars
    <3>2. CASE Application
        BY <1>2, <3>2 DEF Application, SendWaits, SendRaises, SendAccept,
           SendResponseStart, SendReject, SendMessage, SendClose, SendResponseBody,
           CanSend, RunAsgiEnds
    <3>3. QED
        BY <3>1, <3>2 DEF Next
  <2>3. QED
      BY <1>a, <2>1, <2>2, RefineAnswer
<1>3. QED
    BY <1>1, <1>2

LEMMA RefineInit == Init => Service!Init
    BY DEF Init, Service!Init, InUse, AnswerRefused

\* A connection of wsproto's keeps the promises of AsgiWebSocket: one answer, and
\* connect, messages and disconnect in that order and when due.
THEOREM WsProtoServiceRefinement == Spec => Service!Spec
<1>1. QED
    BY RefineInit, RefineStep, ServiceAlways, PTL DEF Spec, Service!Spec
=============================================================================
