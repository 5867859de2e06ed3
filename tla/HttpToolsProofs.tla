--------------------------- MODULE HttpToolsProofs ---------------------------
(***************************************************************************)
(* Safety of one HTTP connection for any number of requests and any high-  *)
(* water mark.                                                             *)
(***************************************************************************)
EXTENDS HttpTools, SequenceTheorems, TLAPS

\* Requests handed to the application so far.
Served == cur - Len(pipeline)

\* The queue is the run of requests after the one in service, and phases and
\* responses agree with the two counters.
OrderInv ==
    /\ Len(pipeline) <= cur
    /\ \A k \in 1 .. Len(pipeline) : pipeline[k] = Served + k
    /\ \A i \in Requests : phase[i] = "none" <=> i > cur
    /\ \A i \in Requests : phase[i] = "queued" <=> Served < i /\ i <= cur
    /\ \A i \in Requests : complete[i] <=> i <= total
    /\ \A i \in Requests : complete[i] => started[i]
    /\ \A i \in Requests : started[i] => i <= Served
    /\ total <= Served
    /\ Served <= total + 1

TypedOrder == TypeOK /\ OrderInv

\* Queueing and taking from the queue.
LEMMA QueueAppend ==
    ASSUME pipeline \in Seq(Requests), NEW r \in Requests
    PROVE  /\ Append(pipeline, r) \in Seq(Requests)
           /\ Len(Append(pipeline, r)) = Len(pipeline) + 1
           /\ \A k \in 1 .. Len(pipeline) : Append(pipeline, r)[k] = pipeline[k]
           /\ Append(pipeline, r)[Len(pipeline) + 1] = r
BY AppendProperties

LEMMA QueueTail ==
    ASSUME pipeline \in Seq(Requests), pipeline # <<>>
    PROVE  /\ Head(pipeline) \in Requests
           /\ Head(pipeline) = pipeline[1]
           /\ Tail(pipeline) \in Seq(Requests)
           /\ Len(pipeline) \in Nat \ {0}
           /\ Len(Tail(pipeline)) = Len(pipeline) - 1
           /\ \A k \in 1 .. Len(Tail(pipeline)) : Tail(pipeline)[k] = pipeline[k + 1]
<1>1. Head(pipeline) = pipeline[1]
    BY EmptySeq, LenProperties
<1>2. QED
    BY <1>1, HeadTailProperties, EmptySeq

\* The initial state.
LEMMA InitTypedOrder == Init => TypedOrder
<1> SUFFICES ASSUME Init PROVE TypedOrder
    OBVIOUS
<1> USE MaxRequestsAssumption, HighWaterAssumption DEF Init, Requests
<1>1. pipeline \in Seq(Requests) /\ Len(pipeline) = 0
    BY EmptySeq
<1>2. TypeOK
  <2>1. /\ started \in [Requests -> BOOLEAN]
        /\ complete \in [Requests -> BOOLEAN]
        /\ disconnected \in [Requests -> BOOLEAN]
        /\ keepAlive \in [Requests -> BOOLEAN]
        /\ waiting100 \in [Requests -> BOOLEAN]
        /\ event \in [Requests -> BOOLEAN]
        /\ moreBody \in [Requests -> BOOLEAN]
        /\ gotEnd \in [Requests -> BOOLEAN]
    OBVIOUS
  <2>2. body \in [Requests -> 0 .. HighWater + 1]
    OBVIOUS
  <2>3. /\ phase \in [Requests -> {"none", "queued", "app", "fail", "done"}]
        /\ recv \in [Requests -> {"idle", "wait"}]
        /\ snd \in [Requests -> {"idle", "drain", "drained"}]
    OBVIOUS
  <2>4. total \in 0 .. MaxRequests /\ cur \in 0 .. MaxRequests
    OBVIOUS
  <2>5. QED
    BY <1>1, <2>1, <2>2, <2>3, <2>4 DEF TypeOK
<1>3. OrderInv
    BY <1>1 DEF OrderInv, Served
<1>4. QED
    BY <1>2, <1>3 DEF TypedOrder

\* Steps of the parser.
LEMMA ParserTyped == TypedOrder /\ Parser => TypeOK'
<1> SUFFICES ASSUME TypedOrder, Parser PROVE TypeOK'
    OBVIOUS
<1> USE MaxRequestsAssumption, HighWaterAssumption
<1> USE DEF TypedOrder, TypeOK, Requests, transportVars, loopVars, protoVars,
            flowVars, callVars, responseVars, bodyVars
<1>1. CASE DataReceived
    BY <1>1 DEF DataReceived
<1>2. CASE FeedEnds
    BY <1>2 DEF FeedEnds
<1>3. CASE OnHeadersComplete
  <2>1. cur + 1 \in Requests
    BY <1>3 DEF OnHeadersComplete
  <2>2. pipeline' \in Seq(Requests)
    <3>1. Append(pipeline, cur + 1) \in Seq(Requests)
      BY <2>1, QueueAppend
    <3>2. QED
      BY <1>3, <3>1 DEF OnHeadersComplete
  <2>3. /\ phase' \in [Requests -> {"none", "queued", "app", "fail", "done"}]
        /\ readPaused' \in BOOLEAN
    BY <1>3, <2>1 DEF OnHeadersComplete
  <2>4. keepAlive' \in [Requests -> BOOLEAN]
    <3>1. PICK b \in BOOLEAN : keepAlive' = [keepAlive EXCEPT ![cur + 1] = b]
      BY <1>3 DEF OnHeadersComplete
    <3>2. QED
      BY <2>1, <3>1
  <2>5. waiting100' \in [Requests -> BOOLEAN]
    <3>1. PICK b \in BOOLEAN : waiting100' = [waiting100 EXCEPT ![cur + 1] = b]
      BY <1>3 DEF OnHeadersComplete
    <3>2. QED
      BY <2>1, <3>1
  <2>6. QED
    BY <1>3, <2>1, <2>2, <2>3, <2>4, <2>5 DEF OnHeadersComplete
<1>4. CASE OnBody
    BY <1>4 DEF OnBody, LatestComplete
<1>5. CASE OnMessageComplete
    BY <1>5 DEF OnMessageComplete, LatestComplete
<1>6. CASE ParserError
    BY <1>6 DEF ParserError, Write
<1>7. CASE HandleWebsocketUpgrade
    BY <1>7 DEF HandleWebsocketUpgrade
<1>8. QED
    BY <1>1, <1>2, <1>3, <1>4, <1>5, <1>6, <1>7 DEF Parser

\* Callbacks of the transport, the timer and the server.
LEMMA CallbacksTyped == TypedOrder /\ Callbacks => TypeOK'
<1> SUFFICES ASSUME TypedOrder, Callbacks PROVE TypeOK'
    OBVIOUS
<1> USE MaxRequestsAssumption, HighWaterAssumption
<1> USE DEF TypedOrder, TypeOK, Requests, transportVars, loopVars, protoVars,
            flowVars, callVars, responseVars, bodyVars
<1>0. Released \in [Requests -> {"idle", "drain", "drained"}]
    BY DEF Released
<1>1. CASE ResumeWriting
    BY <1>0, <1>1 DEF ResumeWriting
<1>2. CASE EofReceived
    BY <1>2 DEF EofReceived
<1>3. CASE TransportFails
    BY <1>3 DEF TransportFails
<1>4. CASE ConnectionLost
  <2>1. disconnected' \in [Requests -> BOOLEAN] /\ event' \in [Requests -> BOOLEAN]
    BY <1>4 DEF ConnectionLost, LatestToldOfLoss
  <2>2. QED
    BY <1>0, <1>4, <2>1 DEF ConnectionLost
<1>5. CASE ConnectionLostUpgraded
    BY <1>5 DEF ConnectionLostUpgraded
<1>6. CASE TimeoutKeepAliveHandler
    BY <1>6 DEF TimeoutKeepAliveHandler, Closing
<1>7. CASE Shutdown
    BY <1>7 DEF Shutdown, Closing, LatestComplete
<1>8. QED
    BY <1>1, <1>2, <1>3, <1>4, <1>5, <1>6, <1>7 DEF Callbacks

\* A message taken by receive().
LEMMA TakeMessageTyped ==
    ASSUME TypeOK, NEW i \in Requests, TakeMessage(i)
    PROVE  /\ event' \in [Requests -> BOOLEAN]
           /\ body' \in [Requests -> 0 .. HighWater + 1]
           /\ gotEnd' \in [Requests -> BOOLEAN]
<1>1. event' \in [Requests -> BOOLEAN]
    BY DEF TakeMessage, TypeOK
<1>2. body' \in [Requests -> 0 .. HighWater + 1]
  <2>1. 0 \in 0 .. HighWater + 1
    BY HighWaterAssumption
  <2>2. body' = body \/ body' = [body EXCEPT ![i] = 0]
    BY DEF TakeMessage
  <2>3. QED
    BY <2>1, <2>2 DEF TypeOK
<1>3. gotEnd' \in [Requests -> BOOLEAN]
  <2>1. CASE disconnected[i] \/ complete[i]
    BY <2>1 DEF TakeMessage, TypeOK
  <2>2. CASE ~(disconnected[i] \/ complete[i])
    <3>1. (gotEnd[i] \/ ~moreBody[i]) \in BOOLEAN
      OBVIOUS
    <3>2. QED
      BY <2>2, <3>1 DEF TakeMessage, TypeOK
  <2>3. QED
    BY <2>1, <2>2
<1>4. QED
    BY <1>1, <1>2, <1>3

\* The end of an application.
LEMMA RunAsgiTyped ==
    ASSUME TypeOK, NEW i \in Requests, NEW ph \in {"fail", "done"},
           NEW close \in BOOLEAN, RunAsgiEnds(i, ph, close)
    PROVE  TypeOK'
BY DEF RunAsgiEnds, Closing, TypeOK, transportVars, loopVars, protoVars,
       flowVars, responseVars, bodyVars

\* Steps of an application task.
LEMMA TaskTyped ==
    ASSUME TypedOrder, NEW i \in Requests, Task(i)
    PROVE  TypeOK'
<1> USE MaxRequestsAssumption, HighWaterAssumption
<1> USE DEF TypedOrder, TypeOK, transportVars, loopVars, protoVars,
            flowVars, callVars, responseVars, bodyVars
<1>1. CASE Receive(i)
  <2>1. /\ event' \in [Requests -> BOOLEAN]
        /\ body' \in [Requests -> 0 .. HighWater + 1]
        /\ gotEnd' \in [Requests -> BOOLEAN]
        /\ recv' \in [Requests -> {"idle", "wait"}]
    BY <1>1, TakeMessageTyped DEF Receive
  <2>2. /\ writePaused' \in BOOLEAN
        /\ waiting100' \in [Requests -> BOOLEAN]
        /\ readPaused' \in BOOLEAN
    BY <1>1 DEF Receive, Write, ResumeReading
  <2>3. QED
    BY <1>1, <2>1, <2>2 DEF Receive
<1>2. CASE ReceiveWakes(i)
    BY <1>2, TakeMessageTyped DEF ReceiveWakes
<1>3. CASE ReceiveCancelled(i)
    BY <1>3 DEF ReceiveCancelled
<1>4. CASE SendWaits(i)
    BY <1>4 DEF SendWaits
<1>5. CASE SendReturns(i)
    BY <1>5 DEF SendReturns
<1>6. CASE SendBody(i)
    BY <1>6 DEF SendBody, Write
<1>7. CASE SendLast(i)
  <2>1. total' \in 0 .. MaxRequests
    BY <1>7 DEF SendLast, OnResponseComplete, CountRequest, OrderInv, Requests
  <2>2. conn' \in {"open", "closing", "lost"}
    BY <1>7 DEF SendLast, Closing
  <2>3. /\ timer' \in BOOLEAN /\ readPaused' \in BOOLEAN
        /\ writePaused' \in BOOLEAN
    BY <1>7 DEF SendLast, OnResponseComplete, ResumeReading, Write
  <2>4. /\ phase' \in [Requests -> {"none", "queued", "app", "fail", "done"}]
        /\ pipeline' \in Seq(Requests)
    <3> DEFINE ph == [phase EXCEPT ![i] = IF @ = "fail" THEN "done" ELSE @]
    <3>1. ph \in [Requests -> {"none", "queued", "app", "fail", "done"}]
      OBVIOUS
    <3>2. CASE ~GoesOn(conn') \/ pipeline = <<>>
      BY <1>7, <3>1, <3>2 DEF SendLast, OnResponseComplete, StartNext
    <3>3. CASE GoesOn(conn') /\ pipeline # <<>>
      <4>1. /\ phase' = [ph EXCEPT ![Head(pipeline)] = "app"]
            /\ pipeline' = Tail(pipeline)
        BY <1>7, <3>3 DEF SendLast, OnResponseComplete, StartNext
      <4>2. Head(pipeline) \in Requests /\ Tail(pipeline) \in Seq(Requests)
        BY <3>3, QueueTail
      <4> HIDE DEF ph
      <4>3. QED
        BY <3>1, <4>1, <4>2
    <3>4. QED
      BY <3>2, <3>3
  <2>5. QED
    BY <1>7, <2>1, <2>2, <2>3, <2>4 DEF SendLast
<1>8. ASSUME NEW close \in BOOLEAN, NEW valid \in BOOLEAN,
             SendStart(i, close, valid)
      PROVE  TypeOK'
  <2>1. keepAlive' \in [Requests -> BOOLEAN]
    BY <1>8 DEF SendStart, KeepAliveAfter
  <2>2. writePaused' \in BOOLEAN
    BY <1>8 DEF SendStart, Write
  <2>3. QED
    BY <1>8, <2>1, <2>2 DEF SendStart
<1>9. CASE AppRaises(i)
    BY <1>9, RunAsgiTyped DEF AppRaises
<1>10. CASE AppReturnsValue(i)
    BY <1>10, RunAsgiTyped DEF AppReturnsValue
<1>11. CASE AppReturnsNone(i)
  <2>1. (~complete[i] /\ ~disconnected[i]) \in BOOLEAN
    OBVIOUS
  <2>2. QED
    BY <1>11, <2>1, RunAsgiTyped DEF AppReturnsNone
<1>12. CASE FailDropped(i)
    BY <1>12, RunAsgiTyped DEF FailDropped
<1>13. QED
    BY <1>1, <1>2, <1>3, <1>4, <1>5, <1>6, <1>7, <1>8, <1>9, <1>10, <1>11,
       <1>12 DEF Task, Sends

-----------------------------------------------------------------------------
(* OrderInv is kept.                                                       *)

\* Most steps touch nothing that OrderInv speaks of.
LEMMA OrderFrame ==
    OrderInv /\ UNCHANGED <<cur, pipeline, total, phase, started, complete>>
        => OrderInv'
BY DEF OrderInv, Served

LEMMA ParserOrder == TypedOrder /\ Parser => OrderInv'
<1> SUFFICES ASSUME TypedOrder, Parser PROVE OrderInv'
    OBVIOUS
<1> USE DEF TypedOrder
<1>1. CASE OnHeadersComplete
  <2> USE <1>1 DEF OnHeadersComplete
  <2>1. /\ cur \in 0 .. MaxRequests /\ cur + 1 \in Requests
        /\ total \in 0 .. MaxRequests
        /\ pipeline \in Seq(Requests) /\ Len(pipeline) \in Nat
        /\ phase \in [Requests -> {"none", "queued", "app", "fail", "done"}]
    BY LenProperties, MaxRequestsAssumption DEF TypeOK, Requests
  <2>2. cur' = cur + 1 /\ UNCHANGED <<total, started, complete>>
    BY DEF responseVars
  <2>3. CASE LatestComplete
    <3>1. /\ phase' = [phase EXCEPT ![cur + 1] = "app"]
          /\ pipeline' = pipeline
      BY <2>3
    <3>2. cur = 0 \/ (cur \in Requests /\ cur <= total)
      BY <2>1, <2>3 DEF LatestComplete, OrderInv, Requests
    <3>3. Len(pipeline) = 0 /\ Served = total /\ Served' = Served + 1
      BY <2>1, <2>2, <3>1, <3>2 DEF OrderInv, Served
    <3>4. QED
      BY <2>1, <2>2, <3>1, <3>3 DEF OrderInv, Requests, Served
  <2>4. CASE ~LatestComplete
    <3>1. /\ phase' = [phase EXCEPT ![cur + 1] = "queued"]
          /\ pipeline' = Append(pipeline, cur + 1)
      BY <2>4
    <3>2. Served' = Served
      BY <2>1, <2>2, <3>1, QueueAppend DEF Served
    <3>3. \A k \in 1 .. Len(pipeline') : pipeline'[k] = Served' + k
      <4>1. TAKE k \in 1 .. Len(pipeline')
      <4>2. Len(pipeline') = Len(pipeline) + 1
        BY <2>1, <3>1, QueueAppend
      <4>3. CASE k <= Len(pipeline)
        BY <2>1, <3>1, <3>2, <4>1, <4>3, QueueAppend DEF OrderInv
      <4>4. CASE k = Len(pipeline) + 1
        BY <2>1, <3>1, <3>2, <4>4, QueueAppend DEF Served
      <4>5. QED
        BY <2>1, <4>1, <4>2, <4>3, <4>4
    <3>4. QED
      BY <2>1, <2>2, <3>1, <3>2, <3>3, QueueAppend DEF OrderInv, Requests, Served
  <2>5. QED
    BY <2>3, <2>4
<1>2. CASE Parser /\ ~OnHeadersComplete
  <2>1. UNCHANGED <<cur, pipeline, total, phase, started, complete>>
    BY <1>2 DEF Parser, DataReceived, FeedEnds, OnBody, OnMessageComplete,
       ParserError, HandleWebsocketUpgrade, protoVars, callVars, responseVars
  <2>2. QED
    BY <2>1, OrderFrame
<1>3. QED
    BY <1>1, <1>2

LEMMA CallbacksOrder == TypedOrder /\ Callbacks => OrderInv'
<1> SUFFICES ASSUME TypedOrder, Callbacks PROVE OrderInv'
    OBVIOUS
<1>1. UNCHANGED <<cur, pipeline, total, phase, started, complete>>
    BY DEF Callbacks, ResumeWriting, EofReceived, TransportFails,
       ConnectionLost, ConnectionLostUpgraded, TimeoutKeepAliveHandler,
       Shutdown, protoVars, callVars, responseVars
<1>2. QED
    BY <1>1, OrderFrame DEF TypedOrder

\* A task that ends, or runs send_500_response, was already served.
LEMMA RunAsgiOrder ==
    ASSUME TypedOrder, NEW i \in Requests, phase[i] \in {"app", "fail"},
           NEW ph \in {"fail", "done"},
           UNCHANGED <<cur, pipeline, total, started, complete>>,
           phase' = [phase EXCEPT ![i] = ph]
    PROVE  OrderInv'
BY DEF TypedOrder, TypeOK, OrderInv, Served

LEMMA TaskOrder ==
    ASSUME TypedOrder, NEW i \in Requests, Task(i)
    PROVE  OrderInv'
<1> USE DEF TypedOrder
<1>1. CASE SendLast(i)
  <2> DEFINE ph == [phase EXCEPT ![i] = IF @ = "fail" THEN "done" ELSE @]
  <2>1. /\ cur \in 0 .. MaxRequests /\ total \in 0 .. MaxRequests
        /\ pipeline \in Seq(Requests) /\ Len(pipeline) \in Nat
        /\ phase \in [Requests -> {"none", "queued", "app", "fail", "done"}]
        /\ started \in [Requests -> BOOLEAN] /\ complete \in [Requests -> BOOLEAN]
    BY LenProperties DEF TypeOK
  <2>2. /\ started[i] /\ ~complete[i] /\ phase[i] \in {"app", "fail"}
        /\ total' = total + 1 /\ UNCHANGED <<cur, started>>
        /\ complete' = [complete EXCEPT ![i] = TRUE]
    BY <1>1 DEF SendLast, CanSend, OnResponseComplete, CountRequest
  <2>3. i = total + 1 /\ i = Served
    <3>1. Served \in Int /\ i \in Nat
      BY <2>1 DEF Served, Requests
    <3>2. i <= Served
      BY <2>2 DEF OrderInv
    <3>3. ~(i <= total)
      BY <2>2 DEF OrderInv
    <3>4. Served <= total + 1
      BY DEF OrderInv
    <3>5. QED
      BY <2>1, <3>1, <3>2, <3>3, <3>4
  <2>4. \A j \in Requests : complete'[j] <=> j <= total'
    BY <2>1, <2>2, <2>3 DEF OrderInv, Requests
  <2>5. /\ ph \in [Requests -> {"none", "queued", "app", "fail", "done"}]
        /\ \A j \in Requests : ph[j] = "none" <=> phase[j] = "none"
        /\ \A j \in Requests : ph[j] = "queued" <=> phase[j] = "queued"
    BY <2>1, <2>2
  <2>6. CASE UNCHANGED pipeline /\ phase' = ph
    BY <2>1, <2>2, <2>3, <2>4, <2>5, <2>6 DEF OrderInv, Served
  <2>7. CASE /\ pipeline # <<>>
             /\ phase' = [ph EXCEPT ![Head(pipeline)] = "app"]
             /\ pipeline' = Tail(pipeline)
    <3> HIDE DEF ph
    <3>1. /\ Len(pipeline') = Len(pipeline) - 1 /\ Len(pipeline) >= 1
          /\ \A k \in 1 .. Len(pipeline') : pipeline'[k] = pipeline[k + 1]
          /\ Head(pipeline) = pipeline[1] /\ Head(pipeline) \in Requests
      BY <2>1, <2>7, QueueTail
    <3>2. Head(pipeline) = Served + 1 /\ Served' = Served + 1
      BY <2>1, <2>2, <3>1 DEF OrderInv, Served
    <3>3. \A k \in 1 .. Len(pipeline') : pipeline'[k] = Served' + k
      BY <2>1, <3>1, <3>2 DEF OrderInv, Served
    <3>4. \A j \in Requests : phase'[j] = "none" <=> j > cur'
      BY <2>1, <2>2, <2>5, <2>7, <3>1, <3>2 DEF OrderInv, Served
    <3>5. \A j \in Requests : phase'[j] = "queued" <=> Served' < j /\ j <= cur'
      BY <2>1, <2>2, <2>5, <2>7, <3>1, <3>2 DEF OrderInv, Served, Requests
    <3>6. QED
      <4>1. total' <= Served' /\ Served' <= total' + 1 /\ Served \in Int
        BY <2>1, <2>2, <2>3, <3>2 DEF Served, Requests
      <4>2. \A j \in Requests : started'[j] => j <= Served'
        BY <2>2, <3>2, <4>1 DEF OrderInv, Requests
      <4>3. \A j \in Requests : complete'[j] => started'[j]
        BY <2>1, <2>2 DEF OrderInv
      <4>4. Len(pipeline') <= cur'
        BY <2>1, <2>2, <3>1 DEF OrderInv
      <4>5. QED
        BY <2>4, <3>3, <3>4, <3>5, <4>1, <4>2, <4>3, <4>4 DEF OrderInv
  <2>8. QED
    BY <1>1, <2>6, <2>7 DEF SendLast, OnResponseComplete, StartNext
<1>2. ASSUME NEW close \in BOOLEAN, NEW valid \in BOOLEAN,
             SendStart(i, close, valid)
      PROVE  OrderInv'
  <2>1. /\ UNCHANGED <<cur, pipeline, total, phase, complete>>
        /\ started' = [started EXCEPT ![i] = TRUE]
        /\ phase[i] \in {"app", "fail"}
    BY <1>2 DEF SendStart, CanSend, protoVars
  <2>2. i <= Served
    BY <2>1, LenProperties DEF OrderInv, TypeOK, Served, Requests
  <2>3. QED
    BY <2>1, <2>2 DEF OrderInv, TypeOK, Served
<1>3. CASE AppRaises(i)
    BY <1>3, RunAsgiOrder DEF AppRaises, RunAsgiEnds, protoVars, responseVars
<1>4. CASE AppReturnsValue(i)
    BY <1>4, RunAsgiOrder DEF AppReturnsValue, RunAsgiEnds, protoVars, responseVars
<1>5. CASE AppReturnsNone(i)
    BY <1>5, RunAsgiOrder DEF AppReturnsNone, RunAsgiEnds, protoVars, responseVars
<1>6. CASE FailDropped(i)
    BY <1>6, RunAsgiOrder DEF FailDropped, RunAsgiEnds, protoVars, responseVars
<1>7. CASE \/ Receive(i) \/ ReceiveWakes(i) \/ ReceiveCancelled(i)
           \/ SendWaits(i) \/ SendReturns(i) \/ SendBody(i)
  <2>1. UNCHANGED <<cur, pipeline, total, phase, started, complete>>
    BY <1>7 DEF Receive, ReceiveWakes, ReceiveCancelled, SendWaits,
       SendReturns, SendBody, protoVars, responseVars
  <2>2. QED
    BY <2>1, OrderFrame
<1>8. QED
    BY <1>1, <1>2, <1>3, <1>4, <1>5, <1>6, <1>7 DEF Task, Sends

\* Types and order are kept by every step.
LEMMA TypedOrderStep == TypedOrder /\ [Next]_vars => TypedOrder'
<1> SUFFICES ASSUME TypedOrder, [Next]_vars PROVE TypedOrder'
    OBVIOUS
<1>1. CASE Parser
    BY <1>1, ParserTyped, ParserOrder DEF TypedOrder
<1>2. CASE Callbacks
    BY <1>2, CallbacksTyped, CallbacksOrder DEF TypedOrder
<1>3. ASSUME NEW i \in Requests, Task(i) PROVE TypedOrder'
    BY <1>3, TaskTyped, TaskOrder DEF TypedOrder
<1>4. CASE UNCHANGED vars
    BY <1>4 DEF vars, transportVars, loopVars, protoVars, flowVars, callVars,
       responseVars, bodyVars, TypedOrder, TypeOK, OrderInv, Served
<1>5. QED
    BY <1>1, <1>2, <1>3, <1>4 DEF Next

-----------------------------------------------------------------------------
(* The connection and the request in service.                              *)

\* The parser runs on an open connection, outside send_500_response.
LoopInv ==
    feeding => /\ conn = "open"
               /\ \A i \in Requests : ~(phase[i] = "fail" /\ snd[i] = "idle")

\* With a queue, or with reading paused, some request is in service.
BusyInv ==
    conn = "open" /\ (pipeline # <<>> \/ readPaused) => total < Served

\* A cycle told of the loss; an application that ended early.
EndInv ==
    \A i \in Requests :
        /\ disconnected[i] => conn = "lost"
        /\ phase[i] = "done" => complete[i] \/ conn # "open"

ServiceInv == TypedOrder /\ LoopInv /\ BusyInv /\ EndInv

\* Tasks and callbacks run when the parser does not.
LEMMA TaskNotFeeding ==
    ASSUME LoopInv, NEW i \in Requests, Task(i)
    PROVE  ~feeding /\ ~feeding'
BY DEF LoopInv, Task, Sends, Free, Receive, ReceiveWakes, ReceiveCancelled,
       SendWaits, SendReturns, SendBody, SendLast, SendStart, CanSend,
       AppRaises, AppReturnsValue, AppReturnsNone, FailDropped, RunAsgiEnds,
       loopVars

LEMMA CallbacksNotFeeding == Callbacks => ~feeding /\ ~feeding'
BY DEF Callbacks, Free, ResumeWriting, EofReceived, TransportFails,
       ConnectionLost, ConnectionLostUpgraded, TimeoutKeepAliveHandler,
       Shutdown, loopVars

\* LoopInv is kept.
LEMMA LoopStep == TypedOrder /\ LoopInv /\ [Next]_vars => LoopInv'
<1> SUFFICES ASSUME TypedOrder, LoopInv, [Next]_vars PROVE LoopInv'
    OBVIOUS
<1>1. CASE Parser
  <2>1. CASE OnHeadersComplete
    <3>1. cur + 1 \in Requests /\ phase \in [Requests -> {"none", "queued", "app", "fail", "done"}]
      BY <2>1, MaxRequestsAssumption
         DEF OnHeadersComplete, TypedOrder, TypeOK, Requests
    <3>2. phase' = [phase EXCEPT ![cur + 1] = "app"]
            \/ phase' = [phase EXCEPT ![cur + 1] = "queued"]
      BY <2>1 DEF OnHeadersComplete
    <3>3. feeding /\ UNCHANGED <<conn, snd>>
      BY <2>1 DEF OnHeadersComplete, transportVars
    <3>4. QED
      BY <3>1, <3>2, <3>3 DEF LoopInv
  <2>2. CASE DataReceived
    BY <2>2 DEF DataReceived, Free, LoopInv, transportVars, callVars
  <2>3. CASE OnBody \/ OnMessageComplete
    BY <2>3 DEF OnBody, OnMessageComplete, LoopInv, transportVars, loopVars,
       callVars
  <2>4. CASE FeedEnds \/ ParserError \/ HandleWebsocketUpgrade
    BY <2>4 DEF FeedEnds, ParserError, HandleWebsocketUpgrade, LoopInv
  <2>5. QED
    BY <1>1, <2>1, <2>2, <2>3, <2>4 DEF Parser
<1>2. CASE Callbacks
    BY <1>2, CallbacksNotFeeding DEF LoopInv
<1>3. ASSUME NEW i \in Requests, Task(i) PROVE LoopInv'
    BY <1>3, TaskNotFeeding DEF LoopInv
<1>4. CASE UNCHANGED vars
    BY <1>4 DEF vars, transportVars, loopVars, callVars, LoopInv
<1>5. QED
    BY <1>1, <1>2, <1>3, <1>4 DEF Next

\* What closes stays closed, what is lost stays lost.
LEMMA ConnMonotone ==
    TypedOrder /\ LoopInv /\ [Next]_vars
        => (conn # "open" => conn' # "open") /\ (conn = "lost" => conn' = "lost")
<1> SUFFICES ASSUME TypedOrder, LoopInv, [Next]_vars
             PROVE  /\ conn # "open" => conn' # "open"
                    /\ conn = "lost" => conn' = "lost"
    OBVIOUS
<1> USE DEF Closing
<1>1. CASE Parser
    BY <1>1 DEF Parser, DataReceived, FeedEnds, OnHeadersComplete, OnBody,
       OnMessageComplete, ParserError, HandleWebsocketUpgrade, LoopInv,
       transportVars
<1>2. CASE Callbacks
    BY <1>2 DEF Callbacks, ResumeWriting, EofReceived, TransportFails,
       ConnectionLost, ConnectionLostUpgraded, TimeoutKeepAliveHandler,
       Shutdown, transportVars
<1>3. ASSUME NEW i \in Requests, Task(i)
      PROVE  /\ conn # "open" => conn' # "open"
             /\ conn = "lost" => conn' = "lost"
    BY <1>3 DEF Task, Sends, Receive, ReceiveWakes, ReceiveCancelled,
       SendWaits, SendReturns, SendBody, SendLast, SendStart, AppRaises,
       AppReturnsValue, AppReturnsNone, FailDropped, RunAsgiEnds, transportVars
<1>4. CASE UNCHANGED vars
    BY <1>4 DEF vars, transportVars
<1>5. QED
    BY <1>1, <1>2, <1>3, <1>4 DEF Next

\* Steps that do not pause reading, queue or complete keep BusyInv.
LEMMA BusyFrame ==
    /\ BusyInv /\ (conn # "open" => conn' # "open")
    /\ readPaused' => readPaused
    /\ UNCHANGED <<pipeline, total, cur>>
    => BusyInv'
BY DEF BusyInv, Served

\* If the latest request is not complete on an open connection, some request
\* is in service.
LEMMA LatestInService ==
    TypedOrder /\ BusyInv /\ conn = "open" /\ ~LatestComplete => total < Served
<1> SUFFICES ASSUME TypedOrder, BusyInv, conn = "open", ~LatestComplete
             PROVE  total < Served
    OBVIOUS
<1>1. cur \in Requests /\ total \in Nat /\ pipeline \in Seq(Requests)
    BY MaxRequestsAssumption DEF TypedOrder, TypeOK, LatestComplete, Requests
<1>2. ~(cur <= total)
    BY <1>1 DEF TypedOrder, OrderInv, LatestComplete
<1>3. CASE pipeline = <<>>
    BY <1>1, <1>2, <1>3, EmptySeq DEF Served, Requests
<1>4. CASE pipeline # <<>>
    BY <1>4 DEF BusyInv
<1>5. QED
    BY <1>3, <1>4

\* BusyInv is kept.
LEMMA BusyStep ==
    TypedOrder /\ LoopInv /\ BusyInv /\ [Next]_vars => BusyInv'
<1> SUFFICES ASSUME TypedOrder, LoopInv, BusyInv, [Next]_vars PROVE BusyInv'
    OBVIOUS
<1> USE ConnMonotone
<1>1. CASE OnHeadersComplete
  <2>1. /\ conn = "open" /\ cur' = cur + 1 /\ total' = total
        /\ cur \in Nat /\ total \in Nat
        /\ pipeline \in Seq(Requests) /\ Len(pipeline) \in Nat
    BY <1>1, LenProperties
       DEF OnHeadersComplete, LoopInv, TypedOrder, TypeOK
  <2>2. CASE LatestComplete
    <3>1. pipeline' = pipeline /\ Served' = Served + 1
      BY <1>1, <2>1, <2>2 DEF OnHeadersComplete, Served
    <3>2. total <= Served /\ Served \in Int
      BY <2>1 DEF TypedOrder, OrderInv, Served
    <3>3. QED
      BY <2>1, <3>1, <3>2 DEF BusyInv
  <2>3. CASE ~LatestComplete
    <3>1. total < Served
      BY <2>1, <2>3, LatestInService
    <3>2. cur + 1 \in Requests
      BY <1>1, <2>1, MaxRequestsAssumption DEF OnHeadersComplete, Requests
    <3>3. pipeline' = Append(pipeline, cur + 1)
      BY <1>1, <2>3 DEF OnHeadersComplete
    <3>4. Served' = Served
      BY <2>1, <3>2, <3>3, QueueAppend DEF Served
    <3>5. QED
      BY <2>1, <3>1, <3>4 DEF BusyInv
  <2>4. QED
    BY <2>2, <2>3
<1>2. CASE OnBody
  <2>1. conn = "open" /\ UNCHANGED <<pipeline, total, cur>>
    BY <1>2 DEF OnBody, LoopInv, protoVars
  <2>2. total < Served
    BY <1>2, <2>1, LatestInService DEF OnBody
  <2>3. QED
    BY <2>1, <2>2 DEF BusyInv, Served
<1>3. CASE Parser /\ ~OnHeadersComplete /\ ~OnBody
    BY <1>3, BusyFrame DEF Parser, DataReceived, FeedEnds, OnMessageComplete,
       ParserError, HandleWebsocketUpgrade, protoVars, flowVars
<1>4. CASE Callbacks
    BY <1>4, BusyFrame DEF Callbacks, ResumeWriting, EofReceived,
       TransportFails, ConnectionLost, ConnectionLostUpgraded,
       TimeoutKeepAliveHandler, Shutdown, protoVars, flowVars
<1>5. ASSUME NEW i \in Requests, SendLast(i) PROVE BusyInv'
  <2>1. CASE GoesOn(conn') /\ pipeline # <<>>
    <3>1. pipeline' = Tail(pipeline) /\ total' = total + 1 /\ cur' = cur
      BY <1>5, <2>1 DEF SendLast, OnResponseComplete, StartNext, CountRequest
    <3>2. /\ pipeline \in Seq(Requests) /\ Len(pipeline) \in Nat
          /\ cur \in Nat /\ total \in Nat
      BY LenProperties DEF TypedOrder, TypeOK
    <3>3. Served' = Served + 1
      BY <2>1, <3>1, <3>2, QueueTail DEF Served
    <3>4. conn = "open"
      BY <2>1 DEF GoesOn
    <3>5. total < Served /\ Served \in Int
      BY <2>1, <3>2, <3>4 DEF BusyInv, Served
    <3>6. QED
      BY <3>1, <3>2, <3>3, <3>5 DEF BusyInv
  <2>2. CASE GoesOn(conn') /\ pipeline = <<>>
    BY <1>5, <2>2 DEF SendLast, OnResponseComplete, StartNext, ResumeReading,
       BusyInv
  <2>3. CASE ~GoesOn(conn')
    BY <2>3 DEF GoesOn, BusyInv
  <2>4. QED
    BY <2>1, <2>2, <2>3
<1>6. ASSUME NEW i \in Requests, Task(i), ~SendLast(i) PROVE BusyInv'
  <2>1. UNCHANGED <<pipeline, total, cur>> /\ (readPaused' => readPaused)
    BY <1>6 DEF Task, Sends, Receive, ReceiveWakes, ReceiveCancelled,
       SendWaits, SendReturns, SendBody, SendStart, AppRaises,
       AppReturnsValue, AppReturnsNone, FailDropped, RunAsgiEnds, protoVars,
       flowVars, ResumeReading
  <2>2. QED
    BY <2>1, BusyFrame
<1>7. CASE UNCHANGED vars
    BY <1>7, BusyFrame DEF vars, protoVars, flowVars
<1>8. QED
    BY <1>1, <1>2, <1>3, <1>4, <1>5, <1>6, <1>7 DEF Next

\* EndInv is kept: only the loss of the connection disconnects, and
\* an application that ends without a complete response closes.
LEMMA EndStep ==
    TypedOrder /\ LoopInv /\ EndInv /\ [Next]_vars => EndInv'
<1> SUFFICES ASSUME TypedOrder, LoopInv, EndInv, [Next]_vars PROVE EndInv'
    OBVIOUS
<1> USE ConnMonotone
<1>0. /\ phase \in [Requests -> {"none", "queued", "app", "fail", "done"}]
      /\ complete \in [Requests -> BOOLEAN]
    BY DEF TypedOrder, TypeOK
<1>1. CASE OnHeadersComplete
  <2>1. cur + 1 \in Requests
    BY <1>1, MaxRequestsAssumption
       DEF OnHeadersComplete, TypedOrder, TypeOK, Requests
  <2>2. \A i \in Requests : phase'[i] = "done" => phase[i] = "done"
    BY <1>0, <1>1, <2>1 DEF OnHeadersComplete
  <2>3. UNCHANGED <<disconnected, complete, conn>>
    BY <1>1 DEF OnHeadersComplete, transportVars
  <2>4. QED
    BY <2>2, <2>3 DEF EndInv
<1>2. CASE Parser /\ ~OnHeadersComplete
  <2>1. UNCHANGED <<disconnected, complete, phase>>
    BY <1>2 DEF Parser, DataReceived, FeedEnds, OnBody, OnMessageComplete,
       ParserError, HandleWebsocketUpgrade, responseVars, callVars
  <2>2. QED
    BY <2>1 DEF EndInv
<1>3. CASE ConnectionLost
    BY <1>3 DEF ConnectionLost, EndInv
<1>4. CASE Callbacks /\ ~ConnectionLost
  <2>1. UNCHANGED <<disconnected, complete, phase>>
    BY <1>4 DEF Callbacks, ResumeWriting, EofReceived, TransportFails,
       ConnectionLostUpgraded, TimeoutKeepAliveHandler, Shutdown,
       responseVars, callVars
  <2>2. QED
    BY <2>1 DEF EndInv
<1>5. ASSUME NEW i \in Requests, SendLast(i) PROVE EndInv'
  <2>1. /\ disconnected' = disconnected
        /\ complete' = [complete EXCEPT ![i] = TRUE]
    BY <1>5 DEF SendLast
  <2>2. \A j \in Requests : phase'[j] = "done" => phase[j] = "done" \/ j = i
    <3> DEFINE ph == [phase EXCEPT ![i] = IF @ = "fail" THEN "done" ELSE @]
    <3>1. /\ ph \in [Requests -> {"none", "queued", "app", "fail", "done"}]
          /\ \A j \in Requests : ph[j] = "done" => phase[j] = "done" \/ j = i
      BY <1>0
    <3>2. CASE phase' = ph
      BY <3>1, <3>2
    <3>3. CASE phase' = [ph EXCEPT ![Head(pipeline)] = "app"]
      <4> HIDE DEF ph
      <4>1. QED
        BY <3>1, <3>3
    <3>4. QED
      BY <1>5, <3>2, <3>3 DEF SendLast, OnResponseComplete, StartNext
  <2>3. QED
    BY <1>0, <2>1, <2>2 DEF EndInv
<1>6. ASSUME NEW i \in Requests, NEW ph \in {"fail", "done"},
             NEW close \in BOOLEAN, RunAsgiEnds(i, ph, close),
             ph = "done" => close \/ complete[i] \/ disconnected[i]
      PROVE  EndInv'
  <2>1. /\ UNCHANGED <<disconnected, complete>>
        /\ phase' = [phase EXCEPT ![i] = ph]
        /\ close => conn' # "open"
    BY <1>6 DEF RunAsgiEnds, Closing, responseVars
  <2>2. QED
    BY <1>0, <1>6, <2>1 DEF EndInv
<1>7. ASSUME NEW i \in Requests,
             \/ AppRaises(i) \/ AppReturnsValue(i) \/ AppReturnsNone(i)
             \/ FailDropped(i)
      PROVE  EndInv'
  <2>1. (~complete[i] /\ ~disconnected[i]) \in BOOLEAN
    OBVIOUS
  <2>2. QED
    BY <1>6, <1>7, <2>1
       DEF AppRaises, AppReturnsValue, AppReturnsNone, FailDropped
<1>8. ASSUME NEW i \in Requests, Task(i), ~SendLast(i),
             ~(\/ AppRaises(i) \/ AppReturnsValue(i) \/ AppReturnsNone(i)
               \/ FailDropped(i))
      PROVE  EndInv'
  <2>1. UNCHANGED <<disconnected, complete, phase>>
    BY <1>8 DEF Task, Sends, Receive, ReceiveWakes, ReceiveCancelled,
       SendWaits, SendReturns, SendBody, SendStart, responseVars
  <2>2. QED
    BY <2>1 DEF EndInv
<1>9. CASE UNCHANGED vars
    BY <1>9 DEF vars, transportVars, callVars, responseVars, EndInv
<1>10. QED
    BY <1>1, <1>2, <1>3, <1>4, <1>5, <1>7, <1>8, <1>9 DEF Next

LEMMA InitService == Init => ServiceInv
BY InitTypedOrder DEF Init, ServiceInv, LoopInv, BusyInv, EndInv

\* The inductive invariant holds of every reachable state.
THEOREM ServiceInvariant == Spec => []ServiceInv
<1>1. ServiceInv /\ [Next]_vars => ServiceInv'
    BY TypedOrderStep, LoopStep, BusyStep, EndStep DEF ServiceInv
<1>2. QED
    BY InitService, <1>1, PTL DEF Spec

\* Every variable keeps its type; total stays within the requests sent.
THEOREM TypeCorrect == Spec => []TypeOK
<1>1. ServiceInv => TypeOK
    BY DEF ServiceInv, TypedOrder
<1>2. QED
    BY <1>1, ServiceInvariant, PTL

\* Requests are served, and responses started, in the order received.
THEOREM OrderSafety == Spec => []ServedInOrder
<1>1. ServiceInv => ServedInOrder
  <2>1. SUFFICES ASSUME ServiceInv, NEW j \in Requests,
                        started[j] \/ phase[j] \notin {"none", "queued"},
                        NEW i \in 1 .. (j - 1)
                 PROVE  complete[i]
    BY DEF ServedInOrder
  <2>2. cur \in Nat /\ total \in Nat /\ Len(pipeline) \in Nat
    BY <2>1, LenProperties DEF ServiceInv, TypedOrder, TypeOK
  <2>3. i \in Requests /\ i < j /\ i \in Nat /\ j \in Nat
    BY <2>1, MaxRequestsAssumption DEF Requests
  <2>4. j <= Served
    BY <2>1, <2>2, <2>3 DEF ServiceInv, TypedOrder, OrderInv, Served, Requests
  <2>5. i <= total
    BY <2>1, <2>2, <2>3, <2>4 DEF ServiceInv, TypedOrder, OrderInv, Served, Requests
  <2>6. QED
    BY <2>1, <2>2, <2>3, <2>5 DEF ServiceInv, TypedOrder, OrderInv
<1>2. QED
    BY <1>1, ServiceInvariant, PTL

\* A request after the last complete one is in service if the connection is open
\* and one has been handed out.
LEMMA OneInService ==
    ASSUME ServiceInv, conn = "open", total < Served
    PROVE  \E i \in Requests : InService(i)
<1>1. /\ cur \in 0 .. MaxRequests /\ total \in Nat /\ Len(pipeline) \in Nat
      /\ phase \in [Requests -> {"none", "queued", "app", "fail", "done"}]
    BY LenProperties DEF ServiceInv, TypedOrder, TypeOK
<1>2. Served = total + 1 /\ Served <= cur
    BY <1>1 DEF ServiceInv, TypedOrder, OrderInv, Served
<1>3. Served \in Requests
    BY <1>1, <1>2, MaxRequestsAssumption DEF Requests
<1>4. ~complete[Served] /\ phase[Served] \notin {"none", "queued"}
    BY <1>1, <1>2, <1>3 DEF ServiceInv, TypedOrder, OrderInv
<1>5. phase[Served] # "done"
    BY <1>3, <1>4 DEF ServiceInv, EndInv
<1>6. InService(Served)
    BY <1>1, <1>3, <1>4, <1>5 DEF InService
<1>7. QED
    BY <1>3, <1>6

\* A queued request on an open connection has a runner before it.
THEOREM QueueSafety == Spec => []QueueHasRunner
<1>1. ServiceInv => QueueHasRunner
    BY OneInService DEF ServiceInv, BusyInv, QueueHasRunner
<1>2. QED
    BY <1>1, ServiceInvariant, PTL

\* Reading paused on an open connection has someone to resume it.
THEOREM PauseSafety == Spec => []PausedHasResumer
<1>1. ServiceInv => PausedHasResumer
    BY OneInService DEF ServiceInv, BusyInv, PausedHasResumer
<1>2. QED
    BY <1>1, ServiceInvariant, PTL

\* An application that ends early never leaves the connection open.
THEOREM EndSafety == Spec => []NoSilentEnd
<1>1. ServiceInv => NoSilentEnd
    BY DEF ServiceInv, EndInv, NoSilentEnd
<1>2. QED
    BY <1>1, ServiceInvariant, PTL

-----------------------------------------------------------------------------
(* Back-pressure on writes.                                                *)

\* DrainHasCause is inductive: send() waits only on a paused flow, and the two
\* steps that make a flow writable release every waiter.
LEMMA DrainStep == TypeOK /\ DrainHasCause /\ [Next]_vars => DrainHasCause'
<1> SUFFICES ASSUME TypeOK, DrainHasCause, [Next]_vars PROVE DrainHasCause'
    OBVIOUS
<1>0. snd \in [Requests -> {"idle", "drain", "drained"}] /\ writePaused \in BOOLEAN
    BY DEF TypeOK
<1>1. CASE Parser
  <2>1. snd' = snd /\ (writePaused => writePaused')
    BY <1>1, <1>0 DEF Parser, DataReceived, FeedEnds, OnHeadersComplete, OnBody,
       OnMessageComplete, ParserError, HandleWebsocketUpgrade, Write, flowVars,
       callVars
  <2>2. QED
    BY <2>1 DEF DrainHasCause
<1>2. CASE ResumeWriting \/ ConnectionLost
  <2>1. \A i \in Requests : snd'[i] # "drain"
    BY <1>0, <1>2 DEF ResumeWriting, ConnectionLost, Released
  <2>2. QED
    BY <2>1 DEF DrainHasCause
<1>3. CASE EofReceived \/ TransportFails \/ ConnectionLostUpgraded
             \/ TimeoutKeepAliveHandler \/ Shutdown
    BY <1>3 DEF EofReceived, TransportFails, ConnectionLostUpgraded,
       TimeoutKeepAliveHandler, Shutdown, flowVars, callVars, DrainHasCause
<1>4. ASSUME NEW i \in Requests, Task(i) PROVE DrainHasCause'
  <2>1. CASE SendWaits(i)
    BY <1>0, <2>1 DEF SendWaits, flowVars, DrainHasCause
  <2>2. CASE ~SendWaits(i)
    <3>1. /\ snd' = snd \/ snd' = [snd EXCEPT ![i] = "idle"]
          /\ writePaused => writePaused'
      BY <1>0, <1>4, <2>2 DEF Task, Sends, Receive, ReceiveWakes,
         ReceiveCancelled, SendReturns, SendBody, SendLast, SendStart,
         AppRaises, AppReturnsValue, AppReturnsNone, FailDropped, RunAsgiEnds,
         Write, flowVars, callVars
    <3>2. QED
      BY <1>0, <3>1 DEF DrainHasCause
  <2>3. QED
    BY <2>1, <2>2
<1>5. CASE UNCHANGED vars
    BY <1>5 DEF vars, flowVars, callVars, DrainHasCause
<1>6. QED
    BY <1>1, <1>2, <1>3, <1>4, <1>5 DEF Next, Callbacks

\* No task waits in drain() on a writable flow (FlowControl, connection_lost).
THEOREM DrainSafety == Spec => []DrainHasCause
<1>1. Init => DrainHasCause
    BY DEF Init, DrainHasCause
<1>2. QED
    BY <1>1, DrainStep, TypeCorrect, PTL DEF Spec

-----------------------------------------------------------------------------
(* The graceful shutdown of a connection.                                  *)

\* A request that has arrived, is unanswered, and will close the connection.
ClosesLater(i) == i <= cur /\ ~complete[i] /\ ~keepAlive[i]

ShutInv == shutdownCalled /\ conn = "open" => \E i \in Requests : ClosesLater(i)

\* Steps that leave complete, keepAlive and shutdownCalled alone keep ShutInv.
LEMMA ShutFrame ==
    /\ ShutInv /\ (conn # "open" => conn' # "open")
    /\ UNCHANGED <<shutdownCalled, cur, complete, keepAlive>>
    => ShutInv'
BY DEF ShutInv, ClosesLater

\* ShutInv is kept.
LEMMA ShutStep ==
    TypedOrder /\ LoopInv /\ ShutInv /\ [Next]_vars => ShutInv'
<1> SUFFICES ASSUME TypedOrder, LoopInv, ShutInv, [Next]_vars PROVE ShutInv'
    OBVIOUS
<1> USE ConnMonotone
<1>0. /\ complete \in [Requests -> BOOLEAN] /\ keepAlive \in [Requests -> BOOLEAN]
      /\ cur \in 0 .. MaxRequests /\ \A i \in Requests : i \in Nat
    BY MaxRequestsAssumption DEF TypedOrder, TypeOK, Requests
<1>1. CASE OnHeadersComplete
  <2>1. PICK b \in BOOLEAN : keepAlive' = [keepAlive EXCEPT ![cur + 1] = b]
    BY <1>1 DEF OnHeadersComplete
  <2>2. \A i \in Requests : ClosesLater(i) => ClosesLater(i)'
    BY <1>0, <1>1, <2>1 DEF OnHeadersComplete, ClosesLater
  <2>3. UNCHANGED <<shutdownCalled, conn>>
    BY <1>1 DEF OnHeadersComplete, transportVars
  <2>4. QED
    BY <2>2, <2>3 DEF ShutInv
<1>2. CASE Parser /\ ~OnHeadersComplete
  <2>1. UNCHANGED <<shutdownCalled, cur, complete, keepAlive>>
    BY <1>2 DEF Parser, DataReceived, FeedEnds, OnBody, OnMessageComplete,
       ParserError, HandleWebsocketUpgrade, loopVars, protoVars, responseVars
  <2>2. QED
    BY <2>1, ShutFrame
<1>3. CASE Shutdown
  <2>1. CASE LatestComplete
    BY <1>3, <2>1 DEF Shutdown, Closing, ShutInv
  <2>2. CASE ~LatestComplete
    <3>1. cur \in Requests /\ ~complete[cur]
      BY <1>0, <2>2 DEF LatestComplete, Requests
    <3>2. /\ keepAlive' = [keepAlive EXCEPT ![cur] = FALSE]
          /\ UNCHANGED <<cur, complete>>
      BY <1>3, <2>2 DEF Shutdown, protoVars
    <3>3. ClosesLater(cur)'
      BY <1>0, <3>1, <3>2 DEF ClosesLater
    <3>4. QED
      BY <3>1, <3>2, <3>3 DEF ShutInv
  <2>3. QED
    BY <2>1, <2>2
<1>4. CASE Callbacks /\ ~Shutdown
  <2>1. UNCHANGED <<shutdownCalled, cur, complete, keepAlive>>
    BY <1>4 DEF Callbacks, ResumeWriting, EofReceived, TransportFails,
       ConnectionLost, ConnectionLostUpgraded, TimeoutKeepAliveHandler,
       loopVars, protoVars, responseVars
  <2>2. QED
    BY <2>1, ShutFrame
<1>5. ASSUME NEW i \in Requests, SendLast(i) PROVE ShutInv'
  <2>1. /\ UNCHANGED <<shutdownCalled, cur, keepAlive>>
        /\ complete' = [complete EXCEPT ![i] = TRUE]
        /\ ~keepAlive[i] => conn' # "open"
    BY <1>5 DEF SendLast, Closing, loopVars
  <2>2. SUFFICES ASSUME shutdownCalled, conn = "open", keepAlive[i]
                 PROVE  \E j \in Requests : ClosesLater(j)'
    BY <2>1 DEF ShutInv
  <2>3. PICK j \in Requests : ClosesLater(j)
    BY <2>2 DEF ShutInv
  <2>4. j # i /\ complete'[j] = complete[j]
    BY <1>0, <2>1, <2>2, <2>3 DEF ClosesLater
  <2>5. QED
    BY <2>1, <2>3, <2>4 DEF ClosesLater
<1>6. ASSUME NEW i \in Requests, NEW close \in BOOLEAN, NEW valid \in BOOLEAN,
             SendStart(i, close, valid)
      PROVE  ShutInv'
  <2>1. /\ UNCHANGED <<shutdownCalled, cur, complete, conn>>
        /\ keepAlive' = [keepAlive EXCEPT ![i] = @ /\ ~close]
    BY <1>6 DEF SendStart, KeepAliveAfter, loopVars, protoVars, transportVars
  <2>2. \A j \in Requests : ClosesLater(j) => ClosesLater(j)'
    BY <1>0, <2>1 DEF ClosesLater
  <2>3. QED
    BY <2>1, <2>2 DEF ShutInv
<1>7. ASSUME NEW i \in Requests, Task(i), ~SendLast(i),
             ~\E close, valid \in BOOLEAN : SendStart(i, close, valid)
      PROVE  ShutInv'
  <2>1. UNCHANGED <<shutdownCalled, cur, complete, keepAlive>>
    BY <1>7 DEF Task, Sends, Receive, ReceiveWakes, ReceiveCancelled,
       SendWaits, SendReturns, SendBody, AppRaises, AppReturnsValue,
       AppReturnsNone, FailDropped, RunAsgiEnds, loopVars, protoVars,
       responseVars
  <2>2. QED
    BY <2>1, ShutFrame
<1>8. CASE UNCHANGED vars
    BY <1>8, ShutFrame DEF vars, loopVars, protoVars, responseVars
<1>9. QED
    BY <1>1, <1>2, <1>3, <1>4, <1>5, <1>6, <1>7, <1>8 DEF Next

\* After shutdown() the connection closes, or a request that will close it is
\* unanswered (HttpToolsProtocol.shutdown, RequestResponseCycle.send).
THEOREM ShutdownSafety == Spec => []ShutdownPending
<1>1. Init => ShutInv
    BY DEF Init, ShutInv
<1>2. ServiceInv /\ ShutInv => ShutdownPending
  <2>1. SUFFICES ASSUME ServiceInv, ShutInv, shutdownCalled, conn = "open"
                 PROVE  \E i \in Requests : /\ phase[i] \in {"queued", "app", "fail"}
                                            /\ ~complete[i] /\ ~keepAlive[i]
    BY DEF ShutdownPending
  <2>2. PICK i \in Requests : ClosesLater(i)
    BY <2>1 DEF ShutInv
  <2>3. phase[i] # "none" /\ phase[i] # "done"
    BY <2>1, <2>2, MaxRequestsAssumption
       DEF ServiceInv, TypedOrder, TypeOK, OrderInv, EndInv, ClosesLater, Requests
  <2>4. phase[i] \in {"none", "queued", "app", "fail", "done"}
    BY <2>1 DEF ServiceInv, TypedOrder, TypeOK
  <2>5. QED
    BY <2>2, <2>3, <2>4 DEF ClosesLater
<1>3. ServiceInv /\ ShutInv /\ [Next]_vars => ShutInv'
    BY ShutStep DEF ServiceInv
<1>4. QED
    BY <1>1, <1>2, <1>3, ServiceInvariant, PTL DEF Spec

-----------------------------------------------------------------------------
(* The request body and message_event.                                     *)

\* The end of the body has not come for a request still being parsed, or yet
\* to arrive, and is given to the application only after it has come.
NewsInv ==
    \A i \in Requests :
        /\ moreBody[i] => ~gotEnd[i]
        /\ i > cur \/ (i = cur /\ inMessage) => moreBody[i]

\* Steps that change none of this.
LEMMA NewsFrame ==
    /\ NewsInv /\ EventMeansNews
    /\ UNCHANGED <<cur, inMessage, complete, disconnected, bodyVars>>
    => NewsInv' /\ EventMeansNews'
BY DEF NewsInv, EventMeansNews, bodyVars

\* Taking a message, as receive() does, keeps both.
LEMMA NewsTaken ==
    ASSUME TypeOK, NewsInv, EventMeansNews, NEW i \in Requests, TakeMessage(i),
           UNCHANGED <<cur, inMessage, complete, disconnected, moreBody>>
    PROVE  NewsInv' /\ EventMeansNews'
<1>0. /\ event \in [Requests -> BOOLEAN] /\ gotEnd \in [Requests -> BOOLEAN]
      /\ body \in [Requests -> 0 .. HighWater + 1]
    BY DEF TypeOK
<1>1. event' = [event EXCEPT ![i] = FALSE]
    BY DEF TakeMessage
<1>2. CASE disconnected[i] \/ complete[i]
  <2>1. UNCHANGED <<body, gotEnd>>
    BY <1>2 DEF TakeMessage
  <2>2. NewsInv'
    BY <2>1 DEF NewsInv
  <2>3. EventMeansNews'
    BY <1>0, <1>1, <1>2, <2>1 DEF EventMeansNews
  <2>4. QED
    BY <2>2, <2>3
<1>3. CASE ~(disconnected[i] \/ complete[i])
  <2>1. /\ body' = [body EXCEPT ![i] = 0]
        /\ gotEnd' = [gotEnd EXCEPT ![i] = @ \/ ~moreBody[i]]
    BY <1>3 DEF TakeMessage
  <2>2. /\ ~event'[i] /\ body'[i] = 0 /\ (gotEnd'[i] <=> gotEnd[i] \/ ~moreBody[i])
        /\ \A j \in Requests \ {i} : /\ event'[j] = event[j] /\ body'[j] = body[j]
                                      /\ gotEnd'[j] = gotEnd[j]
    BY <1>0, <1>1, <2>1
  <2>3. NewsInv'
    BY <2>2 DEF NewsInv
  <2>4. EventMeansNews'
    BY <2>2 DEF EventMeansNews
  <2>5. QED
    BY <2>3, <2>4
<1>4. QED
    BY <1>2, <1>3

\* NewsInv and EventMeansNews are kept together.
LEMMA NewsStep ==
    TypedOrder /\ NewsInv /\ EventMeansNews /\ [Next]_vars
        => NewsInv' /\ EventMeansNews'
<1> SUFFICES ASSUME TypedOrder, NewsInv, EventMeansNews, [Next]_vars
             PROVE  NewsInv' /\ EventMeansNews'
    OBVIOUS
<1>0. /\ event \in [Requests -> BOOLEAN] /\ moreBody \in [Requests -> BOOLEAN]
      /\ body \in [Requests -> 0 .. HighWater + 1]
      /\ complete \in [Requests -> BOOLEAN]
      /\ cur \in 0 .. MaxRequests /\ \A i \in Requests : i \in Nat
    BY MaxRequestsAssumption DEF TypedOrder, TypeOK, Requests
<1>1. CASE OnHeadersComplete
  <2>1. /\ cur' = cur + 1 /\ inMessage' /\ ~inMessage
        /\ UNCHANGED <<complete, disconnected, event, body, moreBody, gotEnd>>
    BY <1>1 DEF OnHeadersComplete, bodyVars
  <2>2. QED
    BY <1>0, <2>1 DEF NewsInv, EventMeansNews
<1>2. CASE OnBody
  <2>1. cur \in Requests
    BY <1>0, <1>2 DEF OnBody, LatestComplete, Requests
  <2>2. /\ event' = [event EXCEPT ![cur] = TRUE]
        /\ body' = [body EXCEPT ![cur] = @ + 1]
        /\ UNCHANGED <<cur, inMessage, complete, disconnected, moreBody, gotEnd>>
    BY <1>2 DEF OnBody, loopVars, protoVars, responseVars
  <2>3. /\ event'[cur] /\ body'[cur] > 0
        /\ \A j \in Requests \ {cur} : event'[j] = event[j] /\ body'[j] = body[j]
    BY <1>0, <2>1, <2>2, HighWaterAssumption
  <2>4. QED
    BY <2>2, <2>3 DEF NewsInv, EventMeansNews
<1>3. CASE OnMessageComplete
  <2>1. inMessage /\ ~inMessage' /\ UNCHANGED <<cur, complete, disconnected, body, gotEnd>>
    BY <1>3 DEF OnMessageComplete, protoVars, responseVars
  <2>2. CASE LatestComplete
    <3>1. UNCHANGED <<event, moreBody>>
      BY <1>3, <2>2 DEF OnMessageComplete
    <3>2. QED
      BY <2>1, <3>1 DEF NewsInv, EventMeansNews
  <2>3. CASE ~LatestComplete
    <3>1. cur \in Requests
      BY <1>0, <2>3 DEF LatestComplete, Requests
    <3>2. /\ event' = [event EXCEPT ![cur] = TRUE]
          /\ moreBody' = [moreBody EXCEPT ![cur] = FALSE]
      BY <1>3, <2>3 DEF OnMessageComplete
    <3>3. /\ event'[cur] /\ ~moreBody'[cur] /\ ~gotEnd[cur]
          /\ \A j \in Requests \ {cur} : event'[j] = event[j] /\ moreBody'[j] = moreBody[j]
      BY <1>0, <2>1, <3>1, <3>2 DEF NewsInv
    <3>4. NewsInv'
      BY <1>0, <2>1, <3>1, <3>3 DEF NewsInv
    <3>5. EventMeansNews'
      BY <2>1, <3>3 DEF EventMeansNews
    <3>6. QED
      BY <3>4, <3>5
  <2>4. QED
    BY <2>2, <2>3
<1>4. CASE \/ DataReceived \/ FeedEnds \/ ParserError \/ HandleWebsocketUpgrade
           \/ ResumeWriting \/ EofReceived \/ TransportFails
           \/ ConnectionLostUpgraded \/ TimeoutKeepAliveHandler \/ Shutdown
  <2>1. UNCHANGED <<cur, inMessage, complete, disconnected, bodyVars>>
    BY <1>4 DEF DataReceived, FeedEnds, ParserError, HandleWebsocketUpgrade,
       ResumeWriting, EofReceived, TransportFails, ConnectionLostUpgraded,
       TimeoutKeepAliveHandler, Shutdown, loopVars, protoVars, responseVars
  <2>2. QED
    BY <2>1, NewsFrame
<1>5. CASE ConnectionLost
  <2>1. UNCHANGED <<cur, inMessage, complete, body, moreBody, gotEnd>>
    BY <1>5 DEF ConnectionLost, loopVars
  <2>2. \A j \in Requests : /\ ~complete[j] /\ ~disconnected'[j]
                              => ~disconnected[j] /\ event'[j] = event[j]
    BY <1>0, <1>5 DEF ConnectionLost, LatestToldOfLoss
  <2>3. QED
    BY <2>1, <2>2 DEF NewsInv, EventMeansNews
<1>6. ASSUME NEW i \in Requests, Receive(i) \/ ReceiveWakes(i)
      PROVE  NewsInv' /\ EventMeansNews'
  <2>1. /\ UNCHANGED <<cur, inMessage, complete, disconnected, moreBody>>
        /\ TakeMessage(i) \/ UNCHANGED <<event, body, gotEnd>>
    BY <1>6 DEF Receive, ReceiveWakes, loopVars, protoVars, responseVars
  <2>2. CASE TakeMessage(i)
    BY <2>1, <2>2, NewsTaken DEF TypedOrder
  <2>3. CASE UNCHANGED <<event, body, gotEnd>>
    BY <2>1, <2>3, NewsFrame DEF bodyVars
  <2>4. QED
    BY <2>1, <2>2, <2>3
<1>7. ASSUME NEW i \in Requests, SendLast(i) PROVE NewsInv' /\ EventMeansNews'
  <2>1. /\ UNCHANGED <<cur, inMessage, disconnected, body, moreBody, gotEnd>>
        /\ complete' = [complete EXCEPT ![i] = TRUE]
        /\ event' = [event EXCEPT ![i] = TRUE]
    BY <1>7 DEF SendLast, loopVars
  <2>2. \A j \in Requests : ~complete'[j] => ~complete[j] /\ event'[j] = event[j]
    BY <1>0, <2>1
  <2>3. QED
    BY <2>1, <2>2 DEF NewsInv, EventMeansNews
<1>8. ASSUME NEW i \in Requests, Task(i), ~SendLast(i), ~Receive(i), ~ReceiveWakes(i)
      PROVE  NewsInv' /\ EventMeansNews'
  <2>1. UNCHANGED <<cur, inMessage, complete, disconnected, bodyVars>>
    BY <1>8 DEF Task, Sends, ReceiveCancelled, SendWaits, SendReturns, SendBody,
       SendStart, AppRaises, AppReturnsValue, AppReturnsNone, FailDropped,
       RunAsgiEnds, loopVars, protoVars, responseVars
  <2>2. QED
    BY <2>1, NewsFrame
<1>9. CASE UNCHANGED vars
    BY <1>9, NewsFrame DEF vars, loopVars, protoVars, responseVars
<1>10. QED
    BY <1>1, <1>2, <1>3, <1>4, <1>5, <1>6, <1>7, <1>8, <1>9
       DEF Next, Parser, Callbacks

LEMMA NewsSafety == Spec => [](NewsInv /\ EventMeansNews)
<1>1. Init => NewsInv /\ EventMeansNews
    BY DEF Init, NewsInv, EventMeansNews
<1>2. ServiceInv /\ (NewsInv /\ EventMeansNews) /\ [Next]_vars
        => (NewsInv /\ EventMeansNews)'
    BY NewsStep DEF ServiceInv
<1>3. QED
    BY <1>1, <1>2, ServiceInvariant, PTL DEF Spec

\* message_event is set exactly when there is something to receive (on_body,
\* on_message_complete and the wait in receive()).
THEOREM EventSafety == Spec => []EventMeansNews
BY NewsSafety, PTL

-----------------------------------------------------------------------------
(* Waiting for the request body.                                           *)

\* The body of a request whose message is over has ended, unless the response
\* was complete before; a wait that has not been signalled is for a request
\* received and unanswered; and one for more body leaves reading on.
ArriveInv ==
    \A i \in Requests :
        /\ i <= cur /\ ~(i = cur /\ inMessage) /\ moreBody[i] => complete[i]
        /\ recv[i] = "wait" => i <= cur
        /\ recv[i] = "wait" /\ ~event[i] => ~complete[i]
        /\ recv[i] = "wait" /\ ~event[i] /\ moreBody[i] /\ conn = "open"
            => ~readPaused

\* Steps that neither wait anew, pause reading nor end a body.
LEMMA ArriveFrame ==
    ASSUME ArriveInv,
           UNCHANGED <<cur, inMessage, moreBody>>,
           conn' = "open" => conn = "open",
           readPaused' => readPaused,
           \A j \in Requests :
               /\ complete[j] => complete'[j]
               /\ recv'[j] = "wait" => recv[j] = "wait"
               /\ recv'[j] = "wait" /\ ~event'[j]
                    => ~event[j] /\ complete'[j] = complete[j]
    PROVE  ArriveInv'
BY DEF ArriveInv

\* ArriveInv is kept.
LEMMA ArriveStep == ServiceInv /\ ArriveInv /\ [Next]_vars => ArriveInv'
<1> SUFFICES ASSUME ServiceInv, ArriveInv, [Next]_vars PROVE ArriveInv'
    OBVIOUS
<1>0. /\ cur \in 0 .. MaxRequests /\ \A i \in Requests : i \in Nat \ {0}
      /\ event \in [Requests -> BOOLEAN] /\ moreBody \in [Requests -> BOOLEAN]
      /\ complete \in [Requests -> BOOLEAN]
      /\ recv \in [Requests -> {"idle", "wait"}]
    BY MaxRequestsAssumption DEF ServiceInv, TypedOrder, TypeOK, Requests
<1>a. conn' = "open" => conn = "open"
    BY ConnMonotone DEF ServiceInv
<1>1. CASE OnHeadersComplete
  <2>1. /\ ~inMessage /\ inMessage' /\ cur' = cur + 1
        /\ UNCHANGED <<conn, recv, event, moreBody, complete>>
    BY <1>1 DEF OnHeadersComplete, transportVars, bodyVars
  <2>2. \A i \in Requests :
          i <= cur /\ recv[i] = "wait" /\ ~event[i] => ~moreBody[i]
    BY <2>1 DEF ArriveInv
  <2>3. QED
    BY <1>0, <2>1, <2>2 DEF ArriveInv
<1>2. CASE OnBody
  <2>1. cur \in Requests
    BY <1>0, <1>2 DEF OnBody, LatestComplete, Requests
  <2>2. /\ event' = [event EXCEPT ![cur] = TRUE]
        /\ UNCHANGED <<conn, cur, inMessage, recv, moreBody, complete>>
    BY <1>2 DEF OnBody, transportVars, loopVars, protoVars, callVars, responseVars
  <2>3. event'[cur] /\ \A i \in Requests \ {cur} : event'[i] = event[i]
    BY <1>0, <2>1, <2>2
  <2>4. \A i \in Requests \ {cur} : recv[i] = "wait" /\ ~event[i] => ~moreBody[i]
    BY DEF ArriveInv
  <2>5. QED
    BY <2>2, <2>3, <2>4 DEF ArriveInv
<1>3. CASE OnMessageComplete
  <2>1. inMessage /\ ~inMessage' /\ UNCHANGED <<conn, cur, readPaused, recv, complete>>
    BY <1>3 DEF OnMessageComplete, transportVars, protoVars, flowVars, callVars,
       responseVars
  <2>2. CASE LatestComplete
    <3>1. UNCHANGED <<event, moreBody>>
      BY <1>3, <2>2 DEF OnMessageComplete
    <3>2. cur \in Requests => complete[cur]
      BY <1>0, <2>2 DEF LatestComplete
    <3>3. QED
      BY <2>1, <3>1, <3>2 DEF ArriveInv
  <2>3. CASE ~LatestComplete
    <3>1. cur \in Requests
      BY <1>0, <2>3 DEF LatestComplete, Requests
    <3>2. /\ event' = [event EXCEPT ![cur] = TRUE]
          /\ moreBody' = [moreBody EXCEPT ![cur] = FALSE]
      BY <1>3, <2>3 DEF OnMessageComplete
    <3>3. /\ event'[cur] /\ ~moreBody'[cur]
          /\ \A j \in Requests \ {cur} : event'[j] = event[j] /\ moreBody'[j] = moreBody[j]
      BY <1>0, <3>1, <3>2
    <3>4. QED
      BY <2>1, <3>3 DEF ArriveInv
  <2>4. QED
    BY <2>2, <2>3
<1>4. CASE \/ DataReceived \/ FeedEnds \/ ParserError \/ HandleWebsocketUpgrade
           \/ ResumeWriting \/ EofReceived \/ TransportFails
           \/ ConnectionLostUpgraded \/ TimeoutKeepAliveHandler \/ Shutdown
  <2>1. UNCHANGED <<cur, inMessage, readPaused, recv, complete, event, moreBody>>
    BY <1>4 DEF DataReceived, FeedEnds, ParserError, HandleWebsocketUpgrade,
       ResumeWriting, EofReceived, TransportFails, ConnectionLostUpgraded,
       TimeoutKeepAliveHandler, Shutdown, loopVars, protoVars, flowVars,
       callVars, responseVars, bodyVars
  <2>2. QED
    BY <1>a, <2>1, ArriveFrame
<1>5. CASE ConnectionLost
  <2>1. UNCHANGED <<cur, inMessage, readPaused, recv, complete, moreBody>>
    BY <1>5 DEF ConnectionLost, loopVars
  <2>2. \A j \in Requests : ~event'[j] => ~event[j]
    BY <1>5 DEF ConnectionLost, LatestToldOfLoss
  <2>3. QED
    BY <1>a, <2>1, <2>2, ArriveFrame
<1>6. ASSUME NEW i \in Requests, Receive(i) PROVE ArriveInv'
  <2>1. /\ phase[i] = "app" /\ recv[i] = "idle" /\ ~complete[i] /\ ~readPaused'
        /\ UNCHANGED <<conn, cur, inMessage, complete, moreBody>>
    BY <1>6 DEF Receive, ResumeReading, transportVars, loopVars, protoVars
  <2>2. i <= cur
    BY <1>0, <2>1 DEF ServiceInv, TypedOrder, OrderInv
  <2>3. \/ recv' = [recv EXCEPT ![i] = "wait"] /\ UNCHANGED event
        \/ UNCHANGED recv /\ event' = [event EXCEPT ![i] = FALSE]
    BY <1>6 DEF Receive, TakeMessage
  <2>4. \A j \in Requests \ {i} : recv'[j] = recv[j] /\ event'[j] = event[j]
    BY <1>0, <2>3
  <2>5. QED
    BY <2>1, <2>2, <2>4 DEF ArriveInv
<1>7. ASSUME NEW i \in Requests, ReceiveWakes(i) PROVE ArriveInv'
  <2>1. /\ recv' = [recv EXCEPT ![i] = "idle"]
        /\ event' = [event EXCEPT ![i] = FALSE]
        /\ UNCHANGED <<cur, inMessage, readPaused, complete, moreBody>>
    BY <1>7 DEF ReceiveWakes, TakeMessage, loopVars, protoVars, flowVars,
       responseVars
  <2>2. /\ recv'[i] = "idle"
        /\ \A j \in Requests \ {i} : recv'[j] = recv[j] /\ event'[j] = event[j]
    BY <1>0, <2>1
  <2>3. QED
    BY <1>a, <2>1, <2>2, ArriveFrame
<1>8. ASSUME NEW i \in Requests, SendLast(i) PROVE ArriveInv'
  <2>1. /\ UNCHANGED <<cur, inMessage, recv, moreBody>>
        /\ complete' = [complete EXCEPT ![i] = TRUE]
        /\ event' = [event EXCEPT ![i] = TRUE]
        /\ readPaused' => readPaused
    BY <1>8 DEF SendLast, OnResponseComplete, ResumeReading, loopVars
  <2>2. /\ complete'[i] /\ event'[i]
        /\ \A j \in Requests \ {i} : complete'[j] = complete[j] /\ event'[j] = event[j]
    BY <1>0, <2>1
  <2>3. QED
    BY <1>a, <2>1, <2>2, ArriveFrame
<1>9. ASSUME NEW i \in Requests,
             \/ ReceiveCancelled(i) \/ SendWaits(i) \/ SendReturns(i) \/ SendBody(i)
             \/ \E close, valid \in BOOLEAN : SendStart(i, close, valid)
             \/ AppRaises(i) \/ AppReturnsValue(i) \/ AppReturnsNone(i)
             \/ FailDropped(i)
      PROVE  ArriveInv'
  <2>1. UNCHANGED <<cur, inMessage, readPaused, complete, event, moreBody>>
    BY <1>9 DEF ReceiveCancelled, SendWaits, SendReturns, SendBody, SendStart,
       AppRaises, AppReturnsValue, AppReturnsNone, FailDropped, RunAsgiEnds,
       loopVars, protoVars, flowVars, responseVars, bodyVars
  <2>2. UNCHANGED recv \/ recv' = [recv EXCEPT ![i] = "idle"]
    BY <1>9 DEF ReceiveCancelled, SendWaits, SendReturns, SendBody, SendStart,
       AppRaises, AppReturnsValue, AppReturnsNone, FailDropped, RunAsgiEnds
  <2>3. \A j \in Requests : recv'[j] = "wait" => recv[j] = "wait"
    BY <1>0, <2>2
  <2>4. QED
    BY <1>a, <2>1, <2>3, ArriveFrame
<1>10. CASE UNCHANGED vars
  <2>1. UNCHANGED <<conn, cur, inMessage, readPaused, recv, complete, event, moreBody>>
    BY <1>10 DEF vars, transportVars, loopVars, protoVars, flowVars, callVars,
       responseVars, bodyVars
  <2>2. QED
    BY <2>1, ArriveFrame
<1>11. QED
    BY <1>1, <1>2, <1>3, <1>4, <1>5, <1>6, <1>7, <1>8, <1>9, <1>10
       DEF Next, Parser, Callbacks, Task, Sends

\* An application waiting for body never waits with reading paused, unless it
\* has had the whole body (receive, on_body and on_headers_complete together).
THEOREM BodySafety == Spec => []BodyCanArrive
<1>1. Init => ArriveInv
    BY MaxRequestsAssumption DEF Init, ArriveInv, Requests
<1>2. ServiceInv /\ ArriveInv /\ [Next]_vars => ArriveInv'
    BY ArriveStep
<1>3. ServiceInv /\ ArriveInv /\ EventMeansNews => BodyCanArrive
  <2>1. SUFFICES ASSUME ServiceInv, ArriveInv, EventMeansNews,
                        NEW i \in Requests,
                        recv[i] = "wait", ~event[i], readPaused, conn = "open"
                 PROVE  gotEnd[i]
    BY DEF BodyCanArrive
  <2>2. ~complete[i] /\ ~moreBody[i]
    BY <2>1 DEF ArriveInv
  <2>3. ~disconnected[i]
    BY <2>1 DEF ServiceInv, EndInv
  <2>4. QED
    BY <2>1, <2>2, <2>3 DEF EventMeansNews
<1>4. QED
    BY <1>1, <1>2, <1>3, ServiceInvariant, NewsSafety, PTL DEF Spec

-----------------------------------------------------------------------------
(* The loss of the connection.                                             *)

\* Once the connection is lost, the latest request cannot be waited for in vain:
\* its cycle is over, or it is marked and whoever waits is signalled.
LossInv ==
    conn = "lost" /\ ~upgraded =>
        \A i \in Requests :
            i = cur => /\ disconnected[i] \/ complete[i]
                       /\ recv[i] = "wait" => event[i]

\* After the loss nothing waits anew and nothing takes the signal from a waiter.
LEMMA LossFrame ==
    ASSUME LossInv, conn = "lost" \/ conn' # "lost", upgraded => upgraded',
           UNCHANGED cur,
           \A j \in Requests :
               /\ disconnected[j] \/ complete[j] => disconnected'[j] \/ complete'[j]
               /\ recv'[j] = "wait" => recv[j] = "wait"
               /\ recv'[j] = "wait" /\ event[j] => event'[j]
    PROVE  LossInv'
BY DEF LossInv

\* LossInv is kept.
LEMMA LossStep == ServiceInv /\ LossInv /\ [Next]_vars => LossInv'
<1> SUFFICES ASSUME ServiceInv, LossInv, [Next]_vars PROVE LossInv'
    OBVIOUS
<1>0. /\ event \in [Requests -> BOOLEAN] /\ complete \in [Requests -> BOOLEAN]
      /\ recv \in [Requests -> {"idle", "wait"}]
      /\ disconnected \in [Requests -> BOOLEAN]
    BY DEF ServiceInv, TypedOrder, TypeOK
<1>1. CASE Parser
  <2>1. conn = "open"
    BY <1>1 DEF Parser, DataReceived, FeedEnds, OnHeadersComplete, OnBody,
       OnMessageComplete, ParserError, HandleWebsocketUpgrade, ServiceInv, LoopInv
  <2>2. conn' # "lost"
    BY <1>1, <2>1 DEF Parser, DataReceived, FeedEnds, OnHeadersComplete, OnBody,
       OnMessageComplete, ParserError, HandleWebsocketUpgrade, transportVars, Closing
  <2>3. QED
    BY <2>2 DEF LossInv
<1>2. CASE ConnectionLost
  <2>1. /\ UNCHANGED <<cur, recv, complete>>
        /\ disconnected' = [i \in Requests |->
                              disconnected[i] \/ (i = cur /\ ~complete[i])]
        /\ event' = [i \in Requests |-> event[i] \/ i = cur]
    BY <1>2 DEF ConnectionLost, LatestToldOfLoss
  <2>2. QED
    BY <2>1 DEF LossInv
<1>3. CASE ConnectionLostUpgraded
  <2>1. upgraded'
    BY <1>3 DEF ConnectionLostUpgraded, protoVars
  <2>2. QED
    BY <2>1 DEF LossInv
<1>4. CASE \/ ResumeWriting \/ EofReceived \/ TransportFails
           \/ TimeoutKeepAliveHandler \/ Shutdown
  <2>1. /\ UNCHANGED <<cur, upgraded, recv, disconnected, complete, event>>
        /\ conn' # "lost" \/ UNCHANGED conn
    BY <1>4 DEF ResumeWriting, EofReceived, TransportFails, TimeoutKeepAliveHandler,
       Shutdown, transportVars, loopVars, protoVars, callVars, responseVars,
       bodyVars, Closing
  <2>2. QED
    BY <2>1, LossFrame
<1>5. ASSUME NEW i \in Requests, Task(i)
      PROVE  /\ UNCHANGED <<cur, upgraded, disconnected>>
             /\ conn' # "lost" \/ UNCHANGED conn
    BY <1>5 DEF Task, Sends, Receive, ReceiveWakes, ReceiveCancelled,
       SendWaits, SendReturns, SendBody, SendLast, SendStart, AppRaises,
       AppReturnsValue, AppReturnsNone, FailDropped, RunAsgiEnds, Closing,
       transportVars, protoVars, responseVars
<1>6. ASSUME NEW i \in Requests, Receive(i) PROVE LossInv'
  <2>1. /\ ~disconnected[i] /\ ~complete[i] /\ recv[i] = "idle"
        /\ UNCHANGED <<conn, cur, upgraded, disconnected, complete>>
    BY <1>6 DEF Receive, transportVars, protoVars
  <2>2. \/ recv' = [recv EXCEPT ![i] = "wait"] /\ UNCHANGED event
        \/ UNCHANGED recv /\ event' = [event EXCEPT ![i] = FALSE]
    BY <1>6 DEF Receive, TakeMessage
  <2>3. \A j \in Requests \ {i} : recv'[j] = recv[j] /\ event'[j] = event[j]
    BY <1>0, <2>2
  <2>4. QED
    BY <2>1, <2>3 DEF LossInv
<1>7. ASSUME NEW i \in Requests, ReceiveWakes(i) PROVE LossInv'
  <2>1. /\ recv' = [recv EXCEPT ![i] = "idle"] /\ event' = [event EXCEPT ![i] = FALSE]
        /\ UNCHANGED <<conn, cur, upgraded, disconnected, complete>>
    BY <1>7 DEF ReceiveWakes, TakeMessage, transportVars, protoVars, responseVars
  <2>2. /\ recv'[i] = "idle"
        /\ \A j \in Requests \ {i} : recv'[j] = recv[j] /\ event'[j] = event[j]
    BY <1>0, <2>1
  <2>3. QED
    BY <2>1, <2>2, LossFrame
<1>8. ASSUME NEW i \in Requests, SendLast(i) PROVE LossInv'
  <2>1. /\ complete' = [complete EXCEPT ![i] = TRUE]
        /\ event' = [event EXCEPT ![i] = TRUE] /\ UNCHANGED recv
    BY <1>8 DEF SendLast
  <2>2. \A j \in Requests : /\ complete[j] => complete'[j]
                            /\ event[j] => event'[j]
    BY <1>0, <2>1
  <2>3. UNCHANGED <<cur, upgraded, disconnected>> /\ (conn' # "lost" \/ UNCHANGED conn)
    BY <1>5, <1>8 DEF Task, Sends
  <2>4. QED
    BY <2>1, <2>2, <2>3, LossFrame
<1>9. ASSUME NEW i \in Requests, Task(i), ~SendLast(i), ~Receive(i), ~ReceiveWakes(i)
      PROVE  LossInv'
  <2>1. /\ UNCHANGED <<complete, event>>
        /\ \/ recv' = [recv EXCEPT ![i] = "idle"]
           \/ UNCHANGED recv
    BY <1>9 DEF Task, Sends, ReceiveCancelled, SendWaits, SendReturns, SendBody,
       SendStart, AppRaises, AppReturnsValue, AppReturnsNone, FailDropped,
       RunAsgiEnds, responseVars, bodyVars, callVars
  <2>2. \A j \in Requests : recv'[j] = "wait" => recv[j] = "wait"
    BY <1>0, <2>1
  <2>3. UNCHANGED <<cur, upgraded, disconnected>> /\ (conn' # "lost" \/ UNCHANGED conn)
    BY <1>5, <1>9
  <2>4. QED
    BY <2>1, <2>2, <2>3, LossFrame
<1>10. CASE UNCHANGED vars
    BY <1>10, LossFrame DEF vars, transportVars, protoVars, callVars, responseVars,
       bodyVars
<1>11. QED
    BY <1>1, <1>2, <1>3, <1>4, <1>6, <1>7, <1>8, <1>9, <1>10 DEF Next, Callbacks

\* After connection_lost the latest request's receive() is always signalled: an
\* application that is in it, or calls it later, gets its http.disconnect.
THEOREM LossSafety == Spec => []LossInv
<1>1. Init => LossInv
    BY DEF Init, LossInv
<1>2. QED
    BY <1>1, LossStep, ServiceInvariant, PTL DEF Spec

-----------------------------------------------------------------------------
(* The connection implements PipelinedService.                             *)

\* A request with a response begun and not complete is the one in service.
LEMMA InServiceIsNext ==
    ASSUME TypedOrder, NEW i \in Requests, i <= Served, ~complete[i]
    PROVE  i = total + 1 /\ i = Served
<1>1. i \in Nat /\ total \in Nat /\ Served \in Int
    BY MaxRequestsAssumption, LenProperties
       DEF TypedOrder, TypeOK, Requests, Served
<1>2. ~(i <= total) /\ Served <= total + 1
    BY DEF TypedOrder, OrderInv
<1>3. QED
    BY <1>1, <1>2

\* Steps that neither receive, begin nor finish stutter or close.
LEMMA RefineFrame ==
    ASSUME UNCHANGED <<cur, pipeline, total, started, complete>>,
           conn # "open" => conn' # "open"
    PROVE  Service!Next \/ UNCHANGED Service!vars
<1>1. CASE conn = "open" /\ conn' # "open"
    BY <1>1 DEF Service!Next, Service!Close
<1>2. CASE (conn = "open") = (conn' = "open")
    BY <1>2 DEF Service!vars
<1>3. QED
    BY <1>1, <1>2

\* A head parsed is a request received, and served at once when idle.
LEMMA RefineReceive ==
    ASSUME ServiceInv, OnHeadersComplete
    PROVE  Service!Receive
<1>1. /\ feeding /\ conn = "open" /\ conn' = "open" /\ cur' = cur + 1
      /\ UNCHANGED <<total, started, complete>>
    BY DEF OnHeadersComplete, ServiceInv, LoopInv, transportVars
<1>2. /\ cur \in 0 .. MaxRequests /\ total \in Nat /\ pipeline \in Seq(Requests)
      /\ Len(pipeline) \in Nat
    BY LenProperties DEF ServiceInv, TypedOrder, TypeOK
<1>3. Service!Idle <=> LatestComplete
  <2>1. CASE LatestComplete
    <3>1. cur <= total
      BY <1>2, <2>1, MaxRequestsAssumption
         DEF LatestComplete, ServiceInv, TypedOrder, OrderInv, Requests
    <3>2. total <= Served
      BY DEF ServiceInv, TypedOrder, OrderInv
    <3>3. Served = total
      BY <1>2, <3>1, <3>2 DEF Served
    <3>4. QED
      BY <2>1, <3>3 DEF Served, Service!Idle
  <2>2. CASE ~LatestComplete
    <3>1. total < Served
      BY <1>1, <2>2, LatestInService DEF ServiceInv
    <3>2. QED
      BY <1>2, <2>2, <3>1 DEF Served, Service!Idle
  <2>3. QED
    BY <2>1, <2>2
<1>4. Served' = IF LatestComplete THEN Served + 1 ELSE Served
  <2>1. CASE LatestComplete
    BY <1>1, <1>2, <2>1 DEF OnHeadersComplete, Served
  <2>2. CASE ~LatestComplete
    <3>1. cur + 1 \in Requests /\ pipeline' = Append(pipeline, cur + 1)
      BY <1>2, <2>2, MaxRequestsAssumption DEF OnHeadersComplete, Requests
    <3>2. Len(pipeline') = Len(pipeline) + 1
      BY <1>2, <3>1, QueueAppend
    <3>3. QED
      BY <1>1, <1>2, <2>2, <3>2 DEF Served
  <2>3. QED
    BY <2>1, <2>2
<1>5. QED
    BY <1>1, <1>3, <1>4 DEF Service!Receive, Served

\* The start of a response begins the answer of the request in service.
LEMMA RefineBegin ==
    ASSUME ServiceInv, NEW i \in Requests, NEW close \in BOOLEAN,
           NEW valid \in BOOLEAN, SendStart(i, close, valid)
    PROVE  Service!Begin
<1>1. /\ ~started[i] /\ phase[i] \in {"app", "fail"}
      /\ started' = [started EXCEPT ![i] = TRUE]
      /\ UNCHANGED <<conn, cur, pipeline, total, complete>>
    BY DEF SendStart, CanSend, transportVars, protoVars
<1>2. started \in [Requests -> BOOLEAN] /\ i \in Nat /\ total \in Nat
    BY MaxRequestsAssumption DEF ServiceInv, TypedOrder, TypeOK, Requests
<1>3. ~complete[i]
    BY <1>1 DEF ServiceInv, TypedOrder, OrderInv
<1>4. i <= Served
  <2>1. cur \in Nat /\ Len(pipeline) \in Nat
    BY LenProperties DEF ServiceInv, TypedOrder, TypeOK
  <2>2. QED
    BY <1>1, <1>2, <2>1 DEF ServiceInv, TypedOrder, OrderInv, Served
<1>5. i = total + 1 /\ i = Served
    BY <1>3, <1>4, InServiceIsNext DEF ServiceInv
<1>6. \A j \in Requests : ~(started[j] /\ ~complete[j])
  <2>1. SUFFICES ASSUME NEW j \in Requests, started[j], ~complete[j] PROVE FALSE
    OBVIOUS
  <2>2. j <= Served
    BY <2>1 DEF ServiceInv, TypedOrder, OrderInv
  <2>3. j = i
    BY <1>5, <2>1, <2>2, InServiceIsNext DEF ServiceInv
  <2>4. QED
    BY <1>1, <2>1, <2>3
<1>7. started'[i] /\ ~complete'[i]
    BY <1>1, <1>2, <1>3
<1>8. ~Service!Idle
    BY <1>2, <1>5 DEF Service!Idle, Served
<1>9. QED
    BY <1>1, <1>6, <1>7, <1>8 DEF Service!Begin

\* The end of a response finishes it, and serves the next request if the
\* connection stays open.
LEMMA RefineFinish ==
    ASSUME ServiceInv, NEW i \in Requests, SendLast(i)
    PROVE  Service!Finish
<1>1. /\ started[i] /\ ~complete[i] /\ UNCHANGED <<cur, started>>
      /\ complete' = [complete EXCEPT ![i] = TRUE]
      /\ total' = total + 1
      /\ conn' = "open" => conn = "open"
    BY DEF SendLast, OnResponseComplete, CountRequest, Closing
<1>2. /\ complete \in [Requests -> BOOLEAN] /\ cur \in Nat /\ total \in Nat
      /\ pipeline \in Seq(Requests) /\ Len(pipeline) \in Nat
    BY LenProperties DEF ServiceInv, TypedOrder, TypeOK
<1>3. \A j \in Requests : ~(started'[j] /\ ~complete'[j])
  <2>1. SUFFICES ASSUME NEW j \in Requests, started[j], ~complete[j] PROVE j = i
    BY <1>1, <1>2
  <2>2. j <= Served /\ i <= Served
    BY <1>1, <2>1 DEF ServiceInv, TypedOrder, OrderInv
  <2>3. QED
    BY <1>1, <2>1, <2>2, InServiceIsNext DEF ServiceInv
<1>4. Served' = IF conn' = "open" /\ Served < cur THEN Served + 1 ELSE Served
  <2>1. CASE conn' # "open"
    BY <1>1, <2>1 DEF SendLast, OnResponseComplete, GoesOn, Served
  <2>2. CASE conn' = "open" /\ pipeline = <<>>
    <3>1. pipeline' = pipeline /\ Len(pipeline) = 0
      BY <1>2, <2>2, EmptySeq
         DEF SendLast, OnResponseComplete, GoesOn, StartNext
    <3>2. QED
      BY <1>1, <1>2, <3>1 DEF Served
  <2>3. CASE conn' = "open" /\ pipeline # <<>>
    <3>1. pipeline' = Tail(pipeline)
      BY <2>3 DEF SendLast, OnResponseComplete, GoesOn, StartNext
    <3>2. Len(pipeline') = Len(pipeline) - 1 /\ Len(pipeline) >= 1
      BY <1>2, <2>3, <3>1, QueueTail
    <3>3. QED
      BY <1>1, <1>2, <2>3, <3>2 DEF Served
  <2>4. QED
    BY <2>1, <2>2, <2>3
<1>5. QED
    BY <1>1, <1>3, <1>4 DEF Service!Finish, Served

LEMMA RefineStep ==
    ServiceInv /\ [Next]_vars => [Service!Next]_Service!vars
<1> SUFFICES ASSUME ServiceInv, [Next]_vars
             PROVE  Service!Next \/ UNCHANGED Service!vars
    OBVIOUS
<1>0. conn # "open" => conn' # "open"
    BY ConnMonotone DEF ServiceInv
<1>1. CASE OnHeadersComplete
    BY <1>1, RefineReceive DEF Service!Next
<1>2. CASE Parser /\ ~OnHeadersComplete
  <2>1. UNCHANGED <<cur, pipeline, total, started, complete>>
    BY <1>2 DEF Parser, DataReceived, FeedEnds, OnBody, OnMessageComplete,
       ParserError, HandleWebsocketUpgrade, protoVars, responseVars
  <2>2. QED
    BY <1>0, <2>1, RefineFrame
<1>3. CASE Callbacks
  <2>1. UNCHANGED <<cur, pipeline, total, started, complete>>
    BY <1>3 DEF Callbacks, ResumeWriting, EofReceived, TransportFails,
       ConnectionLost, ConnectionLostUpgraded, TimeoutKeepAliveHandler,
       Shutdown, protoVars, responseVars
  <2>2. QED
    BY <1>0, <2>1, RefineFrame
<1>4. ASSUME NEW i \in Requests, NEW close \in BOOLEAN, NEW valid \in BOOLEAN,
             SendStart(i, close, valid)
      PROVE  Service!Next
    BY <1>4, RefineBegin DEF Service!Next
<1>5. ASSUME NEW i \in Requests, SendLast(i) PROVE Service!Next
    BY <1>5, RefineFinish DEF Service!Next
<1>6. ASSUME NEW i \in Requests,
             \/ Receive(i) \/ ReceiveWakes(i) \/ ReceiveCancelled(i)
             \/ SendWaits(i) \/ SendReturns(i) \/ SendBody(i)
             \/ AppRaises(i) \/ AppReturnsValue(i) \/ AppReturnsNone(i)
             \/ FailDropped(i)
      PROVE  Service!Next \/ UNCHANGED Service!vars
  <2>1. UNCHANGED <<cur, pipeline, total, started, complete>>
    BY <1>6 DEF Receive, ReceiveWakes, ReceiveCancelled, SendWaits,
       SendReturns, SendBody, AppRaises, AppReturnsValue, AppReturnsNone,
       FailDropped, RunAsgiEnds, protoVars, responseVars
  <2>2. QED
    BY <1>0, <2>1, RefineFrame
<1>7. CASE UNCHANGED vars
  <2>1. UNCHANGED <<cur, pipeline, total, started, complete>>
    BY <1>7 DEF vars, protoVars, responseVars
  <2>2. QED
    BY <1>0, <2>1, RefineFrame
<1>8. QED
    BY <1>1, <1>2, <1>3, <1>4, <1>5, <1>6, <1>7 DEF Next, Task, Sends

\* Every behaviour of the connection is one of the pipelined service: a request
\* that finds it idle is served at once, the others in order as responses
\* complete, and none after the close.
THEOREM ServiceRefinement == Spec => ServiceSpec
<1>1. Init => Service!Init
  <2> SUFFICES ASSUME Init PROVE Service!Init
    OBVIOUS
  <2>1. Len(pipeline) = 0
    BY EmptySeq DEF Init
  <2>2. ~ \E i \in Requests : started[i] /\ ~complete[i]
    BY DEF Init
  <2>3. cur = 0 /\ total = 0 /\ conn = "open"
    BY DEF Init
  <2>4. cur - Len(pipeline) = 0
    BY <2>1, <2>3
  <2>5. QED
    BY <2>2, <2>3, <2>4 DEF Service!Init
<1>2. QED
    BY <1>1, RefineStep, ServiceInvariant, PTL DEF Spec, ServiceSpec, Service!Spec
=============================================================================
