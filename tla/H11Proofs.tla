-------------------------------- MODULE H11Proofs --------------------------------
(***************************************************************************)
(* Safety of one h11 connection, and that it implements the pipelined      *)
(* service, for any number of requests and any high-water mark.            *)
(***************************************************************************)
EXTENDS H11, TLAPS

-----------------------------------------------------------------------------
(* The inductive invariant.                                                *)

\* The cycle of a request not parsed yet, as far as the proofs need it.
Fresh(c) == /\ c.phase = "none" /\ c.recv = "idle" /\ c.snd = "idle"
            /\ ~c.started /\ ~c.complete /\ ~c.disconnected

\* Requests are taken and answered in order: every earlier one is counted, and
\* a response that is complete but not counted has been refused by h11.
OrderInv ==
    /\ total <= cur /\ cur <= total + 1
    /\ \A i \in Requests : i > cur => Fresh(cycle[i])
    /\ \A i \in Requests : i <= total => cycle[i].complete
    /\ \A i \in Requests : cycle[i].complete => cycle[i].started /\ cycle[i].phase # "fail"
    /\ \A i \in Requests : cycle[i].disconnected => conn = "lost"
    /\ \A i \in Requests : cycle[i].complete /\ total < i => ours = "ERROR"

\* What the two sides of h11 say of each other and of the responses counted.
HalvesInv ==
    /\ theirs = "IDLE" <=> ours = "IDLE"
    /\ theirs \in {"SEND_BODY", "DONE"} => cur > 0
    /\ ours \in {"IDLE", "DONE"} => total = cur
    /\ ours \in {"SEND_RESPONSE", "SEND_BODY"} => total < cur
    /\ theirs = "DONE" => \/ ours \in {"SEND_RESPONSE", "SEND_BODY"}
                          \/ ours = "DONE" /\ conn # "open"
    /\ theirs = "MUST_CLOSE" /\ reusable => ours \in {"CLOSED", "ERROR"}
    /\ conn = "open" => ours \notin {"MUST_CLOSE", "CLOSED"} /\ theirs # "ERROR"
    /\ conn = "open" /\ ours = "DONE" => theirs = "SEND_BODY" /\ heads = 0

FailSends(i) == cycle[i].phase = "fail" /\ cycle[i].snd = "idle"

\* handle_events stops with a head in the buffer only where h11 says PAUSED,
\* and after an upgrade it never runs again.
LoopInv ==
    /\ feeding => conn = "open" /\ ~upgraded /\ \A i \in Requests : ~FailSends(i)
    /\ ~feeding /\ ~upgraded /\ heads > 0 => theirs \notin {"IDLE", "SEND_BODY"}
    /\ conn = "open" /\ ours \in {"IDLE", "DONE"} => ~readPaused
    /\ upgraded => ~inConnections /\ cur > 0 /\ cycle[cur].phase = "none"

\* A request that h11 waits to see answered is in service.
BusyInv ==
    conn = "open" /\ ~upgraded /\ ours \in {"SEND_RESPONSE", "SEND_BODY"} => Answering

ConnInv == TypeOK /\ OrderInv /\ HalvesInv /\ LoopInv

EndInv == BusyInv /\ NoSilentEnd /\ ShutdownPending

-----------------------------------------------------------------------------
(* What the steps do to the cycles.                                        *)

\* The fields of a cycle that its response is about.
SameResponse(c, d) ==
    /\ d.phase = c.phase
    /\ d.started = c.started
    /\ d.complete = c.complete
    /\ d.disconnected = c.disconnected

\* A step of request i.
OnlyCycle(i) ==
    /\ cycle' \in [Requests -> Cycles]
    /\ \A j \in Requests : j # i => cycle'[j] = cycle[j]

LEMMA NewTyped == NewCycle \in Cycles
BY HighWaterAssumption DEF NewCycle, Cycles

LEMMA Update ==
    ASSUME TypeOK, NEW i \in Requests, NEW c \in Cycles,
           cycle' = [cycle EXCEPT ![i] = c]
    PROVE  OnlyCycle(i) /\ cycle'[i] = c
BY DEF TypeOK, OnlyCycle

LEMMA TakeTyped ==
    ASSUME NEW c \in Cycles
    PROVE  TakeMessage(c) \in Cycles /\ SameResponse(c, TakeMessage(c))
           /\ TakeMessage(c).keepAlive = c.keepAlive
<1> DEFINE b == IF c.disconnected \/ c.complete THEN c.body ELSE 0
<1>1. b \in 0 .. HighWater + 1
    BY HighWaterAssumption DEF Cycles
<1>2. TakeMessage(c) = [c EXCEPT !.recv = "idle", !.event = FALSE, !.body = b]
    BY DEF TakeMessage
<1> HIDE DEF b
<1>3. TakeMessage(c) \in Cycles
    BY <1>1, <1>2 DEF Cycles
<1>4. QED
    BY <1>2, <1>3 DEF Cycles, SameResponse

LEMMA RaisesTyped ==
    ASSUME NEW c \in Cycles
    PROVE  /\ SendRaises(c) \in Cycles
           /\ SendRaises(c).phase = IF c.phase = "fail" THEN "done" ELSE c.phase
           /\ SendRaises(c).started = c.started
           /\ SendRaises(c).complete = c.complete
           /\ SendRaises(c).disconnected = c.disconnected
           /\ SendRaises(c).keepAlive = c.keepAlive
<1> DEFINE ph == IF c.phase = "fail" THEN "done" ELSE c.phase
<1>1. ph \in {"none", "app", "fail", "done"}
    BY DEF Cycles
<1>2. SendRaises(c) = [c EXCEPT !.snd = "idle", !.phase = ph]
    BY DEF SendRaises
<1> HIDE DEF ph
<1>3. SendRaises(c) \in Cycles /\ SendRaises(c).phase = ph
    BY <1>1, <1>2 DEF Cycles
<1>4. QED
    BY <1>2, <1>3 DEF Cycles, ph

\* A step that leaves every response as it is.
Kept ==
    /\ cycle' \in [Requests -> Cycles]
    /\ \A j \in Requests : /\ SameResponse(cycle[j], cycle'[j])
                           /\ ~cycle[j].keepAlive => ~cycle'[j].keepAlive
                           /\ j > cur => Fresh(cycle'[j])

LEMMA KeptByCycle ==
    ASSUME TypeOK, OrderInv, NEW i \in Requests, i <= cur, NEW c \in Cycles,
           cycle' = [cycle EXCEPT ![i] = c],
           SameResponse(cycle[i], c), ~cycle[i].keepAlive => ~c.keepAlive
    PROVE  Kept
<1>1. OnlyCycle(i) /\ cycle'[i] = c
    BY Update
<1>2. ~(i > cur)
    BY MaxRequestsAssumption DEF TypeOK, Requests
<1>3. QED
    BY <1>1, <1>2 DEF Kept, OnlyCycle, SameResponse, OrderInv

LEMMA KeptUnchanged ==
    ASSUME TypeOK, OrderInv, UNCHANGED cycle
    PROVE  Kept
BY DEF TypeOK, OrderInv, Kept, SameResponse

\* Only requests that have been parsed have a task.
LEMMA TaskTaken ==
    ASSUME TypeOK, OrderInv, NEW i \in Requests,
           \/ cycle[i].phase # "none" \/ cycle[i].recv = "wait"
           \/ cycle[i].snd # "idle" \/ cycle[i].started \/ cycle[i].complete
    PROVE  i <= cur
<1>1. ~Fresh(cycle[i])
    BY DEF Fresh
<1>2. QED
    BY <1>1, MaxRequestsAssumption DEF TypeOK, OrderInv, Requests

LEMMA ReleasedKept ==
    ASSUME TypeOK, OrderInv
    PROVE  /\ Released \in [Requests -> Cycles]
           /\ \A j \in Requests : /\ SameResponse(cycle[j], Released[j])
                                  /\ Released[j].keepAlive = cycle[j].keepAlive
                                  /\ j > cur => Fresh(Released[j])
<1>1. Released \in [Requests -> Cycles]
    BY DEF TypeOK, Released, Cycles
<1>2. \A j \in Requests : /\ SameResponse(cycle[j], Released[j])
                          /\ Released[j].keepAlive = cycle[j].keepAlive
    BY DEF TypeOK, Released, Cycles, SameResponse
<1>3. \A j \in Requests : j > cur => Fresh(Released[j])
    BY DEF TypeOK, Cycles, OrderInv, Released, Fresh
<1>4. QED
    BY <1>1, <1>2, <1>3

LEMMA LostCycles ==
    ASSUME TypeOK, OrderInv, ConnectionLost
    PROVE  /\ cycle' \in [Requests -> Cycles]
           /\ \A j \in Requests : /\ cycle'[j].phase = cycle[j].phase
                                  /\ cycle'[j].started = cycle[j].started
                                  /\ cycle'[j].complete = cycle[j].complete
                                  /\ cycle'[j].keepAlive = cycle[j].keepAlive
                                  /\ j > cur => Fresh(cycle'[j])
<1> DEFINE lost(i) == [Released[i] EXCEPT
                         !.disconnected = @ \/ (i = cur /\ ~cycle[i].complete),
                         !.event = @ \/ i = cur]
<1>1. cycle' = [i \in Requests |-> lost(i)]
    BY DEF ConnectionLost
<1>2. ASSUME NEW i \in Requests
      PROVE  /\ lost(i) \in Cycles
             /\ lost(i).phase = cycle[i].phase /\ lost(i).started = cycle[i].started
             /\ lost(i).complete = cycle[i].complete
             /\ lost(i).keepAlive = cycle[i].keepAlive
             /\ i > cur => Fresh(lost(i))
  <2>1. Released[i] \in Cycles /\ SameResponse(cycle[i], Released[i])
        /\ Released[i].keepAlive = cycle[i].keepAlive
      BY ReleasedKept
  <2>c. PICK c \in Cycles : c = Released[i]
      BY <2>1
  <2>2. PICK told \in BOOLEAN, woken \in BOOLEAN :
            /\ told = (Released[i].disconnected \/ (i = cur /\ ~cycle[i].complete))
            /\ woken = (Released[i].event \/ i = cur)
      OBVIOUS
  <2>3. lost(i) = [Released[i] EXCEPT !.disconnected = told, !.event = woken]
      BY <2>2
  <2>4. ASSUME i > cur PROVE Fresh(Released[i]) /\ ~told
    <3>1. i # cur
        BY <2>4, MaxRequestsAssumption DEF TypeOK, Requests
    <3>2. Fresh(Released[i])
        BY <2>4, ReleasedKept
    <3>3. QED
        BY <2>2, <3>1, <3>2 DEF Fresh
  <2> DEFINE d == [c EXCEPT !.disconnected = told, !.event = woken]
  <2>5. /\ d \in Cycles
        /\ d.phase = c.phase /\ d.started = c.started
        /\ d.complete = c.complete /\ d.keepAlive = c.keepAlive
        /\ Fresh(c) /\ ~told => Fresh(d)
      BY DEF Cycles, Fresh
  <2>6. lost(i) = d
      BY <2>c, <2>3
  <2> HIDE DEF lost, d
  <2>7. QED
      BY <2>c, <2>1, <2>4, <2>5, <2>6 DEF SameResponse
<1> HIDE DEF lost
<1>3. QED
    BY <1>1, <1>2

LEMMA QuietKept ==
    ASSUME TypeOK, OrderInv, NEW i \in Requests,
           \/ Receive(i) \/ ReceiveWakes(i) \/ SendWaits(i) \/ SendReturns(i)
           \/ \E fits \in BOOLEAN : SendBody(i, fits)
    PROVE  Kept
<1>1. i <= cur
    BY TaskTaken DEF Receive, ReceiveWakes, SendWaits, SendReturns, SendBody
<1>2. cycle[i] \in Cycles
    BY DEF TypeOK
<1>3. CASE Receive(i)
  <2> DEFINE continue == cycle[i].waiting100 /\ conn = "open"
             c == [cycle[i] EXCEPT !.waiting100 = @ /\ ~continue]
  <2>1. c \in Cycles /\ SameResponse(cycle[i], c) /\ c.keepAlive = cycle[i].keepAlive
    <3>1. PICK w \in BOOLEAN : w = (cycle[i].waiting100 /\ ~continue)
        OBVIOUS
    <3>2. c = [cycle[i] EXCEPT !.waiting100 = w]
        BY <3>1
    <3> HIDE DEF c
    <3>3. QED
        BY <1>2, <3>2 DEF Cycles, SameResponse
  <2>2. cycle' = [cycle EXCEPT ![i] =
                    IF c.event THEN TakeMessage(c) ELSE [c EXCEPT !.recv = "wait"]]
      BY <1>3 DEF Receive
  <2> HIDE DEF c
  <2>3. CASE c.event
    <3>1. /\ TakeMessage(c) \in Cycles /\ SameResponse(c, TakeMessage(c))
          /\ TakeMessage(c).keepAlive = c.keepAlive
        BY <2>1, TakeTyped
    <3>2. QED
        BY <1>1, <2>1, <2>2, <2>3, <3>1, KeptByCycle DEF SameResponse
  <2>4. CASE ~c.event
    <3>1. PICK d : d = [c EXCEPT !.recv = "wait"]
        OBVIOUS
    <3>2. /\ d \in Cycles /\ SameResponse(c, d) /\ d.keepAlive = c.keepAlive
        BY <2>1, <3>1 DEF Cycles, SameResponse
    <3>3. cycle' = [cycle EXCEPT ![i] = d]
        BY <2>2, <2>4, <3>1
    <3>4. QED
        BY <1>1, <2>1, <3>2, <3>3, KeptByCycle DEF SameResponse
  <2>5. QED
      BY <2>3, <2>4
<1>4. CASE ReceiveWakes(i)
  <2>1. cycle' = [cycle EXCEPT ![i] = TakeMessage(cycle[i])]
      BY <1>4 DEF ReceiveWakes
  <2>2. /\ TakeMessage(cycle[i]) \in Cycles
        /\ SameResponse(cycle[i], TakeMessage(cycle[i]))
        /\ TakeMessage(cycle[i]).keepAlive = cycle[i].keepAlive
      BY <1>2, TakeTyped
  <2>3. QED
      BY <1>1, <2>1, <2>2, KeptByCycle
<1>5. ASSUME NEW s \in {"idle", "drain", "drained"},
             cycle' = [cycle EXCEPT ![i].snd = s]
      PROVE  Kept
  <2>1. PICK c : c = [cycle[i] EXCEPT !.snd = s]
      OBVIOUS
  <2>2. c \in Cycles /\ SameResponse(cycle[i], c) /\ c.keepAlive = cycle[i].keepAlive
      BY <1>2, <2>1 DEF Cycles, SameResponse
  <2>3. cycle' = [cycle EXCEPT ![i] = c]
      BY <1>5, <2>1
  <2>4. QED
      BY <1>1, <2>2, <2>3, KeptByCycle
<1>6. QED
    BY <1>3, <1>4, <1>5 DEF SendWaits, SendReturns, SendBody

\* handle_events, resume_writing and shutdown() leave the responses alone.
LEMMA CallbackKept ==
    ASSUME TypeOK, OrderInv, HalvesInv,
           Data \/ EndOfMessage \/ ResumeWriting \/ Shutdown
    PROVE  Kept
<1>1. CASE UNCHANGED cycle
    BY <1>1, KeptUnchanged
<1>2. CASE ResumeWriting
    BY <1>2, ReleasedKept DEF ResumeWriting, Kept
<1>3. CASE Data /\ cycle' # cycle
  <2>1. cur \in Requests /\ cur <= cur
      BY <1>3, MaxRequestsAssumption DEF Data, HalvesInv, TypeOK, Requests
  <2>2. /\ cycle[cur] \in Cycles /\ cycle[cur].body <= HighWater
        /\ cycle' = [cycle EXCEPT ![cur].body = @ + 1, ![cur].event = TRUE]
      BY <1>3, <2>1 DEF Data, TypeOK
  <2>3. PICK c : c = [cycle[cur] EXCEPT !.body = @ + 1, !.event = TRUE]
      OBVIOUS
  <2>4. cycle[cur].body + 1 \in 0 .. HighWater + 1
      BY <2>2, HighWaterAssumption DEF Cycles
  <2>5. PICK b \in 0 .. HighWater + 1 : b = cycle[cur].body + 1
      BY <2>4
  <2>6. c = [cycle[cur] EXCEPT !.body = b, !.event = TRUE]
      BY <2>3, <2>5
  <2>7. c \in Cycles /\ SameResponse(cycle[cur], c) /\ c.keepAlive = cycle[cur].keepAlive
      BY <2>2, <2>6 DEF Cycles, SameResponse
  <2>8. cycle' = [cycle EXCEPT ![cur] = c]
      BY <2>1, <2>2, <2>3 DEF TypeOK
  <2>9. QED
      BY <2>1, <2>7, <2>8, KeptByCycle
<1>4. CASE EndOfMessage /\ cycle' # cycle
  <2>1. cur \in Requests /\ cur <= cur
      BY <1>4, MaxRequestsAssumption DEF EndOfMessage, HalvesInv, TypeOK, Requests
  <2>2. PICK c : c = [cycle[cur] EXCEPT !.moreBody = FALSE, !.event = TRUE]
      OBVIOUS
  <2>3. c \in Cycles /\ SameResponse(cycle[cur], c) /\ c.keepAlive = cycle[cur].keepAlive
      BY <2>1, <2>2 DEF TypeOK, Cycles, SameResponse
  <2>4. cycle' = [cycle EXCEPT ![cur] = c]
      BY <1>4, <2>1, <2>2 DEF EndOfMessage, TypeOK
  <2>5. QED
      BY <2>1, <2>3, <2>4, KeptByCycle
<1>5. CASE Shutdown /\ cycle' # cycle
  <2>1. cur \in Requests /\ cur <= cur /\ cycle' = [cycle EXCEPT ![cur].keepAlive = FALSE]
      BY <1>5, MaxRequestsAssumption DEF Shutdown, LatestComplete, TypeOK, Requests
  <2>2. PICK c : c = [cycle[cur] EXCEPT !.keepAlive = FALSE]
      OBVIOUS
  <2>3. c \in Cycles /\ SameResponse(cycle[cur], c) /\ ~c.keepAlive
      BY <2>1, <2>2 DEF TypeOK, Cycles, SameResponse
  <2>4. cycle' = [cycle EXCEPT ![cur] = c]
      BY <2>1, <2>2 DEF TypeOK
  <2>5. QED
      BY <2>1, <2>3, <2>4, KeptByCycle
<1>6. QED
    BY <1>1, <1>2, <1>3, <1>4, <1>5

\* The head of a request makes its cycle, and the application is started.
LEMMA RequestCycle ==
    ASSUME TypeOK, OrderInv, Request
    PROVE  /\ cur + 1 \in Requests /\ OnlyCycle(cur + 1)
           /\ cycle'[cur + 1].phase = "app" /\ ~cycle'[cur + 1].started
           /\ ~cycle'[cur + 1].complete /\ ~cycle'[cur + 1].disconnected
<1>1. cur + 1 \in Requests /\ cur + 1 > cur
    BY MaxRequestsAssumption DEF Request, TakeHead, TypeOK, Requests
<1>2. PICK expect \in BOOLEAN :
          cycle' = [cycle EXCEPT ![cur + 1].phase = "app", ![cur + 1].waiting100 = expect]
    BY DEF Request
<1>3. PICK c : c = [cycle[cur + 1] EXCEPT !.phase = "app", !.waiting100 = expect]
    OBVIOUS
<1>4. /\ c \in Cycles /\ c.phase = "app" /\ c.started = cycle[cur + 1].started
      /\ c.complete = cycle[cur + 1].complete
      /\ c.disconnected = cycle[cur + 1].disconnected
    BY <1>1, <1>3 DEF TypeOK, Cycles
<1>5. cycle' = [cycle EXCEPT ![cur + 1] = c]
    BY <1>1, <1>2, <1>3 DEF TypeOK
<1>6. OnlyCycle(cur + 1) /\ cycle'[cur + 1] = c
    BY <1>1, <1>4, <1>5, Update
<1>7. Fresh(cycle[cur + 1])
    BY <1>1 DEF OrderInv
<1>8. QED
    BY <1>1, <1>4, <1>6, <1>7 DEF Fresh

\* The start of a response, whether it is sent or refused.
LEMMA StartCycle ==
    ASSUME TypeOK, NEW i \in Requests, NEW close \in BOOLEAN, NEW valid \in BOOLEAN,
           SendStart(i, close, valid)
    PROVE  /\ OnlyCycle(i) /\ cycle'[i].started
           /\ cycle'[i].phase \in {cycle[i].phase, "done"}
           /\ cycle'[i].phase = "done" => ours' = "ERROR"
           /\ cycle'[i].complete = cycle[i].complete
           /\ cycle'[i].disconnected = cycle[i].disconnected
           /\ cycle'[i].keepAlive = cycle[i].keepAlive
           /\ ours = "ERROR" => ours' = "ERROR"
<1>1. PICK c : c = [cycle[i] EXCEPT !.started = TRUE, !.waiting100 = FALSE]
    OBVIOUS
<1>2. /\ c \in Cycles /\ c.started /\ c.phase = cycle[i].phase
      /\ c.complete = cycle[i].complete /\ c.disconnected = cycle[i].disconnected
      /\ c.keepAlive = cycle[i].keepAlive
    BY <1>1 DEF TypeOK, Cycles
<1>3. cycle[i].phase \in {"app", "fail"} /\ (cycle[i].phase = "fail" => valid)
    BY DEF SendStart, CanSend
<1>4. CASE valid /\ MaySend("Response")
  <2>1. PICK d : d = [c EXCEPT !.snd = "idle"]
      OBVIOUS
  <2>2. /\ d \in Cycles /\ d.started /\ d.phase = c.phase
        /\ d.complete = c.complete /\ d.disconnected = c.disconnected
        /\ d.keepAlive = c.keepAlive
      BY <1>2, <2>1 DEF Cycles
  <2>3. cycle' = [cycle EXCEPT ![i] = d]
      BY <1>1, <1>4, <2>1 DEF SendStart
  <2>4. OnlyCycle(i) /\ cycle'[i] = d
      BY <2>2, <2>3, Update
  <2>5. ours # "ERROR"
      BY <1>4 DEF MaySend
  <2>6. QED
      BY <1>2, <1>3, <2>2, <2>4, <2>5
<1>5. CASE ~(valid /\ MaySend("Response"))
  <2>1. cycle' = [cycle EXCEPT ![i] = SendRaises(c)]
      BY <1>1, <1>5 DEF SendStart
  <2>2. /\ SendRaises(c) \in Cycles
        /\ SendRaises(c).phase = IF c.phase = "fail" THEN "done" ELSE c.phase
        /\ SendRaises(c).started = c.started
        /\ SendRaises(c).complete = c.complete
        /\ SendRaises(c).disconnected = c.disconnected
        /\ SendRaises(c).keepAlive = c.keepAlive
      BY <1>2, RaisesTyped
  <2>3. OnlyCycle(i) /\ cycle'[i] = SendRaises(c)
      BY <2>1, <2>2, Update
  <2>4. valid => ours' = "ERROR"
      BY <1>5 DEF SendStart, Refuse, Settle
  <2>5. ~valid => ours' = ours
      BY <1>5 DEF SendStart
  <2>6. QED
      BY <1>2, <1>3, <2>2, <2>3, <2>4, <2>5
<1>6. QED
    BY <1>4, <1>5

\* The end of a response: counted, or refused by h11.
LEMMA LastCycle ==
    ASSUME TypeOK, NEW i \in Requests, NEW whole \in BOOLEAN, SendLast(i, whole)
    PROVE  /\ OnlyCycle(i)
           /\ cycle'[i].phase = IF cycle[i].phase = "fail" THEN "done" ELSE cycle[i].phase
           /\ cycle'[i].started = cycle[i].started
           /\ cycle'[i].disconnected = cycle[i].disconnected
           /\ cycle'[i].keepAlive = cycle[i].keepAlive
           /\ \/ total' = total + 1 /\ cycle'[i].complete /\ ours = "SEND_BODY"
              \/ total' = total /\ ours' = "ERROR" /\ UNCHANGED <<conn, feeding, readPaused>>
<1>1. PICK c : c = SendRaises(cycle[i])
    OBVIOUS
<1>2. /\ c \in Cycles
      /\ c.phase = IF cycle[i].phase = "fail" THEN "done" ELSE cycle[i].phase
      /\ c.started = cycle[i].started /\ c.complete = cycle[i].complete
      /\ c.disconnected = cycle[i].disconnected /\ c.keepAlive = cycle[i].keepAlive
  <2>1. cycle[i] \in Cycles
      BY DEF TypeOK
  <2>2. QED
      BY <1>1, <2>1, RaisesTyped
<1>3. PICK d : d = [c EXCEPT !.complete = TRUE, !.event = TRUE]
    OBVIOUS
<1>4. /\ d \in Cycles /\ d.phase = c.phase /\ d.started = c.started /\ d.complete
      /\ d.disconnected = c.disconnected /\ d.keepAlive = c.keepAlive
    BY <1>2, <1>3 DEF Cycles
<1>5. ~cycle[i].complete /\ (cycle[i].phase = "fail" => whole)
    BY DEF SendLast
<1>6. CASE MaySend("Data")
  <2>1. cycle' = [cycle EXCEPT ![i] = d]
      BY <1>1, <1>3, <1>6 DEF SendLast
  <2>2. OnlyCycle(i) /\ cycle'[i] = d
      BY <1>4, <2>1, Update
  <2>3. \/ whole /\ total' = total + 1
        \/ ~whole /\ total' = total /\ ours' = "ERROR" /\ UNCHANGED <<conn, feeding, readPaused>>
      BY <1>6 DEF SendLast, OnResponseComplete, Refuse, Settle
  <2>4. ours = "SEND_BODY"
      BY <1>6 DEF MaySend
  <2>5. QED
      BY <1>2, <1>4, <1>5, <2>2, <2>3, <2>4
<1>7. CASE ~MaySend("Data")
  <2>1. cycle' = [cycle EXCEPT ![i] = c] /\ total' = total /\ ours' = "ERROR"
        /\ UNCHANGED <<conn, feeding, readPaused>>
      BY <1>1, <1>7 DEF SendLast, Refuse, Settle
  <2>2. OnlyCycle(i) /\ cycle'[i] = c
      BY <1>2, <2>1, Update
  <2>3. QED
      BY <1>2, <1>5, <2>1, <2>2
<1>8. QED
    BY <1>6, <1>7

\* The end of an application.
LEMMA EndsCycle ==
    ASSUME TypeOK, NEW i \in Requests, NEW ph \in {"fail", "done"},
           NEW close \in BOOLEAN, RunAsgiEnds(i, ph, close)
    PROVE  /\ OnlyCycle(i)
           /\ cycle'[i].phase = ph /\ cycle'[i].started = cycle[i].started
           /\ cycle'[i].complete = cycle[i].complete
           /\ cycle'[i].disconnected = cycle[i].disconnected
           /\ cycle'[i].keepAlive = cycle[i].keepAlive
<1>0. PICK b \in Cycles : b = cycle[i]
    BY DEF TypeOK
<1>1. PICK c : c = [b EXCEPT !.phase = ph, !.recv = "idle", !.snd = "idle"]
    OBVIOUS
<1>2. /\ c \in Cycles /\ c.phase = ph /\ c.started = cycle[i].started
      /\ c.complete = cycle[i].complete /\ c.disconnected = cycle[i].disconnected
      /\ c.keepAlive = cycle[i].keepAlive
    BY <1>0, <1>1 DEF Cycles
<1>3. cycle' = [cycle EXCEPT ![i] = c]
    BY <1>0, <1>1 DEF RunAsgiEnds, TypeOK
<1>4. QED
    BY <1>2, <1>3, Update

AppEnds(i) == AppRaises(i) \/ AppReturnsValue(i) \/ AppReturnsNone(i) \/ FailDropped(i)

\* The four ways out: with a 500 still to send only before the response has
\* started; without one after it was completed, or by closing the connection,
\* unless that is lost.
LEMMA AppEndsCycle ==
    ASSUME TypeOK, NEW i \in Requests, AppEnds(i)
    PROVE  /\ OnlyCycle(i)
           /\ cycle[i].phase \in {"app", "fail"}
           /\ cycle'[i].started = cycle[i].started
           /\ cycle'[i].complete = cycle[i].complete
           /\ cycle'[i].disconnected = cycle[i].disconnected
           /\ cycle'[i].keepAlive = cycle[i].keepAlive
           /\ \/ cycle'[i].phase = "fail" /\ ~cycle[i].started /\ conn' = conn
              \/ cycle'[i].phase = "done" /\ conn' = Closing(conn)
              \/ /\ cycle'[i].phase = "done" /\ conn' = conn
                 /\ cycle[i].complete \/ cycle[i].disconnected
<1>0. cycle[i] \in Cycles
    BY DEF TypeOK
<1>1. PICK ph \in {"fail", "done"}, close \in BOOLEAN :
          /\ RunAsgiEnds(i, ph, close)
          /\ ph = "fail" => ~close /\ ~cycle[i].started
          /\ ph = "done" /\ ~close => cycle[i].complete \/ cycle[i].disconnected
  <2>1. CASE AppRaises(i)
    <3>1. \/ RunAsgiEnds(i, "fail", FALSE) /\ ~cycle[i].started
          \/ RunAsgiEnds(i, "done", TRUE)
        BY <2>1 DEF AppRaises, ClosesOnError, RunAsgiEnds
    <3>2. QED
        BY <3>1
  <2>2. CASE AppReturnsValue(i)
      BY <2>2 DEF AppReturnsValue
  <2>3. CASE AppReturnsNone(i)
    <3>1. \/ RunAsgiEnds(i, "fail", FALSE) /\ ~cycle[i].started
          \/ RunAsgiEnds(i, "done", ~cycle[i].complete /\ ~cycle[i].disconnected)
        BY <2>3 DEF AppReturnsNone
    <3>2. PICK close \in BOOLEAN : close = (~cycle[i].complete /\ ~cycle[i].disconnected)
        OBVIOUS
    <3>3. QED
        BY <3>1, <3>2
  <2>4. CASE FailDropped(i)
      BY <2>4 DEF FailDropped
  <2>5. QED
      BY <2>1, <2>2, <2>3, <2>4 DEF AppEnds
<1>2. conn' = IF close THEN Closing(conn) ELSE conn
    BY <1>1 DEF RunAsgiEnds
<1>3. cycle[i].phase \in {"app", "fail"}
    BY DEF AppEnds, AppRaises, AppReturnsValue, AppReturnsNone, FailDropped
<1>4. QED
    BY <1>1, <1>2, <1>3, EndsCycle

-----------------------------------------------------------------------------
(* The invariant is inductive.                                             *)

\* A connection that is not open stays so, and h11 stays in ERROR.
LEMMA Monotone ==
    ASSUME ConnInv, [Next]_vars
    PROVE  /\ conn # "open" => conn' # "open"
           /\ conn = "lost" => conn' = "lost"
           /\ ours = "ERROR" => ours' = "ERROR"
<1> USE DEF ConnInv, TypeOK, HalvesInv, LoopInv, Settle, Refuse, MaySend
<1>1. CASE UNCHANGED vars
    BY <1>1 DEF vars, h11Vars
<1>2. CASE DataReceived \/ NeedData \/ Paused \/ Request \/ HandleWebsocketUpgrade
    BY <1>2 DEF DataReceived, NeedData, Paused, Request, HandleWebsocketUpgrade,
       TakeHead, h11Vars
<1>3. CASE Data \/ EndOfMessage \/ InvalidRequest
    BY <1>3 DEF Data, EndOfMessage, InvalidRequest, StartNextCycle, h11Vars
<1>4. CASE ResumeWriting \/ EofReceived \/ TransportFails \/ ConnectionLostUpgraded
    BY <1>4 DEF ResumeWriting, EofReceived, TransportFails, ConnectionLostUpgraded, h11Vars
<1>5. CASE ConnectionLost
    BY <1>5 DEF ConnectionLost
<1>6. CASE TimeoutKeepAliveHandler \/ Shutdown
    BY <1>6 DEF TimeoutKeepAliveHandler, Shutdown, Closing
<1>7. ASSUME NEW i \in Requests,
             Receive(i) \/ ReceiveWakes(i) \/ SendWaits(i) \/ SendReturns(i)
      PROVE  UNCHANGED <<conn, ours>>
    BY <1>7 DEF Receive, ReceiveWakes, SendWaits, SendReturns, h11Vars
<1>8. ASSUME NEW i \in Requests, NEW close \in BOOLEAN, NEW valid \in BOOLEAN,
             SendStart(i, close, valid)
      PROVE  UNCHANGED conn /\ (ours = "ERROR" => ours' = "ERROR")
    BY <1>8 DEF SendStart
<1>9. ASSUME NEW i \in Requests, NEW fits \in BOOLEAN, SendBody(i, fits)
      PROVE  UNCHANGED conn /\ (ours = "ERROR" => ours' = "ERROR")
    BY <1>9 DEF SendBody
<1>10. ASSUME NEW i \in Requests, NEW whole \in BOOLEAN, SendLast(i, whole)
       PROVE  conn' \in {conn, Closing(conn)} /\ (ours = "ERROR" => ours' = "ERROR")
    BY <1>10 DEF SendLast
<1>11. ASSUME NEW i \in Requests, AppEnds(i)
       PROVE  conn' \in {conn, Closing(conn)} /\ ours' = ours
    BY <1>11 DEF AppEnds, AppRaises, AppReturnsValue, AppReturnsNone, FailDropped,
       RunAsgiEnds, h11Vars
<1>12. QED
    BY <1>1, <1>2, <1>3, <1>4, <1>5, <1>6, <1>7, <1>8, <1>9, <1>10, <1>11
    DEF Next, HandleEvents, Callbacks, Task, AppEnds, Closing

LEMMA OrderFrame ==
    ASSUME ConnInv, [Next]_vars, Kept, UNCHANGED <<total, cur>>
    PROVE  OrderInv'
BY Monotone DEF ConnInv, OrderInv, Kept, SameResponse

\* A task of a request whose response is not complete works for the latest one.
LEMMA IncompleteIsLatest ==
    ASSUME TypeOK, OrderInv, NEW i \in Requests, ~cycle[i].complete,
           cycle[i].phase # "none"
    PROVE  i = cur /\ total < cur
<1>1. i <= cur
    BY TaskTaken
<1>2. ~(i <= total)
    BY DEF OrderInv
<1>3. QED
    BY <1>1, <1>2, MaxRequestsAssumption DEF TypeOK, OrderInv, Requests

LEMMA OrderStep == ConnInv /\ [Next]_vars => OrderInv'
<1> SUFFICES ASSUME ConnInv, [Next]_vars PROVE OrderInv'
    OBVIOUS
<1>t. TypeOK /\ OrderInv /\ HalvesInv
    BY DEF ConnInv
<1>m. /\ conn = "lost" => conn' = "lost"
      /\ ours = "ERROR" => ours' = "ERROR"
    BY Monotone
<1>n. total \in Nat /\ cur \in Nat /\ \A i \in Requests : i \in Nat
    BY <1>t, MaxRequestsAssumption DEF TypeOK, Requests
<1>1. CASE UNCHANGED vars
    BY <1>t, <1>1, KeptUnchanged, OrderFrame DEF vars, protoVars
<1>2. CASE \/ DataReceived \/ NeedData \/ Paused \/ InvalidRequest \/ EofReceived
           \/ TransportFails \/ ConnectionLostUpgraded \/ TimeoutKeepAliveHandler
  <2>1. UNCHANGED <<total, cur, cycle>>
      BY <1>2 DEF DataReceived, NeedData, Paused, InvalidRequest, EofReceived,
         TransportFails, ConnectionLostUpgraded, TimeoutKeepAliveHandler, protoVars
  <2>2. QED
      BY <1>t, <2>1, KeptUnchanged, OrderFrame
<1>3. CASE Data \/ EndOfMessage \/ ResumeWriting \/ Shutdown
  <2>1. UNCHANGED <<total, cur>>
      BY <1>3 DEF Data, EndOfMessage, ResumeWriting, Shutdown, protoVars
  <2>2. QED
      BY <1>t, <1>3, <2>1, CallbackKept, OrderFrame
<1>4. CASE HandleWebsocketUpgrade
  <2>1. cur' = cur + 1 /\ total' = total /\ cycle' = cycle /\ total = cur /\ conn' = conn
      BY <1>t, <1>4 DEF HandleWebsocketUpgrade, TakeHead, HalvesInv
  <2>2. QED
      BY <1>t, <1>m, <1>n, <2>1 DEF OrderInv
<1>5. CASE Request
  <2>1. cur' = cur + 1 /\ total' = total /\ total = cur /\ conn' = conn
      BY <1>t, <1>5 DEF Request, TakeHead, HalvesInv
  <2>2. /\ cur + 1 \in Requests /\ OnlyCycle(cur + 1)
        /\ cycle'[cur + 1].phase = "app" /\ ~cycle'[cur + 1].started
        /\ ~cycle'[cur + 1].complete /\ ~cycle'[cur + 1].disconnected
      BY <1>t, <1>5, RequestCycle
  <2>3. QED
      BY <1>t, <1>m, <1>n, <2>1, <2>2 DEF OrderInv, OnlyCycle
<1>6. CASE ConnectionLost
  <2>1. UNCHANGED <<total, cur>> /\ conn' = "lost"
      BY <1>6 DEF ConnectionLost
  <2>2. \A j \in Requests : /\ cycle'[j].phase = cycle[j].phase
                            /\ cycle'[j].started = cycle[j].started
                            /\ cycle'[j].complete = cycle[j].complete
                            /\ j > cur => Fresh(cycle'[j])
      BY <1>t, <1>6, LostCycles
  <2>3. QED
      BY <1>t, <1>m, <2>1, <2>2 DEF OrderInv
<1>7. ASSUME NEW i \in Requests,
             \/ Receive(i) \/ ReceiveWakes(i) \/ SendWaits(i) \/ SendReturns(i)
             \/ \E fits \in BOOLEAN : SendBody(i, fits)
      PROVE  OrderInv'
  <2>1. UNCHANGED <<total, cur>>
      BY <1>7 DEF Receive, ReceiveWakes, SendWaits, SendReturns, SendBody, protoVars
  <2>2. QED
      BY <1>t, <1>7, <2>1, QuietKept, OrderFrame
<1>8. ASSUME NEW i \in Requests, NEW close \in BOOLEAN, NEW valid \in BOOLEAN,
             SendStart(i, close, valid)
      PROVE  OrderInv'
  <2>1. UNCHANGED <<total, cur, conn>> /\ cycle[i].phase \in {"app", "fail"}
      BY <1>8 DEF SendStart, CanSend, protoVars
  <2>2. /\ OnlyCycle(i) /\ cycle'[i].started
        /\ cycle'[i].phase \in {cycle[i].phase, "done"}
        /\ cycle'[i].complete = cycle[i].complete
        /\ cycle'[i].disconnected = cycle[i].disconnected
      BY <1>t, <1>8, StartCycle
  <2>3. i <= cur
      BY <1>t, <2>1, TaskTaken
  <2>4. QED
      BY <1>t, <1>m, <1>n, <2>1, <2>2, <2>3 DEF OrderInv, OnlyCycle
<1>9. ASSUME NEW i \in Requests, NEW whole \in BOOLEAN, SendLast(i, whole)
      PROVE  OrderInv'
  <2>1. UNCHANGED cur /\ cycle[i].phase # "none" /\ ~cycle[i].complete /\ cycle[i].started
      BY <1>9 DEF SendLast, CanSend
  <2>2. i = cur /\ total < cur
      BY <1>t, <2>1, IncompleteIsLatest
  <2>3. /\ OnlyCycle(i) /\ cycle'[i].phase # "fail"
        /\ cycle'[i].started = cycle[i].started
        /\ cycle'[i].disconnected = cycle[i].disconnected
        /\ \/ total' = total + 1 /\ cycle'[i].complete
           \/ total' = total /\ ours' = "ERROR"
      BY <1>t, <1>9, LastCycle
  <2>4. total + 1 = cur /\ cycle'[i].started
      BY <1>t, <1>n, <2>1, <2>2, <2>3 DEF OrderInv
  <2>5. CASE total' = total + 1 /\ cycle'[i].complete
      BY <1>t, <1>m, <1>n, <2>1, <2>2, <2>3, <2>4, <2>5 DEF OrderInv, OnlyCycle
  <2>6. CASE total' = total /\ ours' = "ERROR"
      BY <1>t, <1>m, <1>n, <2>1, <2>2, <2>3, <2>4, <2>6 DEF OrderInv, OnlyCycle
  <2>7. QED
      BY <2>3, <2>5, <2>6
<1>10. ASSUME NEW i \in Requests, AppEnds(i)
       PROVE  OrderInv'
  <2>1. UNCHANGED <<total, cur, ours>>
      BY <1>10 DEF AppEnds, AppRaises, AppReturnsValue, AppReturnsNone, FailDropped,
         RunAsgiEnds, protoVars, h11Vars
  <2>2. /\ OnlyCycle(i) /\ cycle[i].phase \in {"app", "fail"}
        /\ cycle'[i].started = cycle[i].started
        /\ cycle'[i].complete = cycle[i].complete
        /\ cycle'[i].disconnected = cycle[i].disconnected
        /\ cycle'[i].phase = "fail" => ~cycle[i].started
      BY <1>t, <1>10, AppEndsCycle
  <2>3. i <= cur
      BY <1>t, <2>2, TaskTaken
  <2>4. QED
      BY <1>t, <1>m, <1>n, <2>1, <2>2, <2>3 DEF OrderInv, OnlyCycle
<1>11. QED
    BY <1>1, <1>2, <1>3, <1>4, <1>5, <1>6, <1>7, <1>8, <1>9, <1>10
    DEF Next, HandleEvents, Callbacks, Task, AppEnds

OurStates   == {"IDLE", "SEND_RESPONSE", "SEND_BODY", "DONE", "MUST_CLOSE", "CLOSED", "ERROR"}
TheirStates == {"IDLE", "SEND_BODY", "DONE", "MUST_CLOSE", "ERROR"}

LEMMA SettleTyped ==
    ASSUME NEW their \in TheirStates, NEW our \in OurStates, NEW keep \in BOOLEAN,
           Settle(their, our, keep)
    PROVE  theirs' \in TheirStates /\ ours' \in OurStates /\ reusable' \in BOOLEAN
BY DEF Settle, OurStates, TheirStates

LEMMA HalvesTyped ==
    ASSUME TypeOK, [Next]_vars
    PROVE  theirs' \in TheirStates /\ ours' \in OurStates /\ reusable' \in BOOLEAN
<1> USE DEF OurStates, TheirStates
<1>t. theirs \in TheirStates /\ ours \in OurStates /\ reusable \in BOOLEAN
    BY DEF TypeOK
<1>r. Refuse => theirs' \in TheirStates /\ ours' \in OurStates /\ reusable' \in BOOLEAN
    BY <1>t, SettleTyped DEF Refuse
<1>n. StartNextCycle => theirs' \in TheirStates /\ ours' \in OurStates /\ reusable' \in BOOLEAN
    BY <1>t DEF StartNextCycle
<1>1. CASE UNCHANGED <<ours, theirs, reusable>>
    BY <1>1, <1>t
<1>2. CASE Request
  <2>1. PICK keep \in BOOLEAN : Settle("SEND_BODY", "SEND_RESPONSE", keep)
      BY <1>2 DEF Request
  <2>2. QED
      BY <2>1, SettleTyped
<1>3. CASE HandleWebsocketUpgrade
    BY <1>3, SettleTyped DEF HandleWebsocketUpgrade
<1>4. CASE EndOfMessage
    BY <1>4, <1>t, <1>n, SettleTyped DEF EndOfMessage
<1>5. CASE InvalidRequest
    BY <1>5, <1>t, SettleTyped DEF InvalidRequest
<1>6. CASE ConnectionLost
    BY <1>6, <1>t, SettleTyped DEF ConnectionLost
<1>7. CASE TimeoutKeepAliveHandler \/ Shutdown
    BY <1>7, <1>t, <1>r, SettleTyped DEF TimeoutKeepAliveHandler, Shutdown
<1>8. ASSUME NEW i \in Requests, NEW close \in BOOLEAN, NEW valid \in BOOLEAN,
             SendStart(i, close, valid)
      PROVE  theirs' \in TheirStates /\ ours' \in OurStates /\ reusable' \in BOOLEAN
  <2>1. PICK keep \in BOOLEAN : keep = (reusable /\ ~close)
      OBVIOUS
  <2>2. CASE Settle(theirs, "SEND_BODY", reusable /\ ~close)
    <3>1. Settle(theirs, "SEND_BODY", keep)
        BY <2>1, <2>2
    <3>2. QED
        BY <1>t, <3>1, SettleTyped
  <2>3. QED
      BY <1>8, <1>t, <1>r, <2>2 DEF SendStart
<1>9. ASSUME NEW i \in Requests, NEW fits \in BOOLEAN, SendBody(i, fits)
      PROVE  theirs' \in TheirStates /\ ours' \in OurStates /\ reusable' \in BOOLEAN
    BY <1>9, <1>t, <1>r DEF SendBody
<1>10. ASSUME NEW i \in Requests, NEW whole \in BOOLEAN, SendLast(i, whole)
       PROVE  theirs' \in TheirStates /\ ours' \in OurStates /\ reusable' \in BOOLEAN
  <2>1. \/ Refuse \/ StartNextCycle
        \/ \E our \in {"CLOSED", "DONE"} : Settle(theirs, our, reusable)
      BY <1>10 DEF SendLast, OnResponseComplete
  <2>2. QED
      BY <1>t, <1>r, <1>n, <2>1, SettleTyped
<1>11. CASE \/ DataReceived \/ NeedData \/ Paused \/ Data \/ ResumeWriting
            \/ EofReceived \/ TransportFails \/ ConnectionLostUpgraded
            \/ UNCHANGED vars
    BY <1>1, <1>11 DEF DataReceived, NeedData, Paused, Data, ResumeWriting,
       EofReceived, TransportFails, ConnectionLostUpgraded, vars, h11Vars
<1>12. ASSUME NEW i \in Requests,
              Receive(i) \/ ReceiveWakes(i) \/ SendWaits(i) \/ SendReturns(i) \/ AppEnds(i)
       PROVE  UNCHANGED <<ours, theirs, reusable>>
    BY <1>12 DEF Receive, ReceiveWakes, SendWaits, SendReturns, AppEnds, AppRaises,
       AppReturnsValue, AppReturnsNone, FailDropped, RunAsgiEnds, h11Vars
<1>13. QED
    BY <1>1, <1>2, <1>3, <1>4, <1>5, <1>6, <1>7, <1>8, <1>9, <1>10, <1>11, <1>12
    DEF Next, HandleEvents, Callbacks, Task, AppEnds

LEMMA CyclesTyped ==
    ASSUME ConnInv, [Next]_vars
    PROVE  cycle' \in [Requests -> Cycles]
<1>t. TypeOK /\ OrderInv /\ HalvesInv /\ cycle \in [Requests -> Cycles]
    BY DEF ConnInv, TypeOK
<1>1. CASE \/ DataReceived \/ NeedData \/ Paused \/ HandleWebsocketUpgrade
           \/ InvalidRequest \/ EofReceived \/ TransportFails
           \/ ConnectionLostUpgraded \/ TimeoutKeepAliveHandler \/ UNCHANGED vars
    BY <1>1, <1>t DEF DataReceived, NeedData, Paused, HandleWebsocketUpgrade,
       InvalidRequest, EofReceived, TransportFails, ConnectionLostUpgraded,
       TimeoutKeepAliveHandler, vars
<1>2. CASE Data \/ EndOfMessage \/ ResumeWriting \/ Shutdown
    BY <1>2, <1>t, CallbackKept DEF Kept
<1>3. CASE Request
    BY <1>3, <1>t, RequestCycle DEF OnlyCycle
<1>4. CASE ConnectionLost
    BY <1>4, <1>t, LostCycles
<1>5. ASSUME NEW i \in Requests,
             \/ Receive(i) \/ ReceiveWakes(i) \/ SendWaits(i) \/ SendReturns(i)
             \/ \E fits \in BOOLEAN : SendBody(i, fits)
      PROVE  cycle' \in [Requests -> Cycles]
    BY <1>5, <1>t, QuietKept DEF Kept
<1>6. ASSUME NEW i \in Requests, NEW close \in BOOLEAN, NEW valid \in BOOLEAN,
             SendStart(i, close, valid)
      PROVE  cycle' \in [Requests -> Cycles]
    BY <1>6, <1>t, StartCycle DEF OnlyCycle
<1>7. ASSUME NEW i \in Requests, NEW whole \in BOOLEAN, SendLast(i, whole)
      PROVE  cycle' \in [Requests -> Cycles]
    BY <1>7, <1>t, LastCycle DEF OnlyCycle
<1>8. ASSUME NEW i \in Requests, AppEnds(i)
      PROVE  cycle' \in [Requests -> Cycles]
    BY <1>8, <1>t, AppEndsCycle DEF OnlyCycle
<1>9. QED
    BY <1>1, <1>2, <1>3, <1>4, <1>5, <1>6, <1>7, <1>8
    DEF Next, HandleEvents, Callbacks, Task, AppEnds

LEMMA TypeStep == ConnInv /\ [Next]_vars => TypeOK'
<1> SUFFICES ASSUME ConnInv, [Next]_vars PROVE TypeOK'
    OBVIOUS
<1>t. TypeOK /\ OrderInv
    BY DEF ConnInv
<1>h. theirs' \in TheirStates /\ ours' \in OurStates /\ reusable' \in BOOLEAN
    BY <1>t, HalvesTyped
<1>c. cycle' \in [Requests -> Cycles]
    BY CyclesTyped
<1>w. Write => writePaused' \in BOOLEAN
    BY <1>t DEF TypeOK, Write
<1>1. /\ conn' \in {"open", "closing", "lost"}
      /\ failed' \in BOOLEAN /\ feeding' \in BOOLEAN
      /\ asked' \in {"no", "yes", "raised"}
      /\ inConnections' \in BOOLEAN /\ upgraded' \in BOOLEAN
      /\ timer' \in BOOLEAN /\ readPaused' \in BOOLEAN /\ writePaused' \in BOOLEAN
  <2> USE <1>t, <1>w DEF TypeOK, protoVars
  <2>1. CASE UNCHANGED vars
      BY <2>1 DEF vars
  <2>2. CASE DataReceived \/ NeedData \/ Paused
      BY <2>2 DEF DataReceived, NeedData, Paused
  <2>r. CASE Request
      BY <2>r DEF Request
  <2>u. CASE HandleWebsocketUpgrade
      BY <2>u DEF HandleWebsocketUpgrade
  <2>3. CASE Data \/ EndOfMessage
      BY <2>3 DEF Data, EndOfMessage
  <2>4. CASE InvalidRequest
      BY <2>4 DEF InvalidRequest
  <2>5. CASE ResumeWriting \/ EofReceived \/ TransportFails \/ ConnectionLostUpgraded
      BY <2>5 DEF ResumeWriting, EofReceived, TransportFails, ConnectionLostUpgraded
  <2>6. CASE ConnectionLost
      BY <2>6 DEF ConnectionLost
  <2>7. CASE TimeoutKeepAliveHandler \/ Shutdown
      BY <2>7 DEF TimeoutKeepAliveHandler, Shutdown, Closing
  <2>8. ASSUME NEW i \in Requests,
               Receive(i) \/ ReceiveWakes(i) \/ SendWaits(i) \/ SendReturns(i)
        PROVE  /\ UNCHANGED <<conn, failed, feeding, protoVars>>
               /\ readPaused' \in BOOLEAN /\ writePaused' \in BOOLEAN
      BY <2>8 DEF Receive, ReceiveWakes, SendWaits, SendReturns
  <2>9. ASSUME NEW i \in Requests, NEW close \in BOOLEAN, NEW valid \in BOOLEAN,
               SendStart(i, close, valid)
        PROVE  /\ UNCHANGED <<conn, failed, feeding, protoVars, readPaused>>
               /\ writePaused' \in BOOLEAN
      BY <2>9 DEF SendStart
  <2>10. ASSUME NEW i \in Requests, NEW fits \in BOOLEAN, SendBody(i, fits)
        PROVE  /\ UNCHANGED <<conn, failed, feeding, protoVars, readPaused>>
               /\ writePaused' \in BOOLEAN
      BY <2>10 DEF SendBody
  <2>11. ASSUME NEW i \in Requests, NEW whole \in BOOLEAN, SendLast(i, whole)
        PROVE  /\ UNCHANGED <<failed, asked, inConnections, upgraded>>
               /\ conn' \in {conn, Closing(conn)}
               /\ feeding' \in BOOLEAN /\ timer' \in BOOLEAN
               /\ readPaused' \in BOOLEAN /\ writePaused' \in BOOLEAN
      BY <2>11 DEF SendLast, OnResponseComplete
  <2>12. ASSUME NEW i \in Requests, AppEnds(i)
        PROVE  /\ UNCHANGED <<failed, feeding, protoVars, readPaused, writePaused>>
               /\ conn' \in {conn, Closing(conn)}
      BY <2>12 DEF AppEnds, AppRaises, AppReturnsValue, AppReturnsNone, FailDropped,
         RunAsgiEnds
  <2>13. QED
      BY <2>1, <2>2, <2>r, <2>u, <2>3, <2>4, <2>5, <2>6, <2>7, <2>8, <2>9, <2>10,
         <2>11, <2>12
      DEF Next, HandleEvents, Callbacks, Task, AppEnds, Closing
<1>2. heads' \in 0 .. MaxRequests - cur' /\ cur' \in 0 .. MaxRequests
  <2> USE <1>t, MaxRequestsAssumption DEF TypeOK
  <2>1. CASE UNCHANGED <<heads, cur>>
      BY <2>1
  <2>2. CASE Paused
      BY <2>2 DEF Paused, protoVars
  <2>3. CASE TakeHead
      BY <2>3 DEF TakeHead
  <2>4. CASE \/ DataReceived \/ NeedData \/ Data \/ EndOfMessage \/ InvalidRequest
             \/ Callbacks \/ UNCHANGED vars
      BY <2>1, <2>4 DEF DataReceived, NeedData, Data, EndOfMessage, InvalidRequest,
         Callbacks, ResumeWriting, EofReceived, TransportFails, ConnectionLost,
         ConnectionLostUpgraded, TimeoutKeepAliveHandler, Shutdown,
         vars, h11Vars, protoVars
  <2>5. ASSUME NEW i \in Requests, Task(i)
        PROVE  UNCHANGED <<heads, cur>>
      BY <2>5 DEF Task, Receive, ReceiveWakes, SendWaits, SendReturns, SendStart,
         SendBody, SendLast, AppRaises, AppReturnsValue, AppReturnsNone,
         FailDropped, RunAsgiEnds, h11Vars, protoVars
  <2>6. QED
      BY <2>1, <2>2, <2>3, <2>4, <2>5 DEF Next, HandleEvents, Request, HandleWebsocketUpgrade
<1>3. total' \in 0 .. cur'
  <2>1. total' \in Nat
    <3>1. CASE UNCHANGED total
        BY <1>t, <3>1, MaxRequestsAssumption DEF TypeOK
    <3>2. ASSUME NEW i \in Requests, NEW whole \in BOOLEAN, SendLast(i, whole)
          PROVE  total' \in {total, total + 1}
        BY <3>2 DEF SendLast, OnResponseComplete
    <3>3. ASSUME NEW i \in Requests, Task(i),
                 ~ \E whole \in BOOLEAN : SendLast(i, whole)
          PROVE  UNCHANGED total
        BY <3>3 DEF Task, Receive, ReceiveWakes, SendWaits, SendReturns, SendStart,
           SendBody, AppRaises, AppReturnsValue, AppReturnsNone,
           FailDropped, RunAsgiEnds, protoVars
    <3>4. HandleEvents \/ Callbacks \/ UNCHANGED vars => UNCHANGED total
        BY DEF HandleEvents, DataReceived, NeedData, Paused, Request,
           HandleWebsocketUpgrade, Data, EndOfMessage, InvalidRequest,
           Callbacks, ResumeWriting, EofReceived, TransportFails, ConnectionLost,
           ConnectionLostUpgraded, TimeoutKeepAliveHandler, Shutdown, vars, protoVars
    <3>5. QED
        BY <1>t, <3>1, <3>2, <3>3, <3>4, MaxRequestsAssumption DEF Next, TypeOK
  <2>2. total' <= cur'
      BY OrderStep DEF OrderInv
  <2>3. QED
      BY <1>2, <2>1, <2>2, MaxRequestsAssumption
<1>4. QED
    BY <1>h, <1>c, <1>1, <1>2, <1>3 DEF TypeOK, OurStates, TheirStates

\* Tasks run while handle_events does not.
LEMMA TaskNotFeeding ==
    ASSUME ConnInv, NEW i \in Requests, Task(i)
    PROVE  ~feeding
BY DEF ConnInv, LoopInv, FailSends, Task, Receive, ReceiveWakes, SendWaits,
   SendReturns, SendStart, SendBody, SendLast, CanSend, AppRaises,
   AppReturnsValue, AppReturnsNone, FailDropped, Free

\* The last part of a response is sent by the task of the latest request.
LEMMA LastIsLatest ==
    ASSUME ConnInv, NEW i \in Requests, NEW whole \in BOOLEAN, SendLast(i, whole)
    PROVE  i = cur /\ total + 1 = cur /\ ~feeding /\ ~upgraded
<1>1. ~feeding
    BY TaskNotFeeding DEF Task
<1>2. ~cycle[i].complete /\ cycle[i].phase \in {"app", "fail"}
    BY DEF SendLast, CanSend
<1>3. i = cur /\ total < cur
    BY <1>2, IncompleteIsLatest DEF ConnInv
<1>4. total + 1 = cur
    BY <1>3, MaxRequestsAssumption DEF ConnInv, OrderInv, TypeOK
<1>5. ~upgraded
    BY <1>2, <1>3 DEF ConnInv, LoopInv
<1>6. QED
    BY <1>1, <1>3, <1>4, <1>5

\* The ways a response that is counted leaves the connection: closing; ready
\* for the next request, whose head is read at once; or reading on for the rest
\* of a request answered early, with no head behind it.
LEMMA Counted ==
    ASSUME ConnInv, NEW i \in Requests, NEW whole \in BOOLEAN, SendLast(i, whole),
           total' = total + 1
    PROVE  \/ /\ conn' # "open" /\ feeding' = feeding /\ ours' # "IDLE" /\ theirs' # "IDLE"
              /\ theirs' = "DONE" => ours' = "DONE"
              /\ theirs' = "MUST_CLOSE" /\ reusable' => ours' = "CLOSED"
           \/ conn' = "open" /\ feeding' /\ ours' = "IDLE" /\ theirs' = "IDLE" /\ ~readPaused'
           \/ /\ conn' = "open" /\ ~feeding' /\ ours' = "DONE" /\ theirs' = "SEND_BODY"
              /\ ~readPaused' /\ heads = 0 /\ UNCHANGED reusable
<1>1. i = cur /\ total + 1 = cur /\ ~feeding /\ ~upgraded
    BY LastIsLatest
<1>2. /\ conn \in {"open", "closing", "lost"} /\ reusable \in BOOLEAN
      /\ theirs \in {"IDLE", "SEND_BODY", "DONE", "MUST_CLOSE", "ERROR"}
      /\ total \in Nat
    BY MaxRequestsAssumption DEF ConnInv, TypeOK
<1>3. MaySend("Data")
    BY <1>2 DEF SendLast
<1>4. ours = "SEND_BODY" /\ theirs # "IDLE"
    BY <1>3 DEF MaySend, ConnInv, HalvesInv
<1>5. theirs = "MUST_CLOSE" => ~reusable
    BY <1>4 DEF ConnInv, HalvesInv
<1>6. heads > 0 => theirs # "SEND_BODY"
    BY <1>1 DEF ConnInv, LoopInv
<1>7. heads \in Nat
    BY MaxRequestsAssumption DEF ConnInv, TypeOK
<1>8. CASE EndsConnection(cycle[i])
  <2>1. conn' = Closing(conn) /\ OnResponseComplete(conn', theirs, "CLOSED")
      BY <1>2, <1>3, <1>8 DEF SendLast
  <2>2. conn' # "open"
      BY <1>2, <2>1 DEF Closing
  <2>3. feeding' = feeding /\ Settle(theirs, "CLOSED", reusable)
      BY <2>1, <2>2 DEF OnResponseComplete, GoesOn
  <2>4. QED
      BY <1>2, <1>4, <2>2, <2>3 DEF Settle
<1>9. CASE ~EndsConnection(cycle[i])
  <2>1. conn' = conn /\ OnResponseComplete(conn, theirs, "DONE")
      BY <1>2, <1>3, <1>9 DEF SendLast
  <2>2. reusable /\ theirs # "ERROR"
      BY <1>9 DEF EndsConnection
  <2>3. theirs \in {"SEND_BODY", "DONE"}
      BY <1>2, <1>4, <1>5, <2>2
  <2>4. CASE conn = "open" /\ theirs = "DONE"
      BY <2>1, <2>4 DEF OnResponseComplete, GoesOn, StartNextCycle
  <2>5. CASE conn = "open" /\ theirs = "SEND_BODY"
      BY <1>1, <1>6, <1>7, <2>1, <2>2, <2>5 DEF OnResponseComplete, GoesOn, Settle
  <2>6. CASE conn # "open"
      BY <1>4, <2>1, <2>2, <2>3, <2>6 DEF OnResponseComplete, GoesOn, Settle
  <2>7. QED
      BY <2>3, <2>4, <2>5, <2>6
<1>10. QED
    BY <1>8, <1>9

LEMMA HalvesFrame ==
    ASSUME ConnInv, [Next]_vars, UNCHANGED <<ours, theirs, reusable, total, cur>>,
           heads' = heads \/ theirs = "DONE"
    PROVE  HalvesInv'
BY Monotone DEF ConnInv, HalvesInv

\* h11 refuses an event of a task, whose request it waits to see answered.
LEMMA HalvesRefuse ==
    ASSUME ConnInv, [Next]_vars, Refuse, UNCHANGED <<total, cur>>,
           theirs # "IDLE", ours \notin {"IDLE", "DONE"}
    PROVE  HalvesInv'
<1>1. /\ theirs' = (IF theirs = "DONE" THEN "MUST_CLOSE" ELSE theirs)
      /\ ours' = "ERROR" /\ reusable' = reusable
    BY DEF Refuse, Settle
<1>2. theirs \in TheirStates
    BY DEF ConnInv, TypeOK, TheirStates
<1>3. QED
    BY <1>1, <1>2, Monotone DEF ConnInv, HalvesInv, TheirStates

LEMMA HalvesStep == ConnInv /\ [Next]_vars => HalvesInv'
<1> SUFFICES ASSUME ConnInv, [Next]_vars PROVE HalvesInv'
    OBVIOUS
<1>t. /\ theirs \in TheirStates /\ ours \in OurStates /\ reusable \in BOOLEAN
      /\ conn \in {"open", "closing", "lost"} /\ total \in Nat /\ cur \in Nat
      /\ total <= cur /\ cur <= total + 1
    BY MaxRequestsAssumption DEF ConnInv, OrderInv, TypeOK, TheirStates, OurStates
<1>m. /\ conn # "open" => conn' # "open"
      /\ ours = "ERROR" => ours' = "ERROR"
    BY Monotone
<1>1. CASE \/ DataReceived \/ NeedData \/ Paused \/ Data \/ ResumeWriting
           \/ EofReceived \/ TransportFails \/ ConnectionLostUpgraded \/ UNCHANGED vars
    BY <1>1, HalvesFrame DEF DataReceived, NeedData, Paused, Data, ResumeWriting,
       EofReceived, TransportFails, ConnectionLostUpgraded, vars, h11Vars, protoVars
<1>2. CASE Request
  <2>1. PICK keep \in BOOLEAN : Settle("SEND_BODY", "SEND_RESPONSE", keep)
      BY <1>2 DEF Request
  <2>2. theirs' = "SEND_BODY" /\ ours' = "SEND_RESPONSE"
      BY <2>1 DEF Settle
  <2>3. cur' = cur + 1 /\ total' = total
      BY <1>2 DEF Request, TakeHead
  <2>4. QED
      BY <1>t, <2>2, <2>3 DEF HalvesInv
<1>3. CASE HandleWebsocketUpgrade
  <2>1. theirs' = "SEND_BODY" /\ ours' = "SEND_RESPONSE"
      BY <1>3 DEF HandleWebsocketUpgrade, Settle
  <2>2. cur' = cur + 1 /\ total' = total
      BY <1>3 DEF HandleWebsocketUpgrade, TakeHead
  <2>3. QED
      BY <1>t, <2>1, <2>2 DEF HalvesInv
<1>4. CASE EndOfMessage
  <2>1. UNCHANGED <<conn, heads, total, cur>> /\ theirs = "SEND_BODY" /\ conn = "open"
      BY <1>4 DEF EndOfMessage, protoVars, ConnInv, LoopInv
  <2>2. CASE ours = "DONE"
      BY <1>4, <1>t, <2>1, <2>2 DEF EndOfMessage, StartNextCycle, ConnInv, HalvesInv
  <2>3. CASE ours # "DONE"
    <3>1. Settle("DONE", ours, reusable)
        BY <1>4, <2>3 DEF EndOfMessage
    <3>2. QED
        BY <1>t, <2>1, <2>3, <3>1 DEF Settle, ConnInv, HalvesInv, OurStates
  <2>4. QED
      BY <2>2, <2>3
<1>5. CASE InvalidRequest
  <2>1. UNCHANGED <<total, cur>> /\ conn' = "closing"
      BY <1>5 DEF InvalidRequest, protoVars
  <2>2. theirs' = "ERROR" /\ ours' \in {"MUST_CLOSE", "ERROR"}
      BY <1>5 DEF InvalidRequest, Settle
  <2>3. QED
      BY <2>1, <2>2 DEF HalvesInv
<1>6. ASSUME UNCHANGED <<total, cur>>, conn' # "open",
             Settle(theirs, IF MaySend("ConnectionClosed") THEN "CLOSED" ELSE "ERROR", reusable)
      PROVE  HalvesInv'
    BY <1>6, <1>t DEF Settle, MaySend, ConnInv, HalvesInv, OurStates, TheirStates
<1>7. CASE ConnectionLost
    BY <1>6, <1>7 DEF ConnectionLost
<1>8. ASSUME UNCHANGED <<total, cur, heads>>,
             ~MaySend("ConnectionClosed"), Refuse
      PROVE  HalvesInv'
  <2>1. ours \notin {"IDLE", "DONE"}
      BY <1>8 DEF MaySend
  <2>2. theirs # "IDLE"
      BY <2>1 DEF ConnInv, HalvesInv
  <2>3. QED
      BY <1>8, <2>1, <2>2, HalvesRefuse
<1>9. CASE TimeoutKeepAliveHandler \/ Shutdown
  <2>1. UNCHANGED <<total, cur, heads>>
      BY <1>9 DEF TimeoutKeepAliveHandler, Shutdown
  <2>2. \/ UNCHANGED <<ours, theirs, reusable>>
        \/ ~MaySend("ConnectionClosed") /\ Refuse
        \/ /\ MaySend("ConnectionClosed") /\ conn' # "open"
           /\ Settle(theirs, "CLOSED", reusable)
      BY <1>9, <1>t DEF TimeoutKeepAliveHandler, Shutdown, Closing
  <2>3. QED
      BY <1>6, <1>8, <2>1, <2>2, HalvesFrame
<1>10. ASSUME NEW i \in Requests, NEW close \in BOOLEAN, NEW valid \in BOOLEAN,
              SendStart(i, close, valid)
       PROVE  HalvesInv'
  <2>1. UNCHANGED <<conn, total, cur, heads>> /\ ~cycle[i].started
        /\ cycle[i].phase \in {"app", "fail"}
      BY <1>10 DEF SendStart, CanSend, protoVars
  <2>2. i = cur /\ total < cur
      BY <2>1, IncompleteIsLatest DEF ConnInv, OrderInv
  <2>3. ours \notin {"IDLE", "DONE"} /\ theirs # "IDLE"
      BY <1>t, <2>2 DEF ConnInv, HalvesInv
  <2>4. CASE UNCHANGED <<ours, theirs, reusable>>
      BY <2>1, <2>4, HalvesFrame
  <2>5. CASE Refuse
      BY <2>1, <2>3, <2>5, HalvesRefuse
  <2>6. CASE MaySend("Response") /\ Settle(theirs, "SEND_BODY", reusable /\ ~close)
    <3>1. PICK keep \in BOOLEAN : keep = (reusable /\ ~close)
        OBVIOUS
    <3>2. Settle(theirs, "SEND_BODY", keep) /\ ours = "SEND_RESPONSE"
        BY <2>3, <2>6, <3>1 DEF MaySend
    <3>3. theirs' = (IF theirs = "DONE" /\ ~keep THEN "MUST_CLOSE" ELSE theirs)
          /\ ours' = "SEND_BODY" /\ reusable' = keep
        BY <2>3, <3>2 DEF Settle
    <3>4. keep => reusable
        BY <3>1
    <3>5. QED
        BY <1>t, <2>1, <2>2, <2>3, <3>2, <3>3, <3>4
        DEF ConnInv, HalvesInv, TheirStates
  <2>7. QED
      BY <1>10, <2>4, <2>5, <2>6 DEF SendStart
<1>11. ASSUME NEW i \in Requests, cycle[i].phase \in {"app", "fail"}, ~cycle[i].complete
       PROVE  ours \notin {"IDLE", "DONE"} /\ theirs # "IDLE"
  <2>1. total < cur
      BY <1>11, IncompleteIsLatest DEF ConnInv
  <2>2. QED
      BY <1>t, <2>1 DEF ConnInv, HalvesInv
<1>12. ASSUME NEW i \in Requests, NEW fits \in BOOLEAN, SendBody(i, fits)
       PROVE  HalvesInv'
  <2>1. UNCHANGED <<total, cur, heads>> /\ ~cycle[i].complete /\ cycle[i].phase = "app"
      BY <1>12 DEF SendBody, protoVars
  <2>2. ours \notin {"IDLE", "DONE"} /\ theirs # "IDLE"
      BY <1>11, <2>1
  <2>3. UNCHANGED <<ours, theirs, reusable>> \/ Refuse
      BY <1>12 DEF SendBody
  <2>4. QED
      BY <2>1, <2>2, <2>3, HalvesFrame, HalvesRefuse
<1>13. ASSUME NEW i \in Requests, NEW whole \in BOOLEAN, SendLast(i, whole)
       PROVE  HalvesInv'
  <2>1. UNCHANGED <<cur, heads>> /\ ~cycle[i].complete /\ cycle[i].phase \in {"app", "fail"}
      BY <1>13 DEF SendLast, CanSend
  <2>2. ours \notin {"IDLE", "DONE"} /\ theirs # "IDLE"
      BY <1>11, <2>1
  <2>3. total' = total + 1 \/ (total' = total /\ Refuse)
      BY <1>13 DEF SendLast, OnResponseComplete
  <2>4. CASE total' = total /\ Refuse
      BY <2>1, <2>2, <2>4, HalvesRefuse
  <2>5. CASE total' = total + 1
    <3>1. total' = cur' /\ cur > 0
        BY <1>t, <1>13, <2>1, <2>5, LastIsLatest
    <3>2. \/ /\ conn' # "open" /\ ours' # "IDLE" /\ theirs' # "IDLE"
             /\ theirs' = "DONE" => ours' = "DONE"
             /\ theirs' = "MUST_CLOSE" /\ reusable' => ours' = "CLOSED"
          \/ conn' = "open" /\ ours' = "IDLE" /\ theirs' = "IDLE"
          \/ conn' = "open" /\ ours' = "DONE" /\ theirs' = "SEND_BODY" /\ heads = 0
        BY <1>13, <2>5, Counted
    <3>3. ours' \notin {"SEND_RESPONSE", "SEND_BODY"}
      <4>1. \/ Settle(theirs, "CLOSED", reusable) \/ Settle(theirs, "DONE", reusable)
            \/ StartNextCycle
          BY <1>13, <2>5, <1>t DEF SendLast, OnResponseComplete
      <4>2. QED
          BY <4>1 DEF Settle, StartNextCycle
    <3>4. QED
        BY <1>t, <2>1, <3>1, <3>2, <3>3 DEF HalvesInv
  <2>6. QED
      BY <2>3, <2>4, <2>5
<1>14. ASSUME NEW i \in Requests,
              Receive(i) \/ ReceiveWakes(i) \/ SendWaits(i) \/ SendReturns(i) \/ AppEnds(i)
       PROVE  HalvesInv'
    BY <1>14, HalvesFrame DEF Receive, ReceiveWakes, SendWaits, SendReturns, AppEnds,
       AppRaises, AppReturnsValue, AppReturnsNone, FailDropped, RunAsgiEnds,
       h11Vars, protoVars
<1>15. QED
    BY <1>1, <1>2, <1>3, <1>4, <1>5, <1>7, <1>9, <1>10, <1>12, <1>13, <1>14
    DEF Next, HandleEvents, Callbacks, Task, AppEnds

\* Steps while handle_events does not run that leave the buffer as it is.
LEMMA LoopFrame ==
    ASSUME ConnInv, [Next]_vars, ~feeding, ~feeding',
           UNCHANGED <<upgraded, cur, heads>>,
           theirs' \in {theirs, "MUST_CLOSE"},
           conn' = "open" /\ ours' \in {"IDLE", "DONE"} => ~readPaused',
           inConnections' => inConnections,
           cur > 0 /\ cycle[cur].phase = "none" => cycle'[cur].phase = "none"
    PROVE  LoopInv'
BY DEF ConnInv, LoopInv

\* No task is behind an upgrade.
LEMMA UpgradedHasNoTask ==
    ASSUME ConnInv, NEW i \in Requests, cycle[i].phase # "none",
           OnlyCycle(i), cur > 0, cycle[cur].phase = "none"
    PROVE  cycle'[cur].phase = "none"
BY MaxRequestsAssumption DEF ConnInv, TypeOK, OnlyCycle, Requests

LEMMA KeptUpgraded ==
    ASSUME ConnInv, Kept, cur > 0, cycle[cur].phase = "none"
    PROVE  cycle'[cur].phase = "none"
BY MaxRequestsAssumption DEF ConnInv, TypeOK, Kept, SameResponse, Requests

LEMMA LoopStep == ConnInv /\ [Next]_vars => LoopInv'
<1> SUFFICES ASSUME ConnInv, [Next]_vars PROVE LoopInv'
    OBVIOUS
<1>t. /\ TypeOK /\ OrderInv /\ HalvesInv
      /\ theirs \in TheirStates /\ ours \in OurStates
      /\ heads \in Nat /\ cur \in Nat
    BY MaxRequestsAssumption DEF ConnInv, TypeOK, TheirStates, OurStates
<1>f. feeding => conn = "open" /\ ~upgraded
    BY DEF ConnInv, LoopInv
<1>m. conn # "open" => conn' # "open"
    BY Monotone
<1>1. CASE UNCHANGED vars
  <2>1. feeding' => feeding
      BY <1>1 DEF vars
  <2>2. QED
      BY <1>1 DEF vars, h11Vars, protoVars, ConnInv, LoopInv, FailSends
<1>2. CASE DataReceived
  <2>1. /\ ~feeding /\ \A i \in Requests : ~FailSends(i)
        /\ conn = "open" /\ ~readPaused /\ ~upgraded /\ feeding'
        /\ UNCHANGED <<conn, h11Vars, inConnections, upgraded, cur, readPaused, cycle>>
      BY <1>2 DEF DataReceived, Free, FailSends
  <2>2. \A i \in Requests : ~FailSends(i)'
      BY <2>1 DEF FailSends
  <2>3. QED
      BY <2>1, <2>2 DEF LoopInv, h11Vars
<1>3. CASE NeedData \/ Paused
  <2>1. /\ ~feeding' /\ heads' \in {heads, heads + 1}
        /\ UNCHANGED <<conn, ours, theirs, upgraded, inConnections, cur, cycle>>
        /\ \/ heads' = 0 /\ readPaused' = readPaused
           \/ theirs = "DONE"
      BY <1>3 DEF NeedData, Paused, h11Vars, protoVars
  <2>2. conn = "open" /\ theirs = "DONE" => ours \notin {"IDLE", "DONE"}
      BY <1>t DEF HalvesInv
  <2>3. QED
      BY <1>t, <2>1, <2>2 DEF ConnInv, LoopInv
<1>4. CASE Request
  <2>1. /\ feeding' /\ feeding /\ UNCHANGED <<conn, upgraded, inConnections>>
        /\ ours' = "SEND_RESPONSE"
    <3>1. PICK keep \in BOOLEAN : Settle("SEND_BODY", "SEND_RESPONSE", keep)
        BY <1>4 DEF Request
    <3>2. QED
        BY <1>4, <3>1 DEF Request, TakeHead, Settle
  <2>2. OnlyCycle(cur + 1) /\ cycle'[cur + 1].phase = "app"
      BY <1>t, <1>4, RequestCycle
  <2>3. \A i \in Requests : ~FailSends(i)'
      BY <2>1, <2>2 DEF ConnInv, LoopInv, FailSends, OnlyCycle
  <2>4. QED
      BY <1>f, <2>1, <2>3 DEF LoopInv
<1>5. CASE HandleWebsocketUpgrade
  <2>1. /\ ~feeding' /\ upgraded' /\ ~inConnections' /\ cur' = cur + 1 /\ cycle' = cycle
        /\ ours' = "SEND_RESPONSE" /\ cur < MaxRequests
      BY <1>5 DEF HandleWebsocketUpgrade, TakeHead, Settle
  <2>2. cur + 1 \in Requests /\ cur + 1 > cur
      BY <1>t, <2>1, MaxRequestsAssumption DEF Requests
  <2>3. cycle[cur + 1].phase = "none"
      BY <1>t, <2>2 DEF OrderInv, Fresh
  <2>4. QED
      BY <1>t, <2>1, <2>3 DEF LoopInv
<1>6. CASE Data
  <2>1. /\ feeding' /\ feeding
        /\ UNCHANGED <<conn, upgraded, inConnections, ours, theirs, cur, heads>>
        /\ ours = "DONE" => readPaused' = readPaused
        /\ theirs = "SEND_BODY"
      BY <1>6 DEF Data, h11Vars, protoVars
  <2>2. ours # "IDLE"
      BY <1>t, <2>1 DEF HalvesInv
  <2>3. \A i \in Requests : ~FailSends(i)'
    <3>1. CASE UNCHANGED cycle
        BY <2>1, <3>1 DEF ConnInv, LoopInv, FailSends
    <3>2. CASE cycle' = [cycle EXCEPT ![cur].body = @ + 1, ![cur].event = TRUE]
      <4>1. \A i \in Requests : cycle'[i].phase = cycle[i].phase /\ cycle'[i].snd = cycle[i].snd
          BY <1>t, <3>2 DEF TypeOK, Cycles
      <4>2. QED
          BY <2>1, <4>1 DEF ConnInv, LoopInv, FailSends
    <3>3. QED
        BY <1>6, <3>1, <3>2 DEF Data
  <2>4. QED
      BY <1>f, <2>1, <2>2, <2>3 DEF ConnInv, LoopInv
<1>7. CASE EndOfMessage
  <2>1. /\ feeding' /\ feeding /\ theirs = "SEND_BODY"
        /\ UNCHANGED <<conn, upgraded, inConnections, cur, readPaused>>
        /\ \/ ours = "DONE"
           \/ ours' \in {ours, "MUST_CLOSE"} /\ ours # "DONE"
      BY <1>7 DEF EndOfMessage, StartNextCycle, Settle, protoVars
  <2>2. ours # "IDLE"
      BY <1>t, <2>1 DEF HalvesInv
  <2>3. \A i \in Requests : ~FailSends(i)'
    <3>1. CASE UNCHANGED cycle
        BY <2>1, <3>1 DEF ConnInv, LoopInv, FailSends
    <3>2. CASE cycle' = [cycle EXCEPT ![cur].moreBody = FALSE, ![cur].event = TRUE]
      <4>1. \A i \in Requests : cycle'[i].phase = cycle[i].phase /\ cycle'[i].snd = cycle[i].snd
          BY <1>t, <3>2 DEF TypeOK, Cycles
      <4>2. QED
          BY <2>1, <4>1 DEF ConnInv, LoopInv, FailSends
    <3>3. QED
        BY <1>7, <3>1, <3>2 DEF EndOfMessage
  <2>4. QED
      BY <1>f, <2>1, <2>2, <2>3 DEF ConnInv, LoopInv
<1>8. CASE InvalidRequest
  <2>1. /\ ~feeding' /\ feeding /\ conn' = "closing" /\ theirs' = "ERROR"
        /\ UNCHANGED <<upgraded, inConnections>>
      BY <1>8 DEF InvalidRequest, Settle, protoVars
  <2>2. QED
      BY <1>f, <2>1 DEF LoopInv
<1>9. CASE ResumeWriting \/ EofReceived \/ TransportFails \/ ConnectionLostUpgraded
  <2>1. /\ ~feeding /\ ~feeding'
        /\ UNCHANGED <<upgraded, cur, heads, ours, theirs, inConnections, readPaused>>
      BY <1>9 DEF ResumeWriting, EofReceived, TransportFails, ConnectionLostUpgraded,
         Free, h11Vars, protoVars
  <2>2. Kept
      BY <1>t, <1>9, CallbackKept, KeptUnchanged
      DEF EofReceived, TransportFails, ConnectionLostUpgraded
  <2>3. conn' = "open" /\ ours' \in {"IDLE", "DONE"} => ~readPaused'
      BY <1>t, <1>m, <2>1 DEF ConnInv, LoopInv, TypeOK
  <2>4. QED
      BY <2>1, <2>2, <2>3, KeptUpgraded, LoopFrame
<1>10. CASE ConnectionLost
  <2>1. /\ ~feeding /\ ~feeding' /\ conn' = "lost" /\ ~inConnections' /\ ~upgraded
        /\ UNCHANGED <<upgraded, cur, heads>> /\ theirs' \in {theirs, "MUST_CLOSE"}
      BY <1>10 DEF ConnectionLost, Free, Settle
  <2>2. QED
      BY <2>1 DEF ConnInv, LoopInv
<1>11. CASE TimeoutKeepAliveHandler \/ Shutdown
  <2>1. /\ ~feeding /\ ~feeding' /\ theirs' \in {theirs, "MUST_CLOSE"}
        /\ UNCHANGED <<upgraded, cur, heads, inConnections, readPaused>>
      BY <1>11 DEF TimeoutKeepAliveHandler, Shutdown, Free, Settle, Refuse
  <2>2. Kept
      BY <1>t, <1>11, CallbackKept, KeptUnchanged DEF TimeoutKeepAliveHandler
  <2>3. conn' # "open" \/ ours' = ours \/ ours' = "ERROR"
      BY <1>t, <1>11 DEF TimeoutKeepAliveHandler, Shutdown, Settle, Refuse, Closing, TypeOK
  <2>4. conn' = "open" /\ ours' \in {"IDLE", "DONE"} => ~readPaused'
      BY <1>t, <1>m, <2>1, <2>3 DEF ConnInv, LoopInv, TypeOK
  <2>5. QED
      BY <2>1, <2>2, <2>4, KeptUpgraded, LoopFrame
<1>12. ASSUME NEW i \in Requests,
              \/ Receive(i) \/ ReceiveWakes(i) \/ SendWaits(i) \/ SendReturns(i)
              \/ \E fits \in BOOLEAN : SendBody(i, fits)
       PROVE  LoopInv'
  <2>1. /\ UNCHANGED <<conn, feeding, upgraded, cur, heads, inConnections>>
        /\ theirs' \in {theirs, "MUST_CLOSE"}
        /\ ours' = ours \/ ours' = "ERROR"
        /\ readPaused' => readPaused
      BY <1>12 DEF Receive, ReceiveWakes, SendWaits, SendReturns, SendBody,
         Refuse, Settle, h11Vars, protoVars
  <2>2. ~feeding
      BY <1>12, TaskNotFeeding DEF Task
  <2>3. Kept
      BY <1>t, <1>12, QuietKept
  <2>4. QED
      BY <2>1, <2>2, <2>3, KeptUpgraded, LoopFrame DEF ConnInv, LoopInv
<1>13. ASSUME NEW i \in Requests, NEW close \in BOOLEAN, NEW valid \in BOOLEAN,
              SendStart(i, close, valid)
       PROVE  LoopInv'
  <2>1. /\ UNCHANGED <<conn, feeding, upgraded, cur, heads, inConnections, readPaused>>
        /\ theirs' \in {theirs, "MUST_CLOSE"}
        /\ ours' = ours \/ ours' \in {"ERROR", "SEND_BODY"}
        /\ cycle[i].phase # "none"
      BY <1>13 DEF SendStart, CanSend, Refuse, Settle, protoVars
  <2>2. ~feeding
      BY <1>13, TaskNotFeeding DEF Task
  <2>3. cur > 0 /\ cycle[cur].phase = "none" => cycle'[cur].phase = "none"
      BY <1>t, <1>13, <2>1, StartCycle, UpgradedHasNoTask
  <2>4. QED
      BY <2>1, <2>2, <2>3, LoopFrame DEF ConnInv, LoopInv
<1>14. ASSUME NEW i \in Requests, NEW whole \in BOOLEAN, SendLast(i, whole)
       PROVE  LoopInv'
  <2>1. i = cur /\ total + 1 = cur /\ ~feeding /\ ~upgraded
      BY <1>14, LastIsLatest
  <2>2. UNCHANGED <<heads, inConnections, upgraded, cur>> /\ ~upgraded'
      BY <1>14, <2>1 DEF SendLast
  <2>3. cycle[i].phase # "none"
      BY <1>14 DEF SendLast, CanSend
  <2>4. OnlyCycle(i)
      BY <1>t, <1>14, LastCycle
  <2>5. cur > 0 /\ cycle[cur].phase = "none" => cycle'[cur].phase = "none"
      BY <2>1, <2>3
  <2>6. CASE total' = total /\ ours' = "ERROR" /\ UNCHANGED <<conn, feeding, readPaused>>
    <3>1. theirs' \in {theirs, "MUST_CLOSE"}
        BY <1>t, <1>14, <2>6 DEF SendLast, OnResponseComplete, Refuse, Settle, TypeOK
    <3>2. QED
        BY <2>1, <2>2, <2>5, <2>6, <3>1, LoopFrame
  <2>7. CASE total' = total + 1 /\ cycle'[i].complete
    <3>1. \/ /\ conn' # "open" /\ feeding' = feeding
             /\ theirs' \in {theirs, "MUST_CLOSE"}
          \/ conn' = "open" /\ feeding' /\ ours' = "IDLE" /\ theirs' = "IDLE" /\ ~readPaused'
          \/ /\ conn' = "open" /\ ~feeding' /\ ours' = "DONE" /\ theirs' = "SEND_BODY"
             /\ ~readPaused' /\ heads = 0
      <4>1. conn' # "open" => theirs' \in {theirs, "MUST_CLOSE"}
          BY <1>14, <2>7 DEF SendLast, OnResponseComplete, GoesOn, Settle, ConnInv, TypeOK
      <4>2. QED
          BY <1>14, <2>7, <4>1, Counted
    <3>2. CASE conn' # "open" /\ feeding' = feeding /\ theirs' \in {theirs, "MUST_CLOSE"}
        BY <2>1, <2>2, <2>5, <3>2, LoopFrame
    <3>3. CASE /\ conn' = "open" /\ ~feeding' /\ ours' = "DONE" /\ theirs' = "SEND_BODY"
               /\ ~readPaused' /\ heads = 0
        BY <1>t, <2>2, <3>3 DEF LoopInv
    <3>4. CASE conn' = "open" /\ feeding' /\ ours' = "IDLE" /\ theirs' = "IDLE" /\ ~readPaused'
      <4>1. \A j \in Requests : j # i => cycle'[j] = cycle[j] /\ cycle[j].phase # "fail"
        <5>1. ASSUME NEW j \in Requests, j # i PROVE cycle[j].phase # "fail"
          <6>1. j < cur \/ j > cur
              BY <1>t, <2>1, <5>1, MaxRequestsAssumption DEF TypeOK, Requests
          <6>2. CASE j > cur
              BY <1>t, <6>2 DEF OrderInv, Fresh
          <6>3. CASE j < cur
            <7>1. j <= total
                BY <1>t, <2>1, <6>3, MaxRequestsAssumption DEF TypeOK, Requests
            <7>2. QED
                BY <1>t, <7>1 DEF OrderInv
          <6>4. QED
              BY <6>1, <6>2, <6>3
        <5>2. QED
            BY <2>4, <5>1 DEF OnlyCycle
      <4>2. cycle'[i].phase # "fail"
          BY <1>t, <1>14, LastCycle
      <4>3. \A j \in Requests : ~FailSends(j)'
          BY <4>1, <4>2 DEF FailSends
      <4>4. QED
          BY <2>2, <3>4, <4>3 DEF LoopInv
    <3>5. QED
        BY <3>1, <3>2, <3>3, <3>4
  <2>8. QED
      BY <1>t, <1>14, <2>6, <2>7, LastCycle
<1>15. ASSUME NEW i \in Requests, AppEnds(i)
       PROVE  LoopInv'
  <2>1. UNCHANGED <<feeding, upgraded, cur, heads, inConnections, readPaused, ours, theirs>>
      BY <1>15 DEF AppEnds, AppRaises, AppReturnsValue, AppReturnsNone, FailDropped,
         RunAsgiEnds, h11Vars, protoVars
  <2>2. ~feeding
      BY <1>15, TaskNotFeeding DEF Task, AppEnds
  <2>3. cur > 0 /\ cycle[cur].phase = "none" => cycle'[cur].phase = "none"
    <3>1. OnlyCycle(i) /\ cycle[i].phase # "none"
        BY <1>t, <1>15, AppEndsCycle
    <3>2. QED
        BY <3>1, UpgradedHasNoTask
  <2>4. conn' = "open" /\ ours' \in {"IDLE", "DONE"} => ~readPaused'
      BY <1>t, <1>m, <2>1 DEF ConnInv, LoopInv, TypeOK
  <2>5. QED
      BY <2>1, <2>2, <2>3, <2>4, LoopFrame
<1>16. QED
    BY <1>1, <1>2, <1>3, <1>4, <1>5, <1>6, <1>7, <1>8, <1>9, <1>10, <1>11, <1>12,
       <1>13, <1>14, <1>15
    DEF Next, HandleEvents, Callbacks, Task, AppEnds

-----------------------------------------------------------------------------
(* No request is left without an end.                                      *)

\* The steps that take a request or count a response.
LEMMA CountStep ==
    ASSUME ConnInv, [Next]_vars
    PROVE  \/ UNCHANGED <<total, cur, upgraded>>
           \/ Request \/ HandleWebsocketUpgrade
           \/ \E i \in Requests, whole \in BOOLEAN :
                 SendLast(i, whole) /\ total' = total + 1 /\ UNCHANGED <<cur, upgraded>>
<1>1. HandleEvents \/ Callbacks \/ UNCHANGED vars =>
          \/ UNCHANGED <<total, cur, upgraded>> \/ Request \/ HandleWebsocketUpgrade
    BY DEF HandleEvents, DataReceived, NeedData, Paused, Data, EndOfMessage,
       InvalidRequest, Callbacks, ResumeWriting, EofReceived, TransportFails,
       ConnectionLost, ConnectionLostUpgraded, TimeoutKeepAliveHandler, Shutdown,
       vars, protoVars
<1>2. ASSUME NEW i \in Requests, Task(i), ~ \E whole \in BOOLEAN : SendLast(i, whole)
      PROVE  UNCHANGED <<total, cur, upgraded>>
    BY <1>2 DEF Task, Receive, ReceiveWakes, SendWaits, SendReturns, SendStart,
       SendBody, AppRaises, AppReturnsValue, AppReturnsNone,
       FailDropped, RunAsgiEnds, protoVars
<1>3. ASSUME NEW i \in Requests, NEW whole \in BOOLEAN, SendLast(i, whole)
      PROVE  total' \in {total, total + 1} /\ UNCHANGED <<cur, upgraded>>
    BY <1>3 DEF SendLast, OnResponseComplete
<1>4. QED
    BY <1>1, <1>2, <1>3 DEF Next

\* A request in service stays so unless its response is counted, h11 refuses
\* something or the connection closes.
LEMMA AnsweringStep ==
    ASSUME ConnInv, [Next]_vars, Answering, conn' = "open", ours' # "ERROR",
           UNCHANGED <<total, cur>>
    PROVE  Answering' /\ (~cycle[cur].keepAlive => ~cycle'[cur].keepAlive)
<1>t. TypeOK /\ OrderInv /\ HalvesInv /\ cur \in Requests /\ cur \in Nat
    BY MaxRequestsAssumption DEF ConnInv, TypeOK, Answering, Requests
<1>k. Kept => Answering' /\ (~cycle[cur].keepAlive => ~cycle'[cur].keepAlive)
    BY <1>t DEF Kept, SameResponse, Answering, InService
<1>1. CASE UNCHANGED cycle
    BY <1>t, <1>k, <1>1, KeptUnchanged
<1>2. CASE Data \/ EndOfMessage \/ ResumeWriting \/ Shutdown
    BY <1>t, <1>k, <1>2, CallbackKept
<1>3. CASE Request \/ HandleWebsocketUpgrade \/ ConnectionLost
  <2>1. CASE Request \/ HandleWebsocketUpgrade
    <3>1. TakeHead
        BY <2>1 DEF Request, HandleWebsocketUpgrade
    <3>2. QED
        BY <1>t, <3>1 DEF TakeHead
  <2>2. CASE ConnectionLost
      BY <2>2 DEF ConnectionLost
  <2>3. QED
      BY <1>3, <2>1, <2>2
<1>4. ASSUME NEW i \in Requests,
             \/ Receive(i) \/ ReceiveWakes(i) \/ SendWaits(i) \/ SendReturns(i)
             \/ \E fits \in BOOLEAN : SendBody(i, fits)
      PROVE  Kept
    BY <1>t, <1>4, QuietKept
<1>5. ASSUME NEW i \in Requests, OnlyCycle(i),
             i # cur \/ cycle'[i].phase \in {"app", "fail"},
             cycle'[i].complete = cycle[i].complete,
             cycle'[i].keepAlive = cycle[i].keepAlive
      PROVE  Answering' /\ (~cycle[cur].keepAlive => ~cycle'[cur].keepAlive)
    BY <1>t, <1>5 DEF OnlyCycle, Answering, InService
<1>6. ASSUME NEW i \in Requests, NEW close \in BOOLEAN, NEW valid \in BOOLEAN,
             SendStart(i, close, valid)
      PROVE  Answering' /\ (~cycle[cur].keepAlive => ~cycle'[cur].keepAlive)
  <2>1. cycle[i].phase \in {"app", "fail"}
      BY <1>6 DEF SendStart, CanSend
  <2>2. /\ OnlyCycle(i) /\ cycle'[i].phase = cycle[i].phase
        /\ cycle'[i].complete = cycle[i].complete
        /\ cycle'[i].keepAlive = cycle[i].keepAlive
      BY <1>t, <1>6, StartCycle
  <2>3. QED
      BY <1>5, <2>1, <2>2
<1>7. ASSUME NEW i \in Requests, NEW whole \in BOOLEAN, SendLast(i, whole)
      PROVE  FALSE
    BY <1>t, <1>7, LastCycle DEF TypeOK
<1>8. ASSUME NEW i \in Requests, AppEnds(i)
      PROVE  Answering' /\ (~cycle[cur].keepAlive => ~cycle'[cur].keepAlive)
  <2>1. /\ OnlyCycle(i) /\ cycle'[i].complete = cycle[i].complete
        /\ cycle'[i].keepAlive = cycle[i].keepAlive
        /\ \/ cycle'[i].phase = "fail"
           \/ conn' = Closing(conn)
           \/ conn' = conn /\ (cycle[i].complete \/ cycle[i].disconnected)
      BY <1>t, <1>8, AppEndsCycle
  <2>2. conn' = Closing(conn) => conn' # "open"
      BY DEF Closing
  <2>3. conn' = conn => ~cycle[i].disconnected
      BY <1>t DEF OrderInv
  <2>4. ~cycle[cur].complete
      BY DEF Answering, InService
  <2>5. i # cur \/ cycle'[i].phase = "fail"
      BY <2>1, <2>2, <2>3, <2>4
  <2>6. QED
      BY <1>5, <2>1, <2>5
<1>9. HandleEvents \/ Callbacks \/ UNCHANGED vars =>
          \/ UNCHANGED cycle
          \/ Data \/ EndOfMessage \/ ResumeWriting \/ Shutdown
          \/ Request \/ HandleWebsocketUpgrade \/ ConnectionLost
    BY DEF HandleEvents, Callbacks, DataReceived, NeedData, Paused, InvalidRequest,
       EofReceived, TransportFails, ConnectionLostUpgraded, TimeoutKeepAliveHandler, vars
<1>10. QED
    BY <1>k, <1>1, <1>2, <1>3, <1>4, <1>6, <1>7, <1>8, <1>9 DEF Next, Task, AppEnds

\* A response h11 waits for and has not refused is one that it may still be given.
LEMMA WaitsForUs ==
    ASSUME ConnInv, conn = "open", total < cur, ours # "ERROR"
    PROVE  ours \in {"SEND_RESPONSE", "SEND_BODY"}
BY MaxRequestsAssumption DEF ConnInv, TypeOK, HalvesInv

LEMMA BusyStep == ConnInv /\ BusyInv /\ [Next]_vars => BusyInv'
<1> SUFFICES ASSUME ConnInv, BusyInv, [Next]_vars,
                    conn' = "open", ~upgraded', ours' \in {"SEND_RESPONSE", "SEND_BODY"}
             PROVE  Answering'
    BY DEF BusyInv, Answering
<1>1. conn = "open" /\ ours # "ERROR"
    BY Monotone
<1>2. total' < cur'
    BY HalvesStep DEF HalvesInv
<1>3. CASE UNCHANGED <<total, cur, upgraded>>
  <2>1. Answering
      BY <1>1, <1>2, <1>3, WaitsForUs DEF BusyInv
  <2>2. QED
      BY <1>3, <2>1, AnsweringStep
<1>4. CASE Request
  <2>1. /\ cur + 1 \in Requests /\ cycle'[cur + 1].phase = "app"
        /\ ~cycle'[cur + 1].complete
      BY <1>4, RequestCycle DEF ConnInv
  <2>2. cur' = cur + 1 /\ cur' > 0
      BY <1>4, <2>1, MaxRequestsAssumption DEF Request, TakeHead, Requests
  <2>3. QED
      BY <2>1, <2>2 DEF Answering, InService
<1>5. CASE HandleWebsocketUpgrade
    BY <1>5 DEF HandleWebsocketUpgrade
<1>6. ASSUME NEW i \in Requests, NEW whole \in BOOLEAN, SendLast(i, whole),
             total' = total + 1, UNCHANGED cur
      PROVE  FALSE
  <2>1. total + 1 = cur /\ cur \in Nat
      BY <1>6, LastIsLatest, MaxRequestsAssumption DEF ConnInv, TypeOK
  <2>2. QED
      BY <1>2, <1>6, <2>1
<1>7. QED
    BY <1>3, <1>4, <1>5, <1>6, CountStep

\* How a request comes to its end.
LEMMA DoneStep ==
    ASSUME ConnInv, [Next]_vars, NEW i \in Requests, cycle'[i].phase = "done"
    PROVE  \/ cycle[i].phase = "done"
           \/ i <= total' \/ conn' # "open" \/ ours' = "ERROR"
<1>t. TypeOK /\ OrderInv /\ HalvesInv
    BY DEF ConnInv
<1>k. Kept => cycle[i].phase = "done"
    BY DEF Kept, SameResponse
<1>1. CASE UNCHANGED cycle
    BY <1>1
<1>2. CASE Data \/ EndOfMessage \/ ResumeWriting \/ Shutdown
    BY <1>t, <1>k, <1>2, CallbackKept
<1>3. CASE Request
    BY <1>t, <1>3, RequestCycle DEF OnlyCycle
<1>4. CASE ConnectionLost
    BY <1>4 DEF ConnectionLost
<1>5. ASSUME NEW j \in Requests,
             \/ Receive(j) \/ ReceiveWakes(j) \/ SendWaits(j) \/ SendReturns(j)
             \/ \E fits \in BOOLEAN : SendBody(j, fits)
      PROVE  Kept
    BY <1>t, <1>5, QuietKept
<1>6. ASSUME NEW j \in Requests, NEW close \in BOOLEAN, NEW valid \in BOOLEAN,
             SendStart(j, close, valid)
      PROVE  cycle[i].phase = "done" \/ ours' = "ERROR"
    BY <1>t, <1>6, StartCycle DEF OnlyCycle
<1>7. ASSUME NEW j \in Requests, NEW whole \in BOOLEAN, SendLast(j, whole)
      PROVE  cycle[i].phase = "done" \/ ours' = "ERROR" \/ i <= total'
  <2>1. j = cur /\ total + 1 = cur
      BY <1>7, LastIsLatest
  <2>2. OnlyCycle(j) /\ (total' = total + 1 \/ ours' = "ERROR")
      BY <1>t, <1>7, LastCycle
  <2>3. QED
      BY <1>t, <2>1, <2>2, MaxRequestsAssumption DEF OnlyCycle, TypeOK
<1>8. ASSUME NEW j \in Requests, AppEnds(j)
      PROVE  cycle[i].phase = "done" \/ i <= total' \/ conn' # "open" \/ ours' = "ERROR"
  <2>1. /\ OnlyCycle(j) /\ total' = total
        /\ \/ cycle'[j].phase = "fail"
           \/ conn' = Closing(conn)
           \/ conn' = conn /\ (cycle[j].complete \/ cycle[j].disconnected)
    <3>1. total' = total
        BY <1>8 DEF AppEnds, AppRaises, AppReturnsValue, AppReturnsNone, FailDropped,
           RunAsgiEnds, protoVars
    <3>2. QED
        BY <1>t, <1>8, <3>1, AppEndsCycle
  <2>2. conn' = Closing(conn) => conn' # "open"
      BY DEF Closing
  <2>3. cycle[j].disconnected => conn = "lost"
      BY <1>t DEF OrderInv
  <2>4. cycle[j].complete => j <= total \/ ours' = "ERROR"
    <3>1. cycle[j].complete /\ total < j => ours = "ERROR"
        BY <1>t DEF OrderInv
    <3>2. j <= total \/ total < j
        BY <1>t, MaxRequestsAssumption DEF TypeOK, Requests
    <3>3. QED
        BY <3>1, <3>2, Monotone
  <2>5. CASE i = j
      BY <2>1, <2>2, <2>3, <2>4, <2>5
  <2>6. CASE i # j
      BY <2>1, <2>6 DEF OnlyCycle
  <2>7. QED
      BY <2>5, <2>6
<1>9. HandleEvents \/ Callbacks \/ UNCHANGED vars =>
          \/ UNCHANGED cycle
          \/ Data \/ EndOfMessage \/ ResumeWriting \/ Shutdown
          \/ Request \/ ConnectionLost
    BY DEF HandleEvents, Callbacks, DataReceived, NeedData, Paused, InvalidRequest,
       HandleWebsocketUpgrade, EofReceived, TransportFails, ConnectionLostUpgraded,
       TimeoutKeepAliveHandler, vars
<1>10. QED
    BY <1>k, <1>1, <1>2, <1>3, <1>4, <1>5, <1>6, <1>7, <1>8, <1>9 DEF Next, Task, AppEnds

LEMMA SilentStep == ConnInv /\ NoSilentEnd /\ [Next]_vars => NoSilentEnd'
<1> SUFFICES ASSUME ConnInv, NoSilentEnd, [Next]_vars, NEW i \in Requests,
                    cycle'[i].phase = "done"
             PROVE  i <= total' \/ conn' # "open" \/ ours' = "ERROR"
    BY DEF NoSilentEnd, Refused
<1>1. CASE cycle[i].phase = "done"
  <2>1. i <= total \/ conn # "open" \/ ours = "ERROR"
      BY <1>1 DEF NoSilentEnd, Refused
  <2>2. total' \in {total, total + 1}
      BY CountStep DEF Request, HandleWebsocketUpgrade
  <2>3. i \in Nat /\ total \in Nat
      BY MaxRequestsAssumption DEF ConnInv, TypeOK, Requests
  <2>4. QED
      BY <2>1, <2>2, <2>3, Monotone
<1>2. CASE cycle[i].phase # "done"
    BY <1>2, DoneStep
<1>3. QED
    BY <1>1, <1>2

LEMMA PendingStep == ConnInv /\ BusyInv /\ ShutdownPending /\ [Next]_vars => ShutdownPending'
<1> SUFFICES ASSUME ConnInv, BusyInv, ShutdownPending, [Next]_vars,
                    asked' = "yes", conn' = "open", ours' # "ERROR"
             PROVE  Answering' /\ ~cycle'[cur'].keepAlive
    BY DEF ShutdownPending, Refused, Answering
<1>m. conn = "open" /\ ours # "ERROR"
    BY Monotone
<1>t. total \in Nat /\ cur \in Nat /\ (cur > 0 => cur \in Requests)
    BY MaxRequestsAssumption DEF ConnInv, TypeOK, Requests
<1>l. cur > 0 /\ ~cycle[cur].complete => total < cur
    BY <1>t DEF ConnInv, OrderInv
<1>1. CASE Shutdown
  <2>1. UNCHANGED <<total, cur>> /\ inConnections
      BY <1>1 DEF Shutdown
  <2>2. /\ ~LatestComplete
        /\ cycle' = [cycle EXCEPT ![cur].keepAlive = FALSE]
      BY <1>1, <1>m DEF Shutdown, Closing
  <2>3. cur > 0 /\ ~cycle[cur].complete
      BY <1>t, <2>2 DEF LatestComplete
  <2>4. ours \in {"SEND_RESPONSE", "SEND_BODY"}
      BY <1>l, <1>m, <2>3, WaitsForUs
  <2>5. Answering
      BY <1>m, <2>1, <2>4 DEF BusyInv, ConnInv, LoopInv
  <2>6. Answering'
      BY <2>1, <2>5, AnsweringStep
  <2>7. ~cycle'[cur].keepAlive
      BY <1>t, <2>2, <2>3 DEF ConnInv, TypeOK, Cycles
  <2>8. QED
      BY <2>1, <2>6, <2>7
<1>2. CASE ~Shutdown
  <2>1. asked' = asked
    <3>1. HandleEvents \/ Callbacks \/ UNCHANGED vars => asked' = asked
        BY <1>2 DEF HandleEvents, DataReceived, NeedData, Paused, Request,
           HandleWebsocketUpgrade, Data, EndOfMessage, InvalidRequest,
           Callbacks, ResumeWriting, EofReceived, TransportFails, ConnectionLost,
           ConnectionLostUpgraded, TimeoutKeepAliveHandler, vars, protoVars
    <3>2. ASSUME NEW i \in Requests, Task(i) PROVE asked' = asked
        BY <3>2 DEF Task, Receive, ReceiveWakes, SendWaits, SendReturns, SendStart,
           SendBody, SendLast, AppRaises, AppReturnsValue, AppReturnsNone,
           FailDropped, RunAsgiEnds, protoVars
    <3>3. QED
        BY <3>1, <3>2 DEF Next
  <2>2. Answering /\ ~cycle[cur].keepAlive
      BY <1>m, <2>1 DEF ShutdownPending, Refused
  <2>3. total < cur
      BY <1>l, <2>2 DEF Answering, InService
  <2>4. CASE UNCHANGED <<total, cur, upgraded>>
      BY <2>2, <2>4, AnsweringStep
  <2>5. CASE Request \/ HandleWebsocketUpgrade
    <3>1. theirs = "IDLE"
        BY <2>5 DEF Request, HandleWebsocketUpgrade, TakeHead
    <3>2. total = cur
        BY <3>1 DEF ConnInv, HalvesInv
    <3>3. QED
        BY <1>t, <2>3, <3>2
  <2>6. ASSUME NEW i \in Requests, NEW whole \in BOOLEAN, SendLast(i, whole),
               total' = total + 1
        PROVE  FALSE
    <3>1. i = cur
        BY <2>6, LastIsLatest
    <3>2. EndsConnection(cycle[i])
        BY <2>2, <3>1 DEF EndsConnection
    <3>3. conn' = Closing(conn)
        BY <1>t, <2>6, <3>2 DEF SendLast, OnResponseComplete
    <3>4. QED
        BY <3>3 DEF Closing
  <2>7. QED
      BY <2>4, <2>5, <2>6, CountStep
<1>3. QED
    BY <1>1, <1>2

-----------------------------------------------------------------------------
(* The safety theorems.                                                    *)

LEMMA InitInv == Init => ConnInv /\ EndInv
<1> SUFFICES ASSUME Init PROVE ConnInv /\ EndInv
    OBVIOUS
<1>0. 0 .. MaxRequests - cur = 0 .. MaxRequests /\ 0 \in 0 .. MaxRequests /\ 0 \in 0 .. cur
    BY MaxRequestsAssumption DEF Init
<1>1. TypeOK
    BY <1>0, NewTyped DEF Init, TypeOK
<1>2. \A i \in Requests : Fresh(cycle[i]) /\ i > 0
    BY MaxRequestsAssumption DEF Init, NewCycle, Fresh, Requests
<1>3. OrderInv
    BY <1>2, MaxRequestsAssumption DEF Init, OrderInv, Fresh, Requests
<1>4. HalvesInv
    BY DEF Init, HalvesInv
<1>5. LoopInv
    BY DEF Init, LoopInv
<1>6. EndInv
    BY <1>2 DEF Init, EndInv, BusyInv, NoSilentEnd, ShutdownPending, Fresh
<1>7. QED
    BY <1>1, <1>3, <1>4, <1>5, <1>6 DEF ConnInv

LEMMA InvStep == ConnInv /\ EndInv /\ [Next]_vars => ConnInv' /\ EndInv'
<1> SUFFICES ASSUME ConnInv, EndInv, [Next]_vars PROVE ConnInv' /\ EndInv'
    OBVIOUS
<1>1. ConnInv'
    BY TypeStep, OrderStep, HalvesStep, LoopStep DEF ConnInv
<1>2. EndInv'
    BY BusyStep, SilentStep, PendingStep DEF EndInv
<1>3. QED
    BY <1>1, <1>2

LEMMA InductiveInvariant == Spec => [](ConnInv /\ EndInv)
<1>1. QED
    BY InitInv, InvStep, PTL DEF Spec

\* Every variable of the h11 connection stays in its range: the counters and
\* the buffered heads within the requests there are, the body buffer of every
\* cycle within one chunk of the high-water mark.
THEOREM H11TypeCorrect == Spec => []TypeOK
<1>1. ConnInv /\ EndInv => TypeOK
    BY DEF ConnInv
<1>2. QED
    BY <1>1, InductiveInvariant, PTL

\* The two sides of h11 and the cycle turn over together: an open connection is
\* never left between callbacks where h11 would say PAUSED for ever.
THEOREM H11CycleTurns == Spec => []CycleTurns
<1>1. ConnInv /\ EndInv => CycleTurns
  <2> SUFFICES ASSUME ConnInv, EndInv, conn = "open", ~feeding, ~upgraded, ours # "ERROR"
               PROVE  \/ /\ ours = "IDLE" /\ theirs = "IDLE" /\ heads = 0
                         /\ ~readPaused /\ LatestComplete
                      \/ /\ ours = "DONE" /\ theirs = "SEND_BODY"
                         /\ ~readPaused /\ LatestComplete
                      \/ ours \in {"SEND_RESPONSE", "SEND_BODY"} /\ Answering
      BY DEF CycleTurns, Refused
  <2>1. ours \in {"IDLE", "SEND_RESPONSE", "SEND_BODY", "DONE"}
      BY DEF ConnInv, TypeOK, HalvesInv
  <2>2. total = cur => LatestComplete
      BY MaxRequestsAssumption DEF ConnInv, TypeOK, OrderInv, LatestComplete, Requests
  <2>3. heads = 0 \/ heads > 0
      BY MaxRequestsAssumption DEF ConnInv, TypeOK
  <2>4. CASE ours = "IDLE"
      BY <2>2, <2>3, <2>4 DEF ConnInv, HalvesInv, LoopInv
  <2>5. CASE ours = "DONE"
      BY <2>2, <2>5 DEF ConnInv, HalvesInv, LoopInv
  <2>6. CASE ours \in {"SEND_RESPONSE", "SEND_BODY"}
      BY <2>6 DEF EndInv, BusyInv
  <2>7. QED
      BY <2>1, <2>4, <2>5, <2>6
<1>2. QED
    BY <1>1, InductiveInvariant, PTL

\* An application that has ended has completed its response, unless the
\* connection is not open or h11 has refused it.
THEOREM H11NoSilentEnd == Spec => []NoSilentEnd
<1>1. ConnInv /\ EndInv => NoSilentEnd
    BY DEF EndInv
<1>2. QED
    BY <1>1, InductiveInvariant, PTL

\* After shutdown() the connection is not open, or a request is in service that
\* closes it when it is answered, or h11 has refused something.
THEOREM H11ShutdownPending == Spec => []ShutdownPending
<1>1. ConnInv /\ EndInv => ShutdownPending
    BY DEF EndInv
<1>2. QED
    BY <1>1, InductiveInvariant, PTL

-----------------------------------------------------------------------------
(* The loss of the connection.                                             *)

\* A wait that is not signalled is for a request unanswered; once the connection
\* is lost there is none, and every task knows that its response is over.
HearInv ==
    /\ \A i \in Requests : cycle[i].recv = "wait" =>
          cycle[i].phase = "app" /\ (cycle[i].event \/ ~cycle[i].complete)
    /\ conn = "lost" => \A i \in Requests :
          /\ cycle[i].recv = "wait" => cycle[i].event
          /\ cycle[i].phase # "none" => cycle[i].disconnected \/ cycle[i].complete

\* A step of a cycle that neither begins to wait nor takes the signal of a wait.
Hears(c, d) ==
    /\ d.recv = "wait" => /\ c.recv = "wait" /\ d.phase = c.phase
                          /\ c.event => d.event
                          /\ d.complete => c.complete \/ d.event
    /\ c.disconnected \/ c.complete => d.disconnected \/ d.complete
    /\ d.phase # "none" => c.phase # "none"

LEMMA HearFrame ==
    ASSUME HearInv, conn' = "lost" => conn = "lost",
           \A j \in Requests : Hears(cycle[j], cycle'[j])
    PROVE  HearInv'
BY DEF HearInv, Hears

\* A step of one request, or of none.
LEMMA HearOne ==
    ASSUME TypeOK, HearInv, conn' = "lost" => conn = "lost", NEW i \in Requests,
           NEW c \in Cycles, cycle' = [cycle EXCEPT ![i] = c], Hears(cycle[i], c)
    PROVE  HearInv'
<1>1. OnlyCycle(i) /\ cycle'[i] = c
    BY Update
<1>2. \A j \in Requests : Hears(cycle[j], cycle'[j])
    BY <1>1 DEF OnlyCycle, Hears
<1>3. QED
    BY <1>2, HearFrame

LEMMA HearNone ==
    ASSUME HearInv, conn' = "lost" => conn = "lost", UNCHANGED cycle
    PROVE  HearInv'
BY HearFrame DEF Hears

\* handle_events runs on an open connection only.
LEMMA HearEvents == ConnInv /\ HearInv /\ HandleEvents => HearInv'
<1> SUFFICES ASSUME ConnInv, HearInv, HandleEvents PROVE HearInv'
    OBVIOUS
<1>0. TypeOK /\ conn = "open" /\ cur \in 0 .. MaxRequests
    BY DEF ConnInv, TypeOK, LoopInv, HandleEvents, DataReceived, NeedData, Paused,
       Request, HandleWebsocketUpgrade, TakeHead, Data, EndOfMessage, InvalidRequest
<1>1. CASE DataReceived \/ NeedData \/ Paused \/ HandleWebsocketUpgrade \/ InvalidRequest
    BY <1>0, <1>1, HearNone DEF DataReceived, NeedData, Paused, HandleWebsocketUpgrade,
       InvalidRequest
<1>2. CASE Request
  <2>1. cur + 1 \in Requests /\ conn' = conn
      BY <1>0, <1>2, MaxRequestsAssumption DEF Request, TakeHead, Requests
  <2>2. PICK expect \in BOOLEAN :
            cycle' = [cycle EXCEPT ![cur + 1].phase = "app",
                                   ![cur + 1].waiting100 = expect]
      BY <1>2 DEF Request
  <2>3. PICK b \in Cycles : b = cycle[cur + 1]
      BY <1>0, <2>1 DEF TypeOK
  <2>4. PICK c : c = [b EXCEPT !.phase = "app", !.waiting100 = expect]
      OBVIOUS
  <2>5. c \in Cycles /\ c.recv = b.recv
      BY <2>3, <2>4 DEF Cycles
  <2>6. cycle' = [cycle EXCEPT ![cur + 1] = c]
      BY <1>0, <2>1, <2>2, <2>3, <2>4 DEF TypeOK
  <2>7. b.recv = "idle"
      BY <1>0, <2>1, <2>3, MaxRequestsAssumption DEF ConnInv, OrderInv, Fresh
  <2>8. OnlyCycle(cur + 1) /\ cycle'[cur + 1] = c
      BY <1>0, <2>1, <2>5, <2>6, Update
  <2>9. QED
      BY <1>0, <2>1, <2>5, <2>7, <2>8 DEF HearInv, OnlyCycle
<1>3. CASE Data
  <2>1. CASE ours = "DONE"
      BY <1>0, <1>3, <2>1, HearNone DEF Data
  <2>2. CASE ours # "DONE"
    <3>1. cur \in Requests /\ conn' = conn
        BY <1>0, <1>3, MaxRequestsAssumption DEF Data, ConnInv, HalvesInv, Requests
    <3>2. PICK b \in Cycles : b = cycle[cur]
        BY <1>0, <3>1 DEF TypeOK
    <3>3. b.body <= HighWater /\ b.body \in 0 .. HighWater + 1
        BY <1>3, <2>2, <3>2 DEF Data, Cycles
    <3>4. PICK n \in 0 .. HighWater + 1 : n = b.body + 1
        BY <3>3, HighWaterAssumption
    <3>5. PICK c : c = [b EXCEPT !.body = n, !.event = TRUE]
        OBVIOUS
    <3>6. c \in Cycles /\ Hears(b, c)
        BY <3>2, <3>5 DEF Cycles, Hears
    <3>7. cycle' = [cycle EXCEPT ![cur] = c]
        BY <1>0, <1>3, <2>2, <3>1, <3>2, <3>4, <3>5 DEF Data, TypeOK, Cycles
    <3>8. QED
        BY <1>0, <3>1, <3>2, <3>6, <3>7, HearOne
  <2>3. QED
      BY <2>1, <2>2
<1>4. CASE EndOfMessage
  <2>1. CASE ours = "DONE"
      BY <1>0, <1>4, <2>1, HearNone DEF EndOfMessage
  <2>2. CASE ours # "DONE"
    <3>1. cur \in Requests /\ conn' = conn
        BY <1>0, <1>4, MaxRequestsAssumption DEF EndOfMessage, ConnInv, HalvesInv, Requests
    <3>2. PICK b \in Cycles : b = cycle[cur]
        BY <1>0, <3>1 DEF TypeOK
    <3>3. PICK c : c = [b EXCEPT !.moreBody = FALSE, !.event = TRUE]
        OBVIOUS
    <3>4. c \in Cycles /\ Hears(b, c)
        BY <3>2, <3>3 DEF Cycles, Hears
    <3>5. cycle' = [cycle EXCEPT ![cur] = c]
        BY <1>0, <1>4, <2>2, <3>1, <3>2, <3>3 DEF EndOfMessage, TypeOK, Cycles
    <3>6. QED
        BY <1>0, <3>1, <3>2, <3>4, <3>5, HearOne
  <2>3. QED
      BY <2>1, <2>2
<1>5. QED
    BY <1>1, <1>2, <1>3, <1>4 DEF HandleEvents

\* connection_lost signals the latest cycle; the others have been answered.
LEMMA HearLost ==
    ASSUME ConnInv, HearInv, ConnectionLost \/ ConnectionLostUpgraded
    PROVE  HearInv'
<1>0. TypeOK /\ OrderInv
    BY DEF ConnInv
<1>1. CASE ConnectionLost
  <2> DEFINE lost(i) == [Released[i] EXCEPT
                           !.disconnected = @ \/ (i = cur /\ ~cycle[i].complete),
                           !.event = @ \/ i = cur]
  <2>1. cycle' = [i \in Requests |-> lost(i)]
      BY <1>1 DEF ConnectionLost
  <2>2. ASSUME NEW i \in Requests
        PROVE  /\ lost(i).recv = cycle[i].recv /\ lost(i).phase = cycle[i].phase
               /\ lost(i).complete = cycle[i].complete
               /\ cycle[i].event \/ i = cur => lost(i).event
               /\ i = cur => lost(i).disconnected \/ lost(i).complete
    <3>1. Released[i] \in Cycles /\ SameResponse(cycle[i], Released[i])
        BY <1>0, ReleasedKept
    <3>2. Released[i].recv = cycle[i].recv /\ Released[i].event = cycle[i].event
        BY <1>0 DEF TypeOK, Released, Cycles
    <3>3. PICK c \in Cycles : c = Released[i]
        BY <3>1
    <3>4. PICK told \in BOOLEAN, woken \in BOOLEAN :
              /\ told = (c.disconnected \/ (i = cur /\ ~cycle[i].complete))
              /\ woken = (c.event \/ i = cur)
        OBVIOUS
    <3>5. lost(i) = [c EXCEPT !.disconnected = told, !.event = woken]
        BY <3>3, <3>4
    <3> DEFINE d == [c EXCEPT !.disconnected = told, !.event = woken]
    <3>6. /\ d.recv = c.recv /\ d.phase = c.phase /\ d.complete = c.complete
          /\ d.event = woken /\ d.disconnected = told
        BY DEF Cycles
    <3>7. woken <=> c.event \/ i = cur
        BY <3>4
    <3>8. i = cur /\ ~cycle[i].complete => told
        BY <3>4
    <3> HIDE DEF lost, d
    <3>9. lost(i) = d
        BY <3>5 DEF d
    <3>10. QED
        BY <3>1, <3>2, <3>3, <3>6, <3>7, <3>8, <3>9 DEF SameResponse
  <2> HIDE DEF lost
  <2>3. ASSUME NEW i \in Requests
        PROVE  /\ cycle'[i].recv = "wait" =>
                    cycle'[i].phase = "app" /\ (cycle'[i].event \/ ~cycle'[i].complete)
               /\ cycle'[i].recv = "wait" => cycle'[i].event
               /\ cycle'[i].phase # "none" => cycle'[i].disconnected \/ cycle'[i].complete
    <3>1. cycle'[i] = lost(i)
        BY <2>1
    <3>2. cycle[i].phase # "none" /\ ~cycle[i].complete => i = cur
        BY <1>0, IncompleteIsLatest
    <3>3. cycle[i].recv = "wait" =>
              cycle[i].phase = "app" /\ (cycle[i].event \/ ~cycle[i].complete)
        BY DEF HearInv
    <3>4. QED
        BY <2>2, <3>1, <3>2, <3>3
  <2>4. QED
      BY <2>3 DEF HearInv
<1>2. CASE ConnectionLostUpgraded
  <2>1. UNCHANGED cycle /\ upgraded
      BY <1>2 DEF ConnectionLostUpgraded
  <2>2. cur > 0 /\ cycle[cur].phase = "none"
      BY <2>1 DEF ConnInv, LoopInv
  <2>3. \A i \in Requests : cycle[i].phase # "none" => cycle[i].complete
      BY <1>0, <2>2, IncompleteIsLatest
  <2>4. QED
      BY <2>1, <2>3 DEF HearInv
<1>3. QED
    BY <1>1, <1>2

LEMMA HearCallbacks == ConnInv /\ HearInv /\ Callbacks => HearInv'
<1> SUFFICES ASSUME ConnInv, HearInv, Callbacks PROVE HearInv'
    OBVIOUS
<1>0. TypeOK /\ OrderInv
    BY DEF ConnInv
<1>1. CASE EofReceived \/ TransportFails \/ TimeoutKeepAliveHandler
    BY <1>1, HearNone DEF EofReceived, TransportFails, TimeoutKeepAliveHandler
<1>2. CASE ResumeWriting
  <2>1. cycle' = Released /\ conn' = conn
      BY <1>2 DEF ResumeWriting
  <2>2. \A j \in Requests : /\ SameResponse(cycle[j], Released[j])
                            /\ Released[j].recv = cycle[j].recv
                            /\ Released[j].event = cycle[j].event
    <3>1. \A j \in Requests : Released[j].recv = cycle[j].recv
                              /\ Released[j].event = cycle[j].event
        BY <1>0 DEF TypeOK, Released, Cycles
    <3>2. QED
        BY <1>0, <3>1, ReleasedKept
  <2>3. \A j \in Requests : Hears(cycle[j], cycle'[j])
      BY <2>1, <2>2 DEF Hears, SameResponse
  <2>4. QED
      BY <2>1, <2>3, HearFrame
<1>3. CASE Shutdown
  <2>1. conn' = "lost" => conn = "lost"
      BY <1>3 DEF Shutdown, Closing
  <2>2. CASE LatestComplete
      BY <1>3, <2>1, <2>2, HearNone DEF Shutdown
  <2>3. CASE ~LatestComplete
    <3>1. cur \in Requests
        BY <1>0, <2>3, MaxRequestsAssumption DEF LatestComplete, TypeOK, Requests
    <3>2. PICK b \in Cycles : b = cycle[cur]
        BY <1>0, <3>1 DEF TypeOK
    <3>3. PICK c : c = [b EXCEPT !.keepAlive = FALSE]
        OBVIOUS
    <3>4. c \in Cycles /\ Hears(b, c)
        BY <3>2, <3>3 DEF Cycles, Hears
    <3>5. cycle' = [cycle EXCEPT ![cur] = c]
        BY <1>0, <1>3, <2>3, <3>1, <3>2, <3>3 DEF Shutdown, TypeOK, Cycles
    <3>6. QED
        BY <1>0, <2>1, <3>1, <3>2, <3>4, <3>5, HearOne
  <2>4. QED
      BY <2>2, <2>3
<1>4. CASE ConnectionLost \/ ConnectionLostUpgraded
    BY <1>4, HearLost
<1>5. QED
    BY <1>1, <1>2, <1>3, <1>4 DEF Callbacks

LEMMA HearRaises ==
    ASSUME NEW c \in Cycles
    PROVE  SendRaises(c).recv = c.recv /\ SendRaises(c).event = c.event
<1> DEFINE ph == IF c.phase = "fail" THEN "done" ELSE c.phase
<1>1. SendRaises(c) = [c EXCEPT !.snd = "idle", !.phase = ph]
    BY DEF SendRaises
<1> HIDE DEF ph
<1>2. QED
    BY <1>1 DEF Cycles

\* A task in receive() or in a send() that only moves on; after the loss
\* receive() does not wait any more.
LEMMA HearWaits ==
    ASSUME ConnInv, HearInv, NEW i \in Requests,
           Receive(i) \/ ReceiveWakes(i) \/ SendWaits(i) \/ SendReturns(i)
    PROVE  HearInv'
<1>0. TypeOK /\ OrderInv
    BY DEF ConnInv
<1>1. PICK b \in Cycles : b = cycle[i]
    BY <1>0 DEF TypeOK
<1>2. CASE SendWaits(i) \/ SendReturns(i)
  <2>1. PICK s \in {"idle", "drain"} : cycle' = [cycle EXCEPT ![i].snd = s]
      BY <1>2 DEF SendWaits, SendReturns
  <2>2. PICK c : c = [b EXCEPT !.snd = s]
      OBVIOUS
  <2>3. c \in Cycles /\ Hears(b, c)
      BY <1>1, <2>2 DEF Cycles, Hears
  <2>4. cycle' = [cycle EXCEPT ![i] = c] /\ conn' = conn
      BY <1>0, <1>1, <1>2, <2>1, <2>2 DEF TypeOK, SendWaits, SendReturns
  <2>5. QED
      BY <1>0, <1>1, <2>3, <2>4, HearOne
<1>3. CASE ReceiveWakes(i)
  <2>1. cycle' = [cycle EXCEPT ![i] = TakeMessage(b)] /\ conn' = conn
      BY <1>0, <1>1, <1>3 DEF TypeOK, ReceiveWakes
  <2>2. TakeMessage(b) \in Cycles /\ SameResponse(b, TakeMessage(b))
      BY <1>1, TakeTyped
  <2>3. TakeMessage(b).recv = "idle"
      BY <1>1 DEF TakeMessage, Cycles
  <2>4. Hears(b, TakeMessage(b))
      BY <2>2, <2>3 DEF Hears, SameResponse
  <2>5. QED
      BY <1>0, <1>1, <2>1, <2>2, <2>4, HearOne
<1>4. CASE Receive(i)
  <2>1. b.phase = "app" /\ ~b.disconnected /\ ~b.complete /\ conn' = conn
      BY <1>1, <1>4 DEF Receive
  <2>2. conn # "lost"
      BY <1>1, <2>1 DEF HearInv
  <2>3. PICK w \in BOOLEAN : w = (b.waiting100 /\ ~(b.waiting100 /\ conn = "open"))
      OBVIOUS
  <2>4. PICK c : c = [b EXCEPT !.waiting100 = w]
      OBVIOUS
  <2>5. /\ c \in Cycles /\ c.phase = b.phase /\ c.event = b.event
        /\ c.complete = b.complete /\ c.recv = b.recv
      BY <1>1, <2>4 DEF Cycles
  <2>6. PICK d : d = IF c.event THEN TakeMessage(c) ELSE [c EXCEPT !.recv = "wait"]
      OBVIOUS
  <2>7. cycle' = [cycle EXCEPT ![i] = d]
      BY <1>0, <1>1, <1>4, <2>3, <2>4, <2>6 DEF Receive, TypeOK
  <2>8. CASE c.event
    <3>1. d \in Cycles /\ SameResponse(c, d)
        BY <2>5, <2>6, <2>8, TakeTyped
    <3>2. d.recv = "idle"
        BY <2>5, <2>6, <2>8 DEF TakeMessage, Cycles
    <3>3. OnlyCycle(i) /\ cycle'[i] = d
        BY <1>0, <2>7, <3>1, Update
    <3>4. QED
        BY <2>1, <2>2, <3>2, <3>3 DEF HearInv, OnlyCycle
  <2>9. CASE ~c.event
    <3>1. d = [c EXCEPT !.recv = "wait"]
        BY <2>6, <2>9
    <3>2. d \in Cycles /\ d.phase = "app" /\ ~d.complete
        BY <2>1, <2>5, <3>1 DEF Cycles
    <3>3. OnlyCycle(i) /\ cycle'[i] = d
        BY <1>0, <2>7, <3>2, Update
    <3>4. QED
        BY <2>1, <2>2, <3>2, <3>3 DEF HearInv, OnlyCycle
  <2>10. QED
      BY <2>8, <2>9
<1>5. QED
    BY <1>2, <1>3, <1>4

\* send() and the end of run_asgi: the last part of a response signals its own
\* cycle.
LEMMA HearSends ==
    ASSUME ConnInv, HearInv, NEW i \in Requests,
           \/ \E close, valid \in BOOLEAN : SendStart(i, close, valid)
           \/ \E fits \in BOOLEAN : SendBody(i, fits) \/ SendLast(i, fits)
    PROVE  HearInv'
<1>0. TypeOK
    BY DEF ConnInv
<1>1. PICK b \in Cycles : b = cycle[i]
    BY <1>0 DEF TypeOK
<1>2. b.recv = "wait" => b.phase = "app"
    BY <1>1 DEF HearInv
<1>3. ASSUME NEW close \in BOOLEAN, NEW valid \in BOOLEAN, SendStart(i, close, valid)
      PROVE  HearInv'
  <2>1. PICK c : c = [b EXCEPT !.started = TRUE, !.waiting100 = FALSE]
      OBVIOUS
  <2>2. /\ c \in Cycles /\ c.phase = b.phase /\ c.recv = b.recv /\ c.event = b.event
        /\ c.complete = b.complete /\ c.disconnected = b.disconnected
      BY <1>1, <2>1 DEF Cycles
  <2>3. \/ cycle' = [cycle EXCEPT ![i] = [c EXCEPT !.snd = "idle"]]
        \/ cycle' = [cycle EXCEPT ![i] = SendRaises(c)]
      BY <1>3, <1>1, <2>1 DEF SendStart
  <2>4. conn' = conn
      BY <1>3 DEF SendStart
  <2>5. CASE cycle' = [cycle EXCEPT ![i] = [c EXCEPT !.snd = "idle"]]
    <3>1. PICK d : d = [c EXCEPT !.snd = "idle"]
        OBVIOUS
    <3>2. /\ d \in Cycles /\ d.phase = c.phase /\ d.recv = c.recv /\ d.event = c.event
          /\ d.complete = c.complete /\ d.disconnected = c.disconnected
        BY <2>2, <3>1 DEF Cycles
    <3>3. Hears(b, d)
        BY <2>2, <3>2 DEF Hears
    <3>4. QED
        BY <1>0, <1>1, <2>4, <2>5, <3>1, <3>2, <3>3, HearOne
  <2>6. CASE cycle' = [cycle EXCEPT ![i] = SendRaises(c)]
    <3>1. /\ SendRaises(c) \in Cycles
          /\ SendRaises(c).phase = IF c.phase = "fail" THEN "done" ELSE c.phase
          /\ SendRaises(c).complete = c.complete
          /\ SendRaises(c).disconnected = c.disconnected
          /\ SendRaises(c).recv = c.recv /\ SendRaises(c).event = c.event
        BY <2>2, RaisesTyped, HearRaises
    <3>2. Hears(b, SendRaises(c))
        BY <1>2, <2>2, <3>1 DEF Hears
    <3>3. QED
        BY <1>0, <1>1, <2>4, <2>6, <3>1, <3>2, HearOne
  <2>7. QED
      BY <2>3, <2>5, <2>6
<1>4. ASSUME NEW fits \in BOOLEAN, SendBody(i, fits)
      PROVE  HearInv'
  <2>1. PICK c : c = [b EXCEPT !.snd = "idle"]
      OBVIOUS
  <2>2. c \in Cycles /\ Hears(b, c)
      BY <1>1, <2>1 DEF Cycles, Hears
  <2>3. cycle' = [cycle EXCEPT ![i] = c] /\ conn' = conn
      BY <1>0, <1>1, <1>4, <2>1 DEF SendBody, TypeOK
  <2>4. QED
      BY <1>0, <1>1, <2>2, <2>3, HearOne
<1>5. ASSUME NEW whole \in BOOLEAN, SendLast(i, whole)
      PROVE  HearInv'
  <2>1. PICK c : c = SendRaises(b)
      OBVIOUS
  <2>2. /\ c \in Cycles /\ c.phase = IF b.phase = "fail" THEN "done" ELSE b.phase
        /\ c.complete = b.complete /\ c.disconnected = b.disconnected
        /\ c.recv = b.recv /\ c.event = b.event
      BY <2>1, RaisesTyped, HearRaises
  <2>3. PICK d : d = [c EXCEPT !.complete = TRUE, !.event = TRUE]
      OBVIOUS
  <2>4. /\ d \in Cycles /\ d.phase = c.phase /\ d.recv = c.recv /\ d.event /\ d.complete
      BY <2>2, <2>3 DEF Cycles
  <2>5. b.phase # "none"
      BY <1>1, <1>5 DEF SendLast, CanSend
  <2>6. Hears(b, c) /\ Hears(b, d)
      BY <1>2, <2>2, <2>4, <2>5 DEF Hears
  <2>7. conn' = "lost" => conn = "lost"
      BY <1>5 DEF SendLast, Closing
  <2>8. cycle' = [cycle EXCEPT ![i] = c] \/ cycle' = [cycle EXCEPT ![i] = d]
      BY <1>0, <1>1, <1>5, <2>1, <2>3 DEF SendLast, TypeOK
  <2>9. QED
      BY <1>0, <1>1, <2>2, <2>4, <2>6, <2>7, <2>8, HearOne
<1>6. QED
    BY <1>3, <1>4, <1>5

LEMMA HearEnds ==
    ASSUME ConnInv, HearInv, NEW i \in Requests, AppEnds(i)
    PROVE  HearInv'
<1>0. TypeOK
    BY DEF ConnInv
<1>1. /\ OnlyCycle(i) /\ cycle[i].phase \in {"app", "fail"}
      /\ cycle'[i].complete = cycle[i].complete
      /\ cycle'[i].disconnected = cycle[i].disconnected
      /\ conn' \in {conn, Closing(conn)}
    BY <1>0, AppEndsCycle
<1>2. PICK ph \in {"fail", "done"}, close \in BOOLEAN : RunAsgiEnds(i, ph, close)
  <2>1. PICK close \in BOOLEAN : close = (~cycle[i].complete /\ ~cycle[i].disconnected)
      OBVIOUS
  <2>2. QED
      BY <2>1 DEF AppEnds, AppRaises, AppReturnsValue, AppReturnsNone, FailDropped,
         ClosesOnError, RunAsgiEnds
<1>3. cycle'[i].recv = "idle"
  <2>1. PICK b \in Cycles : b = cycle[i]
      BY <1>0 DEF TypeOK
  <2>2. cycle' = [cycle EXCEPT ![i] = [b EXCEPT !.phase = ph, !.recv = "idle", !.snd = "idle"]]
      BY <1>0, <1>2, <2>1 DEF RunAsgiEnds, TypeOK
  <2>3. QED
      BY <1>0, <2>1, <2>2 DEF TypeOK, Cycles
<1>4. Hears(cycle[i], cycle'[i])
    BY <1>1, <1>3 DEF Hears
<1>5. \A j \in Requests : Hears(cycle[j], cycle'[j])
    BY <1>1, <1>4 DEF OnlyCycle, Hears
<1>6. QED
    BY <1>1, <1>5, HearFrame DEF Closing

LEMMA HearStep == ConnInv /\ HearInv /\ [Next]_vars => HearInv'
<1> SUFFICES ASSUME ConnInv, HearInv, [Next]_vars PROVE HearInv'
    OBVIOUS
<1>1. CASE HandleEvents
    BY <1>1, HearEvents
<1>2. CASE Callbacks
    BY <1>2, HearCallbacks
<1>3. ASSUME NEW i \in Requests, Task(i) PROVE HearInv'
    BY <1>3, HearWaits, HearSends, HearEnds DEF Task, AppEnds
<1>4. CASE UNCHANGED vars
    BY <1>4, HearNone DEF vars
<1>5. QED
    BY <1>1, <1>2, <1>3, <1>4 DEF Next

\* Nobody waits in vain for a connection that is lost.
LossHeard ==
    conn = "lost" => \A i \in Requests : cycle[i].recv = "wait" => cycle[i].event

\* After connection_lost every receive() is signalled, whichever request it is
\* for: with h11 a request is not taken before the one in front of it is answered,
\* and the last send() of a response signals its own cycle.
THEOREM H11LossHeard == Spec => []LossHeard
<1>1. Init => HearInv
    BY DEF Init, HearInv, NewCycle
<1>2. ConnInv /\ EndInv /\ HearInv /\ [Next]_vars => HearInv'
    BY HearStep
<1>3. HearInv => LossHeard
    BY DEF HearInv, LossHeard
<1>4. QED
    BY <1>1, <1>2, <1>3, InductiveInvariant, PTL DEF Spec

-----------------------------------------------------------------------------
(* The connection implements PipelinedService.                             *)

\* The requests handed to the application, the one handle_events is about to
\* read from the buffer included.
Served == IF feeding /\ theirs = "IDLE" /\ heads > 0 THEN cur + 1 ELSE cur

SameStarts == \A j \in Requests : cycle'[j].started = cycle[j].started

\* Steps that neither receive, begin nor finish stutter or close.
LEMMA RefineFrame ==
    ASSUME ConnInv, [Next]_vars, SameStarts, UNCHANGED <<cur, heads, total, Served>>
    PROVE  Service!Next \/ UNCHANGED Service!vars
<1>1. (\E i \in Requests : cycle'[i].started /\ ~(i <= total'))
          <=> (\E i \in Requests : cycle[i].started /\ ~(i <= total))
    BY DEF SameStarts
<1>2. CASE conn = "open" /\ conn' # "open"
    BY <1>1, <1>2 DEF Service!Next, Service!Close, Served
<1>3. CASE (conn = "open") = (conn' = "open")
    BY <1>1, <1>3 DEF Service!vars, Served
<1>4. QED
    BY <1>2, <1>3, Monotone

LEMMA KeptStarts == ASSUME Kept PROVE SameStarts
BY DEF Kept, SameResponse, SameStarts

\* A head read from the buffer was received before, any other is received and
\* finds the application idle.
LEMMA RefineHead ==
    ASSUME ConnInv, [Next]_vars, TakeHead, SameStarts, UNCHANGED <<conn, total>>,
           theirs' # "IDLE"
    PROVE  Service!Next \/ UNCHANGED Service!vars
<1>1. feeding /\ theirs = "IDLE" /\ cur' = cur + 1 /\ conn = "open"
    BY DEF TakeHead, ConnInv, LoopInv
<1>2. total = cur /\ heads \in Nat /\ cur \in Nat
    BY <1>1, MaxRequestsAssumption DEF ConnInv, HalvesInv, TypeOK
<1>3. (\E i \in Requests : cycle'[i].started /\ ~(i <= total'))
          <=> (\E i \in Requests : cycle[i].started /\ ~(i <= total))
    BY DEF SameStarts
<1>4. CASE heads > 0
  <2>1. heads' = heads - 1 /\ Served = cur + 1 /\ Served' = cur + 1
      BY <1>1, <1>4 DEF TakeHead, Served
  <2>2. cur' + heads' = cur + heads
      BY <1>1, <1>2, <2>1
  <2>3. QED
      BY <1>3, <2>1, <2>2 DEF Service!vars, Served
<1>5. CASE heads = 0
  <2>1. heads' = 0 /\ Served = cur /\ Served' = cur + 1
      BY <1>1, <1>5 DEF TakeHead, Served
  <2>2. cur' + heads' = (cur + heads) + 1
      BY <1>1, <1>2, <1>5, <2>1
  <2>3. Service!Receive
      BY <1>1, <1>2, <1>3, <2>1, <2>2 DEF Service!Receive, Service!Idle, Served
  <2>4. QED
      BY <2>3 DEF Service!Next
<1>6. QED
    BY <1>2, <1>4, <1>5

\* A head left in h11's buffer is received behind a request in service.
LEMMA RefinePaused ==
    ASSUME ConnInv, [Next]_vars, Paused
    PROVE  Service!Next \/ UNCHANGED Service!vars
<1>1. /\ conn = "open" /\ theirs = "DONE" /\ ~feeding' /\ heads' \in {heads, heads + 1}
      /\ UNCHANGED <<conn, cur, total, cycle>>
    BY DEF Paused, protoVars, ConnInv, LoopInv
<1>2. total < cur /\ cur \in Nat /\ heads \in Nat /\ total \in Nat
    BY <1>1, MaxRequestsAssumption DEF ConnInv, HalvesInv, TypeOK
<1>3. Served = cur /\ Served' = cur
    BY <1>1 DEF Served
<1>4. CASE heads' = heads
    BY <1>1, <1>3, <1>4, RefineFrame DEF SameStarts
<1>5. CASE heads' = heads + 1
  <2>1. cur' + heads' = (cur + heads) + 1
      BY <1>1, <1>2, <1>5
  <2>2. ~Service!Idle
      BY <1>2, <1>3 DEF Service!Idle, Served
  <2>3. Service!Receive
      BY <1>1, <1>3, <2>1, <2>2 DEF Service!Receive, Served
  <2>4. QED
      BY <2>3 DEF Service!Next
<1>6. QED
    BY <1>1, <1>4, <1>5

\* Only the latest request can have begun a response that is not counted.
LEMMA BegunIsLatest ==
    ASSUME ConnInv, NEW j \in Requests, cycle[j].started, ~(j <= total)
    PROVE  j = cur
<1>1. ~(j > cur)
    BY DEF ConnInv, OrderInv, Fresh
<1>2. QED
    BY <1>1, MaxRequestsAssumption DEF ConnInv, TypeOK, OrderInv, Requests

LEMMA RefineBegin ==
    ASSUME ConnInv, NEW i \in Requests, NEW close \in BOOLEAN, NEW valid \in BOOLEAN,
           SendStart(i, close, valid)
    PROVE  Service!Begin
<1>1. /\ ~cycle[i].started /\ cycle[i].phase \in {"app", "fail"}
      /\ UNCHANGED <<conn, feeding, heads, cur, total>>
    BY DEF SendStart, CanSend, protoVars
<1>2. ~feeding
    BY TaskNotFeeding DEF Task
<1>3. i = cur /\ total < cur
    BY <1>1, IncompleteIsLatest DEF ConnInv, OrderInv
<1>4. ~ \E j \in Requests : cycle[j].started /\ ~(j <= total)
    BY <1>1, <1>3, BegunIsLatest
<1>5. cycle'[i].started /\ ~(i <= total')
    BY <1>1, <1>3, StartCycle, MaxRequestsAssumption DEF ConnInv, TypeOK
<1>6. Served = cur /\ Served' = cur
    BY <1>1, <1>2 DEF Served
<1>7. ~Service!Idle
    BY <1>3, <1>6, MaxRequestsAssumption DEF Service!Idle, Served, ConnInv, TypeOK
<1>8. QED
    BY <1>1, <1>4, <1>5, <1>6, <1>7 DEF Service!Begin, Served

LEMMA RefineFinish ==
    ASSUME ConnInv, [Next]_vars, NEW i \in Requests, NEW whole \in BOOLEAN,
           SendLast(i, whole), total' = total + 1
    PROVE  Service!Finish
<1>1. i = cur /\ total + 1 = cur /\ ~feeding
    BY LastIsLatest
<1>2. /\ cycle[i].started /\ UNCHANGED <<cur, heads>>
      /\ heads \in Nat /\ cur \in Nat /\ total \in Nat
    BY MaxRequestsAssumption DEF SendLast, ConnInv, TypeOK
<1>3. ~(i <= total)
    BY <1>1, <1>2
<1>4. ~ \E j \in Requests : cycle'[j].started /\ ~(j <= total')
  <2>1. SUFFICES ASSUME NEW j \in Requests, cycle'[j].started, ~(j <= total')
                 PROVE  FALSE
      OBVIOUS
  <2>2. cycle[j].started
      BY <2>1, LastCycle DEF OnlyCycle, ConnInv
  <2>3. ~(j <= total)
      BY <1>2, <2>1, MaxRequestsAssumption DEF Requests
  <2>4. j = cur
      BY <2>2, <2>3, BegunIsLatest
  <2>5. QED
      BY <1>1, <1>2, <2>1, <2>4
<1>5. conn' = "open" => conn = "open"
    BY Monotone
<1>6. Served = cur
    BY <1>1 DEF Served
<1>7. Served' = IF conn' = "open" /\ Served < cur + heads THEN Served + 1 ELSE Served
  <2>1. \/ conn' # "open" /\ feeding' = feeding
        \/ conn' = "open" /\ feeding' /\ theirs' = "IDLE"
        \/ conn' = "open" /\ ~feeding' /\ heads = 0
      BY Counted
  <2>2. cur < cur + heads <=> heads > 0
      BY <1>2
  <2>3. QED
      BY <1>1, <1>2, <1>6, <2>1, <2>2 DEF Served
<1>8. QED
    BY <1>1, <1>2, <1>3, <1>4, <1>5, <1>7 DEF Service!Finish, Served

LEMMA RefineStep == ConnInv /\ [Next]_vars => [Service!Next]_Service!vars
<1> SUFFICES ASSUME ConnInv, [Next]_vars
             PROVE  Service!Next \/ UNCHANGED Service!vars
    OBVIOUS
<1>t. TypeOK /\ OrderInv /\ HalvesInv /\ heads \in Nat
    BY MaxRequestsAssumption DEF ConnInv, TypeOK
<1>1. CASE UNCHANGED vars
  <2>1. SameStarts /\ UNCHANGED <<cur, heads, total, Served>>
      BY <1>1 DEF vars, h11Vars, protoVars, SameStarts, Served
  <2>2. QED
      BY <2>1, RefineFrame
<1>2. CASE DataReceived \/ NeedData \/ InvalidRequest
  <2>1. SameStarts /\ UNCHANGED <<cur, heads, total>>
      BY <1>2 DEF DataReceived, NeedData, InvalidRequest, h11Vars, protoVars, SameStarts
  <2>2. Served = cur /\ Served' = cur
    <3>1. CASE DataReceived
        BY <1>t, <3>1 DEF DataReceived, Free, Served, ConnInv, LoopInv, h11Vars, protoVars
    <3>2. CASE NeedData
        BY <3>2 DEF NeedData, Served, h11Vars, protoVars
    <3>3. CASE InvalidRequest
        BY <3>3 DEF InvalidRequest, Served, protoVars
    <3>4. QED
        BY <1>2, <3>1, <3>2, <3>3
  <2>3. QED
      BY <2>1, <2>2, RefineFrame
<1>3. CASE Paused
    BY <1>3, RefinePaused
<1>4. CASE Request
  <2>1. PICK keep \in BOOLEAN : Settle("SEND_BODY", "SEND_RESPONSE", keep)
      BY <1>4 DEF Request
  <2>2. TakeHead /\ UNCHANGED <<conn, total>> /\ theirs' # "IDLE"
      BY <1>4, <2>1 DEF Request, Settle
  <2>3. SameStarts
    <3>1. /\ cur + 1 \in Requests /\ OnlyCycle(cur + 1)
          /\ ~cycle'[cur + 1].started
        BY <1>t, <1>4, RequestCycle
    <3>2. cycle[cur + 1].started \in BOOLEAN /\ ~cycle[cur + 1].started
        BY <1>t, <3>1, MaxRequestsAssumption DEF OrderInv, Fresh, TypeOK, Cycles
    <3>3. cycle'[cur + 1].started \in BOOLEAN
        BY <3>1 DEF OnlyCycle, Cycles
    <3>4. QED
        BY <3>1, <3>2, <3>3 DEF OnlyCycle, SameStarts
  <2>4. QED
      BY <2>2, <2>3, RefineHead
<1>5. CASE HandleWebsocketUpgrade
  <2>1. TakeHead /\ UNCHANGED <<conn, total>> /\ theirs' # "IDLE" /\ SameStarts
      BY <1>5 DEF HandleWebsocketUpgrade, Settle, SameStarts
  <2>2. QED
      BY <2>1, RefineHead
<1>6. CASE Data \/ EndOfMessage
  <2>1. SameStarts
      BY <1>t, <1>6, CallbackKept, KeptStarts
  <2>2. UNCHANGED <<cur, heads, total>> /\ Served = cur
      BY <1>6 DEF Data, EndOfMessage, Served, h11Vars, protoVars
  <2>3. theirs' = "IDLE" => heads' = 0
    <3>1. CASE Data
        BY <3>1 DEF Data, h11Vars
    <3>2. CASE EndOfMessage
        BY <3>2 DEF EndOfMessage, StartNextCycle, Settle, ConnInv, HalvesInv, LoopInv
    <3>3. QED
        BY <1>6, <3>1, <3>2
  <2>4. Served' = cur
      BY <2>2, <2>3 DEF Served
  <2>5. QED
      BY <2>1, <2>2, <2>4, RefineFrame
<1>7. CASE Callbacks
  <2>1. ~feeding /\ UNCHANGED <<feeding, cur, heads, total>>
      BY <1>7 DEF Callbacks, ResumeWriting, EofReceived, TransportFails,
         ConnectionLost, ConnectionLostUpgraded, TimeoutKeepAliveHandler,
         Shutdown, Free, h11Vars, protoVars
  <2>2. SameStarts
    <3>1. CASE ConnectionLost
        BY <1>t, <3>1, LostCycles DEF SameStarts
    <3>2. CASE ResumeWriting \/ Shutdown
        BY <1>t, <3>2, CallbackKept, KeptStarts
    <3>3. CASE \/ EofReceived \/ TransportFails \/ ConnectionLostUpgraded
               \/ TimeoutKeepAliveHandler
        BY <3>3 DEF EofReceived, TransportFails, ConnectionLostUpgraded,
           TimeoutKeepAliveHandler, SameStarts
    <3>4. QED
        BY <1>7, <3>1, <3>2, <3>3 DEF Callbacks
  <2>3. QED
      BY <2>1, <2>2, RefineFrame DEF Served
<1>8. ASSUME NEW i \in Requests, Task(i), SameStarts,
             UNCHANGED <<feeding, cur, heads, total>>
      PROVE  Service!Next \/ UNCHANGED Service!vars
    BY <1>8, TaskNotFeeding, RefineFrame DEF Served
<1>9. ASSUME NEW i \in Requests,
             \/ Receive(i) \/ ReceiveWakes(i) \/ SendWaits(i) \/ SendReturns(i)
             \/ \E fits \in BOOLEAN : SendBody(i, fits)
      PROVE  Service!Next \/ UNCHANGED Service!vars
  <2>1. UNCHANGED <<feeding, cur, heads, total>>
      BY <1>9 DEF Receive, ReceiveWakes, SendWaits, SendReturns, SendBody,
         h11Vars, protoVars
  <2>2. SameStarts
      BY <1>t, <1>9, QuietKept, KeptStarts
  <2>3. QED
      BY <1>8, <1>9, <2>1, <2>2 DEF Task
<1>10. ASSUME NEW i \in Requests, NEW close \in BOOLEAN, NEW valid \in BOOLEAN,
              SendStart(i, close, valid)
       PROVE  Service!Next
    BY <1>10, RefineBegin DEF Service!Next
<1>11. ASSUME NEW i \in Requests, NEW whole \in BOOLEAN, SendLast(i, whole)
       PROVE  Service!Next \/ UNCHANGED Service!vars
  <2>1. CASE total' = total + 1
      BY <1>11, <2>1, RefineFinish DEF Service!Next
  <2>2. CASE total' = total /\ UNCHANGED feeding
    <3>1. SameStarts
        BY <1>t, <1>11, LastCycle DEF OnlyCycle, SameStarts
    <3>2. UNCHANGED <<feeding, cur, heads, total>>
        BY <1>11, <2>2 DEF SendLast
    <3>3. QED
        BY <1>8, <1>11, <3>1, <3>2 DEF Task
  <2>3. QED
      BY <1>t, <1>11, <2>1, <2>2, LastCycle
<1>12. ASSUME NEW i \in Requests, AppEnds(i)
       PROVE  Service!Next \/ UNCHANGED Service!vars
  <2>1. UNCHANGED <<feeding, cur, heads, total>>
      BY <1>12 DEF AppEnds, AppRaises, AppReturnsValue, AppReturnsNone, FailDropped,
         RunAsgiEnds, h11Vars, protoVars
  <2>2. SameStarts
      BY <1>t, <1>12, AppEndsCycle DEF OnlyCycle, SameStarts
  <2>3. QED
      BY <1>8, <1>12, <2>1, <2>2 DEF Task, AppEnds
<1>13. QED
    BY <1>1, <1>2, <1>3, <1>4, <1>5, <1>6, <1>7, <1>9, <1>10, <1>11, <1>12
    DEF Next, HandleEvents, Task, AppEnds

\* Every behaviour of the h11 connection is one of the pipelined service, the
\* one the httptools connection implements too: requests are answered in order,
\* and one that h11 keeps in its buffer is handed on in the step that completes
\* the response before it.
THEOREM H11ServiceRefinement == Spec => ServiceSpec
<1>1. Init => Service!Init
  <2> SUFFICES ASSUME Init PROVE Service!Init
    OBVIOUS
  <2>1. \A i \in Requests : ~cycle[i].started
      BY DEF Init, NewCycle
  <2>2. cur + heads = 0 /\ cur = 0 /\ total = 0 /\ conn = "open" /\ ~feeding
      BY DEF Init
  <2>3. QED
      BY <2>1, <2>2 DEF Service!Init
<1>2. ConnInv /\ EndInv /\ [Next]_vars => [Service!Next]_Service!vars
    BY RefineStep
<1>3. QED
    BY <1>1, <1>2, InductiveInvariant, PTL DEF Spec, ServiceSpec, Service!Spec
=============================================================================
