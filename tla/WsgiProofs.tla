------------------------------ MODULE WsgiProofs ------------------------------
(***************************************************************************)
(* Safety of the WSGI bridge for any number of body parts and messages.    *)
(***************************************************************************)
EXTENDS Wsgi, SequenceTheorems, TLAPS

Messages == 0 .. MaxMessages

-----------------------------------------------------------------------------
(* The queue.                                                              *)

LEMMA QueueAppend ==
    ASSUME queue \in Seq(Messages), NEW m \in Messages
    PROVE  /\ Append(queue, m) \in Seq(Messages)
           /\ Append(queue, m) # <<>>
           /\ Len(Append(queue, m)) = Len(queue) + 1
           /\ \A k \in 1 .. Len(queue) : Append(queue, m)[k] = queue[k]
           /\ Append(queue, m)[Len(queue) + 1] = m
           /\ Len(queue) \in Nat
<1>1. /\ Append(queue, m) \in Seq(Messages)
      /\ Len(Append(queue, m)) = Len(queue) + 1
      /\ \A k \in 1 .. Len(queue) : Append(queue, m)[k] = queue[k]
      /\ Append(queue, m)[Len(queue) + 1] = m
    BY AppendProperties
<1>2. Len(queue) \in Nat
    BY LenProperties
<1>3. Append(queue, m) # <<>>
    BY <1>1, <1>2, EmptySeq
<1>4. QED
    BY <1>1, <1>2, <1>3

LEMMA QueueTake ==
    ASSUME queue \in Seq(Messages), queue # <<>>
    PROVE  /\ Head(queue) = queue[1]
           /\ Head(queue) \in Messages
           /\ Tail(queue) \in Seq(Messages)
           /\ Len(queue) \in Nat \ {0}
           /\ Len(Tail(queue)) = Len(queue) - 1
           /\ \A k \in 1 .. Len(Tail(queue)) : Tail(queue)[k] = queue[k + 1]
<1>1. Head(queue) = queue[1]
    BY EmptySeq, LenProperties
<1>2. QED
    BY <1>1, HeadTailProperties, EmptySeq

-----------------------------------------------------------------------------
(* Types and wake-ups.                                                     *)

WakeInv == TypeOK /\ WaitingIsWoken

LEMMA InitWake == Init => WakeInv
<1> SUFFICES ASSUME Init PROVE WakeInv
    OBVIOUS
<1>1. queue \in Seq(Messages)
    BY EmptySeq DEF Init
<1>2. /\ responder \in {"body", "wsgi", "sender", "ended"}
      /\ thread \in {"none", "queued", "running", "waking", "finishing",
                     "done", "raised", "dropped"}
      /\ sender \in {"none", "ready", "sending", "waiting", "done", "raised",
                     "cancelled"}
    BY DEF Init
<1>3. parts \in 0 .. MaxParts /\ made \in 0 .. MaxMessages
      /\ wakes \in Nat /\ taken \in 0 .. MaxMessages
    BY BoundsAssumption DEF Init
<1>4. cancelled \in BOOLEAN /\ responseStarted \in BOOLEAN
      /\ excInfo \in BOOLEAN /\ event \in BOOLEAN
    BY DEF Init
<1>5. TypeOK
    BY <1>1, <1>2, <1>3, <1>4 DEF TypeOK, Messages
<1>6. QED
    BY <1>5 DEF Init, WakeInv, WaitingIsWoken

\* What Put does, whatever the thread does next.
LEMMA PutTyped ==
    ASSUME TypeOK, NEW next, Put(next)
    PROVE  /\ made' \in 0 .. MaxMessages
           /\ queue' \in Seq(Messages)
           /\ made + 1 \in Messages
<1>1. made + 1 \in Messages
    BY BoundsAssumption DEF TypeOK, Put, Messages
<1>2. QED
    BY <1>1, QueueAppend DEF TypeOK, Put, Messages

LEMMA EndTyped ==
    ASSUME TypeOK, Finishes
    PROVE  queue' \in Seq(Messages) /\ event' = TRUE
BY QueueAppend, BoundsAssumption DEF TypeOK, Finishes, Messages, END

LEMMA WakeStep == WakeInv /\ [Next]_vars => WakeInv'
<1> SUFFICES ASSUME WakeInv, [Next]_vars PROVE WakeInv'
    OBVIOUS
<1>t. TypeOK /\ WaitingIsWoken
    BY DEF WakeInv
<1> USE <1>t, BoundsAssumption
<1>1. CASE UNCHANGED vars
    BY <1>1 DEF WakeInv, TypeOK, WaitingIsWoken, vars, taskVars, threadVars
<1>2. CASE ReceiveMore
    BY <1>2 DEF WakeInv, TypeOK, WaitingIsWoken, ReceiveMore, threadVars
<1>3. CASE ReceiveLast
    BY <1>3 DEF WakeInv, TypeOK, WaitingIsWoken, ReceiveLast
<1>4. CASE WsgiEnds
  <2>1. queue' \in Seq(Messages) /\ event' = TRUE
      BY <1>4, EndTyped DEF WsgiEnds
  <2>2. QED
      BY <1>4, <2>1 DEF WakeInv, TypeOK, WaitingIsWoken, WsgiEnds, threadVars, Messages
<1>5. CASE ResponderEnds
    BY <1>5 DEF WakeInv, TypeOK, WaitingIsWoken, ResponderEnds, threadVars
<1>6. CASE Cancel
  <2>1. CASE responder = "wsgi"
    <3>1. Finishes /\ UNCHANGED sender /\ responder' = "sender"
          /\ thread' \in {thread, "dropped"}
        BY <1>6, <2>1 DEF Cancel
    <3>2. queue' \in Seq(Messages) /\ event' = TRUE
        BY <3>1, EndTyped
    <3>3. QED
        BY <1>6, <3>1, <3>2 DEF WakeInv, TypeOK, WaitingIsWoken, Cancel, Messages
  <2>2. CASE responder # "wsgi"
    <3>1. UNCHANGED <<thread, queue, event>> /\ responder' = "ended"
          /\ sender' \in {sender, "cancelled"}
        BY <1>6, <2>2 DEF Cancel
    <3>2. QED
        BY <1>6, <3>1 DEF WakeInv, TypeOK, WaitingIsWoken, Cancel
  <2>3. QED
      BY <2>1, <2>2
<1>7. CASE SenderTakes
  <2>1. queue' \in Seq(Messages) /\ taken' \in Messages
      BY <1>7, QueueTake DEF SenderTakes, TypeOK, Messages
  <2>2. sender' \in {"done", "sending"}
      BY <1>7 DEF SenderTakes
  <2>3. QED
      BY <1>7, <2>1, <2>2
      DEF WakeInv, TypeOK, WaitingIsWoken, SenderTakes, taskVars, threadVars, Messages
<1>8. CASE SendReturns
    BY <1>8 DEF WakeInv, TypeOK, WaitingIsWoken, SendReturns, taskVars, threadVars
<1>9. CASE SenderWaits
    BY <1>9 DEF WakeInv, TypeOK, WaitingIsWoken, SenderWaits, taskVars, threadVars
<1>10. CASE SenderWakes
    BY <1>10 DEF WakeInv, TypeOK, WaitingIsWoken, SenderWakes, taskVars, threadVars
<1>11. CASE Wake
    BY <1>11 DEF WakeInv, TypeOK, WaitingIsWoken, Wake, taskVars, threadVars
<1>12. CASE ThreadStarts
    BY <1>12 DEF WakeInv, TypeOK, WaitingIsWoken, ThreadStarts, taskVars
<1>13. ASSUME NEW exc \in BOOLEAN, StartResponse(exc) PROVE WakeInv'
  <2>1. Put("waking")
      BY <1>13 DEF StartResponse
  <2>2. made' \in 0 .. MaxMessages /\ queue' \in Seq(Messages)
      BY <2>1, PutTyped
  <2>3. QED
      BY <1>13, <2>1, <2>2
      DEF WakeInv, TypeOK, WaitingIsWoken, StartResponse, Put, taskVars, Messages
<1>14. ASSUME NEW exc \in BOOLEAN, StartResponseAgain(exc) PROVE WakeInv'
  <2>1. thread' \in {"running", "raised"} /\ thread = "running"
      BY <1>14 DEF StartResponseAgain
  <2>2. QED
      BY <1>14, <2>1 DEF WakeInv, TypeOK, WaitingIsWoken, StartResponseAgain, taskVars
<1>15. ASSUME NEW next \in {"waking", "finishing"}, Body(next) PROVE WakeInv'
  <2>1. Put(next)
      BY <1>15 DEF Body
  <2>2. made' \in 0 .. MaxMessages /\ queue' \in Seq(Messages)
      BY <2>1, PutTyped
  <2>3. QED
      BY <1>15, <2>1, <2>2
      DEF WakeInv, TypeOK, WaitingIsWoken, Body, Put, taskVars, Messages
<1>16. CASE ThreadWakes
  <2>1. wakes' = wakes + 1 /\ thread' \in {"running", "done"} /\ wakes \in Nat
      BY <1>16 DEF ThreadWakes, CallsSoon, TypeOK
  <2>2. wakes' \in Nat /\ wakes' > 0
      BY <2>1
  <2>3. QED
      BY <1>16, <2>1, <2>2 DEF WakeInv, TypeOK, WaitingIsWoken, ThreadWakes, taskVars
<1>17. CASE ThreadRaises
    BY <1>17 DEF WakeInv, TypeOK, WaitingIsWoken, ThreadRaises, taskVars
<1>18. QED
    BY <1>1, <1>2, <1>3, <1>4, <1>5, <1>6, <1>7, <1>8, <1>9, <1>10, <1>11,
       <1>12, <1>13, <1>14, <1>15, <1>16, <1>17 DEF Next, Loop, Thread

LEMMA WakeAlways == Spec => []WakeInv
BY InitWake, WakeStep, PTL DEF Spec

\* The state of a responder has the type the code gives it.
THEOREM WsgiTypeCorrect == Spec => []TypeOK
<1>1. WakeInv => TypeOK
    BY DEF WakeInv
<1>2. QED
    BY <1>1, WakeAlways, PTL

\* No wake-up is lost between the application's thread and the sender.
THEOREM WakeSafety == Spec => []WaitingIsWoken
<1>1. WakeInv => WaitingIsWoken
    BY DEF WakeInv
<1>2. QED
    BY <1>1, WakeAlways, PTL

-----------------------------------------------------------------------------
(* Everything is sent.                                                     *)

\* What is queued is what was made and not taken, in order, and then END once
\* the responder has told the sender to finish (e = 1).
Line(e) ==
    /\ taken <= made
    /\ Len(queue) = made - taken + e
    /\ \A k \in 1 .. made - taken : queue[k] = taken + k
    /\ e = 1 => queue[made - taken + 1] = END

Sending == {"ready", "sending", "waiting", "raised"}

IdleInv ==
    responder = "body" => /\ thread = "none" /\ sender = "none"
                          /\ queue = <<>> /\ made = 0 /\ taken = 0
RunInv == responder = "wsgi" => sender \in Sending /\ Line(0)
EndInv ==
    responder \in {"sender", "ended"} /\ ~cancelled =>
        /\ thread \in {"done", "raised"}
        /\ \/ sender \in Sending /\ Line(1)
           \/ sender = "done" /\ Line(0) /\ taken = made
ReturnInv ==
    responder = "ended" /\ ~cancelled => sender \in {"done", "raised"}

OrderInv == TypeOK /\ IdleInv /\ RunInv /\ EndInv /\ ReturnInv

LEMMA LinePut ==
    ASSUME TypeOK, Line(0), NEW next, Put(next)
    PROVE  Line(0)'
<1>1. /\ made \in Nat /\ taken \in Nat /\ made + 1 \in Messages
      /\ made' = made + 1 /\ taken' = taken
      /\ queue' = Append(queue, made + 1)
    BY PutTyped DEF TypeOK, Put
<1>2. /\ Len(queue') = Len(queue) + 1
      /\ \A k \in 1 .. Len(queue) : queue'[k] = queue[k]
      /\ queue'[Len(queue) + 1] = made + 1
    BY <1>1, QueueAppend DEF TypeOK, Messages
<1>3. ASSUME NEW k \in 1 .. made' - taken' PROVE queue'[k] = taken' + k
  <2>1. CASE k = made - taken + 1
      BY <2>1, <1>1, <1>2 DEF Line
  <2>2. CASE k # made - taken + 1
    <3>1. k \in 1 .. made - taken /\ k \in 1 .. Len(queue)
        BY <2>2, <1>1 DEF Line
    <3>2. QED
        BY <3>1, <1>1, <1>2 DEF Line
  <2>3. QED
      BY <2>1, <2>2
<1>4. taken' <= made' /\ Len(queue') = made' - taken' + 0
    BY <1>1, <1>2 DEF Line
<1>5. QED
    BY <1>3, <1>4 DEF Line

LEMMA LineFinishes ==
    ASSUME TypeOK, Line(0), Finishes, UNCHANGED <<made, taken>>
    PROVE  Line(1)'
<1>1. made \in Nat /\ taken \in Nat /\ END \in Messages
    BY BoundsAssumption DEF TypeOK, Messages, END
<1>2. /\ Len(queue') = Len(queue) + 1
      /\ \A k \in 1 .. Len(queue) : queue'[k] = queue[k]
      /\ queue'[Len(queue) + 1] = END
    BY <1>1, QueueAppend DEF TypeOK, Messages, Finishes
<1>3. QED
    BY <1>1, <1>2 DEF Line

LEMMA LineTake ==
    ASSUME TypeOK, NEW e \in {0, 1}, Line(e), SenderTakes
    PROVE  \/ sender' = "sending" /\ Line(e)'
           \/ e = 1 /\ sender' = "done" /\ taken' = made' /\ Line(0)'
<1>1. /\ made \in Nat /\ taken \in Nat /\ made' = made
      /\ queue' = Tail(queue) /\ Head(queue) = queue[1]
      /\ Len(queue) \in Nat \ {0}
      /\ Len(queue') = Len(queue) - 1
      /\ \A k \in 1 .. Len(queue') : queue'[k] = queue[k + 1]
    BY QueueTake DEF TypeOK, Messages, SenderTakes, threadVars
<1>2. CASE made = taken
  <2>1. e = 1 /\ Head(queue) = END
      BY <1>1, <1>2 DEF Line
  <2>2. sender' = "done" /\ taken' = taken
      BY <2>1 DEF SenderTakes
  <2>3. QED
      BY <1>1, <1>2, <2>1, <2>2 DEF Line
<1>3. CASE made # taken
  <2>1. 1 \in 1 .. made - taken /\ taken < made
      BY <1>1, <1>3 DEF Line
  <2>2. Head(queue) = taken + 1 /\ Head(queue) # END
      BY <2>1, <1>1 DEF Line, END
  <2>3. sender' = "sending" /\ taken' = taken + 1
      BY <2>2 DEF SenderTakes
  <2>4. taken' <= made' /\ Len(queue') = made' - taken' + e
      BY <1>1, <2>1, <2>3 DEF Line
  <2>5. ASSUME NEW k \in 1 .. made' - taken' PROVE queue'[k] = taken' + k
    <3>1. k \in 1 .. Len(queue') /\ k + 1 \in 1 .. made - taken
        BY <1>1, <2>1, <2>3, <2>4 DEF Line
    <3>2. queue'[k] = queue[k + 1] /\ queue[k + 1] = taken + (k + 1)
        BY <3>1, <1>1 DEF Line
    <3>3. QED
        BY <3>2, <2>3, <1>1
  <2>6. e = 1 => queue'[made' - taken' + 1] = END
    <3>1. SUFFICES ASSUME e = 1 PROVE queue'[made' - taken' + 1] = END
        OBVIOUS
    <3>2. made' - taken' + 1 = made - taken /\ made - taken \in 1 .. Len(queue')
        BY <3>1, <1>1, <2>1, <2>3, <2>4 DEF Line
    <3>3. queue'[made - taken] = queue[made - taken + 1]
        BY <3>2, <1>1
    <3>4. QED
        BY <3>1, <3>2, <3>3 DEF Line
  <2>7. QED
      BY <2>3, <2>4, <2>5, <2>6 DEF Line
<1>4. QED
    BY <1>2, <1>3

\* A step that leaves the queue and its two ends alone.
LEMMA LineFrame ==
    ASSUME UNCHANGED <<queue, made, taken>>, NEW e
    PROVE  Line(e)' = Line(e)
BY DEF Line

LEMMA InitOrder == Init => OrderInv
<1>1. Init => TypeOK
    BY InitWake DEF WakeInv
<1>2. Init => IdleInv /\ RunInv /\ EndInv /\ ReturnInv
    BY DEF Init, IdleInv, RunInv, EndInv, ReturnInv
<1>3. QED
    BY <1>1, <1>2 DEF OrderInv

\* The conjuncts beside the types, for a step that leaves Line alone.
Rest == IdleInv /\ RunInv /\ EndInv /\ ReturnInv

LEMMA RestStep == OrderInv /\ [Next]_vars => Rest'
<1> SUFFICES ASSUME OrderInv, [Next]_vars PROVE Rest'
    OBVIOUS
<1>t. TypeOK /\ IdleInv /\ RunInv /\ EndInv /\ ReturnInv
    BY DEF OrderInv
<1>b. responder \in {"body", "wsgi", "sender", "ended"} /\ cancelled \in BOOLEAN
    BY <1>t DEF TypeOK
<1> DEFINE Same == UNCHANGED <<queue, made, taken>>
<1>f. Same => (Line(0)' = Line(0)) /\ (Line(1)' = Line(1))
    BY LineFrame
<1> HIDE DEF Same
<1>1. CASE UNCHANGED vars
  <2>1. Same
      BY <1>1 DEF Same, vars, threadVars
  <2>2. QED
      BY <1>1, <2>1, <1>f, <1>t
      DEF vars, taskVars, threadVars, Rest, IdleInv, RunInv, EndInv, ReturnInv
<1>2. CASE ReceiveMore
  <2>1. responder' = "body"
      BY <1>2 DEF ReceiveMore
  <2>2. QED
      BY <1>2, <2>1, <1>t
      DEF ReceiveMore, threadVars, Rest, IdleInv, RunInv, EndInv, ReturnInv
<1>3. CASE ReceiveLast
  <2>1. made = 0 /\ taken = 0 /\ queue = <<>> /\ Same
      BY <1>3, <1>t DEF ReceiveLast, IdleInv, Same
  <2>2. Line(0)'
      BY <2>1, <1>f, EmptySeq DEF Line
  <2>3. responder' = "wsgi" /\ sender' = "ready"
      BY <1>3 DEF ReceiveLast
  <2>4. QED
      BY <2>2, <2>3 DEF Rest, IdleInv, RunInv, EndInv, ReturnInv, Sending
<1>4. CASE WsgiEnds
  <2>1. Line(0) /\ sender \in Sending
      BY <1>4, <1>t DEF WsgiEnds, RunInv
  <2>2. Line(1)'
      BY <1>4, <2>1, <1>t, LineFinishes DEF WsgiEnds, threadVars
  <2>3. responder' = "sender" /\ thread' \in {"done", "raised"} /\ sender' = sender
      BY <1>4 DEF WsgiEnds, threadVars
  <2>4. QED
      BY <2>1, <2>2, <2>3 DEF Rest, IdleInv, RunInv, EndInv, ReturnInv
<1>5. CASE ResponderEnds
  <2>1. Same /\ responder' = "ended" /\ sender \in {"done", "raised"}
        /\ UNCHANGED <<cancelled, thread, sender>>
      BY <1>5 DEF ResponderEnds, SenderGone, Same, threadVars
  <2>2. responder = "sender"
      BY <1>5 DEF ResponderEnds
  <2>3. EndInv'
      BY <2>1, <2>2, <1>f, <1>t DEF EndInv, Same
  <2>4. IdleInv' /\ RunInv' /\ ReturnInv'
      BY <2>1 DEF IdleInv, RunInv, ReturnInv
  <2>5. QED
      BY <2>3, <2>4 DEF Rest
<1>6. CASE Cancel
  <2>1. cancelled' = TRUE /\ responder' \in {"sender", "ended"}
      BY <1>6, <1>b DEF Cancel
  <2>2. QED
      BY <2>1 DEF Rest, IdleInv, RunInv, EndInv, ReturnInv
<1>7. CASE SenderTakes
  <2>1. UNCHANGED <<responder, cancelled, thread, made>> /\ sender = "ready"
      BY <1>7 DEF SenderTakes, taskVars, threadVars
  <2>2. CASE responder = "wsgi"
    <3>1. Line(0)
        BY <2>2, <1>t DEF RunInv
    <3>2. sender' = "sending" /\ Line(0)'
        BY <3>1, <1>7, <1>t, LineTake
    <3>3. QED
        BY <2>1, <2>2, <3>2 DEF Rest, IdleInv, RunInv, EndInv, ReturnInv, Sending
  <2>3. CASE responder \in {"sender", "ended"} /\ ~cancelled
    <3>1. Line(1) /\ thread \in {"done", "raised"} /\ responder # "ended"
        BY <2>1, <2>3, <1>t DEF EndInv, ReturnInv
    <3>2. \/ sender' = "sending" /\ Line(1)'
          \/ sender' = "done" /\ taken' = made' /\ Line(0)'
        BY <3>1, <1>7, <1>t, LineTake
    <3>3. QED
        BY <2>1, <2>3, <3>1, <3>2
        DEF Rest, IdleInv, RunInv, EndInv, ReturnInv, Sending
  <2>4. CASE responder = "body"
      BY <2>4, <2>1, <1>t DEF IdleInv
  <2>5. CASE responder \in {"sender", "ended"} /\ cancelled
      BY <2>5, <2>1 DEF Rest, IdleInv, RunInv, EndInv, ReturnInv
  <2>6. QED
      BY <2>2, <2>3, <2>4, <2>5, <1>b
<1>8. CASE SendReturns \/ SenderWaits \/ SenderWakes
  <2>1. /\ Same /\ UNCHANGED <<responder, cancelled, thread>>
        /\ sender \in {"sending", "ready", "waiting"}
        /\ sender' \in Sending
      BY <1>8
      DEF SendReturns, SenderWaits, SenderWakes, Same, taskVars, threadVars, Sending
  <2>2. responder # "body"
      BY <2>1, <1>t DEF IdleInv
  <2>3. responder = "ended" => cancelled
      BY <2>1, <1>t DEF ReturnInv
  <2>4. QED
      BY <2>1, <2>2, <2>3, <1>f, <1>t, <1>b
      DEF Rest, IdleInv, RunInv, EndInv, ReturnInv
<1>9. CASE Wake
  <2>1. Same /\ UNCHANGED <<responder, cancelled, thread, sender>>
      BY <1>9 DEF Wake, Same, taskVars, threadVars
  <2>2. QED
      BY <1>9, <2>1, <1>f, <1>t DEF Wake, threadVars, Rest, IdleInv, RunInv, EndInv, ReturnInv, Same
<1>10. ASSUME \/ ThreadStarts \/ ThreadWakes \/ ThreadRaises
              \/ \E exc \in BOOLEAN : StartResponseAgain(exc)
       PROVE  Rest'
  <2>1. /\ Same /\ UNCHANGED <<responder, cancelled, sender>>
        /\ thread \in {"queued", "waking", "finishing", "running"}
      BY <1>10
      DEF ThreadStarts, ThreadWakes, ThreadRaises, StartResponseAgain, Same, taskVars
  <2>2. responder # "body" /\ (responder \in {"sender", "ended"} => cancelled)
      BY <2>1, <1>t DEF IdleInv, EndInv
  <2>3. QED
      BY <2>1, <2>2, <1>f, <1>t DEF Rest, IdleInv, RunInv, EndInv, ReturnInv
<1>11. ASSUME \/ \E exc \in BOOLEAN : StartResponse(exc)
              \/ \E next \in {"waking", "finishing"} : Body(next)
       PROVE  Rest'
  <2>1. PICK next \in {"waking", "finishing"} : Put(next)
      BY <1>11 DEF StartResponse, Body
  <2>2. /\ UNCHANGED <<responder, cancelled, sender>> /\ thread = "running"
      BY <2>1 DEF Put, taskVars
  <2>3. responder # "body" /\ (responder \in {"sender", "ended"} => cancelled)
      BY <2>2, <1>t DEF IdleInv, EndInv
  <2>4. responder = "wsgi" => Line(0)'
      BY <2>1, <1>t, LinePut DEF RunInv
  <2>5. QED
      BY <2>2, <2>3, <2>4, <1>t DEF Rest, IdleInv, RunInv, EndInv, ReturnInv
<1>12. QED
    BY <1>1, <1>2, <1>3, <1>4, <1>5, <1>6, <1>7, <1>8, <1>9, <1>10, <1>11
    DEF Next, Loop, Thread

LEMMA OrderAlways == Spec => [](WakeInv /\ OrderInv)
<1>1. WakeInv /\ OrderInv /\ [Next]_vars => (WakeInv /\ OrderInv)'
  <2>1. WakeInv /\ [Next]_vars => WakeInv' /\ TypeOK'
      BY WakeStep DEF WakeInv
  <2>2. OrderInv /\ [Next]_vars => Rest'
      BY RestStep
  <2>3. QED
      BY <2>1, <2>2 DEF OrderInv, Rest
<1>2. QED
    BY <1>1, InitWake, InitOrder, PTL DEF Spec

\* A responder that was not cancelled has sent everything its application made,
\* in the order it was made, when it ends.
THEOREM SentSafety == Spec => []AllSent
<1>1. OrderInv => AllSent
  <2>1. SUFFICES ASSUME OrderInv, responder = "ended", ~cancelled, sender # "raised"
                 PROVE  sender = "done" /\ taken = made /\ queue = <<>>
      BY DEF AllSent
  <2>2. sender = "done" /\ Line(0) /\ taken = made
      BY <2>1 DEF OrderInv, EndInv, ReturnInv, Sending
  <2>3. made \in Nat /\ Len(queue) = 0 /\ queue \in Seq(Messages)
      BY <2>1, <2>2 DEF OrderInv, TypeOK, Line, Messages
  <2>4. QED
      BY <2>2, <2>3, EmptySeq
<1>2. QED
    BY <1>1, OrderAlways, PTL
=============================================================================
