-------------------------- MODULE PipelinedService --------------------------
(***************************************************************************)
(* What an HTTP connection promises, whichever parser reads it: requests   *)
(* are taken in while the connection is open, handed to the application    *)
(* one at a time in the order received, and answered in that order.  An    *)
(* open connection whose application is idle never keeps a request         *)
(* waiting, and nothing new is handed out once the connection is closing.  *)
(***************************************************************************)
EXTENDS Naturals

VARIABLES received,   \* requests whose head has been parsed
          served,     \* requests handed to the application
          answered,   \* responses completed
          begun,      \* the response of the request in service has started
          open        \* the server still means to use the connection

vars == <<received, served, answered, begun, open>>

Init ==
    /\ received = 0
    /\ served = 0
    /\ answered = 0
    /\ begun = FALSE
    /\ open = TRUE

Idle == served = answered

\* A request that finds the application idle is served, any other queues.
Receive ==
    /\ open
    /\ received' = received + 1
    /\ served' = IF Idle THEN served + 1 ELSE served
    /\ UNCHANGED <<answered, begun, open>>

Begin ==
    /\ ~Idle
    /\ ~begun
    /\ begun' = TRUE
    /\ UNCHANGED <<received, served, answered, open>>

\* The end of a response may close the connection; if it does not, the
\* request that has waited longest is served in the same step.
Finish ==
    /\ begun
    /\ begun' = FALSE
    /\ answered' = answered + 1
    /\ open' \in {open, FALSE}
    /\ served' = IF open' /\ served < received THEN served + 1 ELSE served
    /\ UNCHANGED received

Close ==
    /\ open
    /\ open' = FALSE
    /\ UNCHANGED <<received, served, answered, begun>>

Next == Receive \/ Begin \/ Finish \/ Close

Spec == Init /\ [][Next]_vars
=============================================================================
