----------------------------- MODULE AsgiWebSocket -----------------------------
(***************************************************************************)
(* What a WebSocket connection promises to its client and its application, *)
(* whichever library speaks the protocol.  The client's handshake is       *)
(* answered once, accepted or not.  The application is given one           *)
(* websocket.connect, then messages if the handshake was accepted, then    *)
(* only websocket.disconnect, and that never while the connection is still *)
(* in use.                                                                 *)
(***************************************************************************)
VARIABLES answer,  \* to the handshake: "none", "accepted", "refused"
          given,   \* last event of the application: "none", "connect",
                   \* "receive", "disconnect"
          open     \* the server still means to use the connection

vars == <<answer, given, open>>

Init ==
    /\ answer = "none"
    /\ given = "none"
    /\ open = TRUE

\* An answer may close the connection; so may the server at any time.
Answer ==
    /\ answer = "none"
    /\ answer' \in {"accepted", "refused"}
    /\ open' \in {open, FALSE}
    /\ UNCHANGED given

GiveConnect ==
    /\ given = "none"
    /\ given' = "connect"
    /\ UNCHANGED <<answer, open>>

\* Messages that came before the close are still given after it.
GiveMessage ==
    /\ answer = "accepted"
    /\ given \in {"connect", "receive"}
    /\ given' = "receive"
    /\ UNCHANGED <<answer, open>>

GiveDisconnect ==
    /\ ~open
    /\ given # "none"
    /\ given' = "disconnect"
    /\ UNCHANGED <<answer, open>>

Close ==
    /\ open
    /\ open' = FALSE
    /\ UNCHANGED <<answer, given>>

Next == Answer \/ GiveConnect \/ GiveMessage \/ GiveDisconnect \/ Close

Spec == Init /\ [][Next]_vars
=============================================================================
