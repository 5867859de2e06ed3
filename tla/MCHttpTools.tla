---------------------------- MODULE MCHttpTools ----------------------------
(* Bounds of the model-checking runs of HttpTools.                         *)
EXTENDS HttpTools

\* Requests without a body and without "Expect", and a client that reads as
\* fast as the server writes.
PipelineOnly ==
    /\ \A i \in Requests : body[i] = 0 /\ ~waiting100[i]
    /\ ~writePaused

\* It takes three requests to see the order of the queue, and two for all the
\* rest: the third comes only where the pipeline is the subject, with no
\* receive() in progress.
ThirdPipelined ==
    cur = 3 => PipelineOnly /\ ~upgraded /\ \A i \in Requests : recv[i] = "idle"
=============================================================================
