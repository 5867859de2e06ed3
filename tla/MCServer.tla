------------------------------ MODULE MCServer ------------------------------
(* Bounds of the model-checking runs of Server.                            *)
EXTENDS Server, TLC

\* Connection slots are interchangeable.
Symmetry == Permutations(Conns)

\* No connection is still between accept and connection_made when shutdown()
\* closes the listeners (the run server_late_connection has them).
NoneLate == listening \/ \A c \in Conns : conn[c] # "accepted"
=============================================================================
