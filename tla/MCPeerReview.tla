---------------------------- MODULE MCPeerReview ----------------------------
(* PeerReview for TLC. *)
EXTENDS PeerReview, TLC

\* Nothing compares people or requests.
Symmetry == Permutations(Person) \cup Permutations(Request)

\* Bounds the run: two requests are open at a time while the participant is reviewed, one
\* in the preparation of the cycle and once he is calibrated or has left.
OneOutsideReview ==
    (cycle = "ACTIVE" /\ status = "ACTIVE") \/ \E q \in Request : request[q] = Idle
=============================================================================
