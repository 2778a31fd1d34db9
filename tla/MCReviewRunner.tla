--------------------------- MODULE MCReviewRunner ---------------------------
(* Small instances of ReviewRunner: one or two reviews, up to three runner  *)
(* threads of two processes.                                               *)
EXTENDS ReviewRunner, TLC

CONSTANTS q1, q2, w1, w2, w3, p1, p2

\* Two runner processes, each with a RUNNER_ID of its own.
DistinctIDs == [w \in Workers |-> IF w = w1 THEN p1 ELSE p2]

\* The poll loop and the queue consumer of one process, and one thread of a
\* second process.
MixedIDs == [w \in Workers |-> IF w = w3 THEN p2 ELSE p1]

\* Sound with MixedIDs: the threads of one process are interchangeable.
ThreadSymmetry == Permutations({w1, w2})
=============================================================================
