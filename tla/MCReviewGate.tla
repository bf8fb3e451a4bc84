---------------------------- MODULE MCReviewGate ----------------------------
(* ReviewGate on small instances: a head with two bases, and another head.  *)
EXTENDS ReviewGate, TLC

CONSTANTS p1, p2, s1, s2, s3

\* Two bases under one head.
TwoBases == {s1, s2}
\* A third scope with another head and the first base.
ThreeScopes == {s1, s2, s3}

MCHeadOf == [s \in ThreeScopes |-> IF s = s3 THEN 2 ELSE 1]
MCBaseOf == [s \in ThreeScopes |-> IF s = s2 THEN 2 ELSE 1]

ProcSymmetry == Permutations({p1, p2})

=============================================================================
