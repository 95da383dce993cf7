------------------------------ MODULE MCComet ------------------------------
(* Model-checking instances of Comet.                                      *)
EXTENDS Comet

CONSTANTS s1, r1, r2, r3, r4, r5

OneSession == {s1}

FourRequests == {r1, r2, r3, r4}

FiveRequests == {r1, r2, r3, r4, r5}

NoLimit == {-1}

SmallLimits == {-1, 1}
=============================================================================
