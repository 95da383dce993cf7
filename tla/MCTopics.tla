------------------------------ MODULE MCTopics ------------------------------
(* Model-checking instance of Topics.                                      *)
EXTENDS Topics, TLC

CONSTANTS s1, s2, s3, t1, t2

MCSessions == {s1, s2, s3}

MCTopicNames == {t1, t2}

Symmetry == Permutations(MCSessions) \cup Permutations(MCTopicNames)
=============================================================================
