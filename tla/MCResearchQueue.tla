-------------------------- MODULE MCResearchQueue --------------------------
(* Model values for TLC: two processes, a campaign of two trials.            *)
EXTENDS ResearchQueue
CONSTANTS w1, w2, t1, t2, c1
TwoTrials == <<t1, t2>>
=============================================================================
