----------------------------- MODULE MCManager ------------------------------
(* Three processes, two of them on one host; the durations in the order of   *)
(* the defaults (15 s, 10 s, 2 s).                                           *)
EXTENDS Manager

CONSTANTS p1, p2, p3, h1, h2

MCHost == [p \in Processes |-> IF p = p3 THEN h2 ELSE h1]
=============================================================================
