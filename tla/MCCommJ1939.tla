----------------------------- MODULE MCCommJ1939 -----------------------------
(* Bounded instances of CommJ1939 for TLC. *)
EXTENDS CommJ1939

\* Frames of two nodes, the first of them for the pages.
TwoNodes == [n \in 1 .. MaxArrived |-> n % 2]
TwoForCtrl == [ctrl |-> 2, zlg |-> 3, udp |-> 2, socket |-> 1]
Mixed == [n \in 1 .. MaxArrived |-> IF n = 2 THEN "registers" ELSE "other"]
=============================================================================
