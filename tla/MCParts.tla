------------------------------ MODULE MCParts -------------------------------
(* The constants of the hardware history; those of the recognition are     *)
(* MCVision's, and the others are given in the configuration.              *)
EXTENDS Parts, MCVision

\* Buckets of 1, 2 and 4 seconds; charts as wide as their buckets are kept, or less.
MCRetention == [r \in Resolution |-> CASE r = 1 -> 2 [] r = 2 -> 3 [] OTHER -> 6]

MCChart ==
    {[source |-> 1, display |-> 1, duration |-> 2],
     [source |-> 2, display |-> 2, duration |-> 3],
     [source |-> 2, display |-> 4, duration |-> 3],
     [source |-> 4, display |-> 4, duration |-> 5]}
=============================================================================
