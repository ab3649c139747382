------------------------------ MODULE MirrorMC ------------------------------
(* Values for the instance of Mirror that TLC checks. *)
EXTENDS Mirror

CONSTANTS a, b, x, y, z

Ranks == [d \in Device |-> IF d = a THEN 1 ELSE 2]
Seeds == [d \in Device |-> IF d = a THEN x ELSE NoText]

=============================================================================
