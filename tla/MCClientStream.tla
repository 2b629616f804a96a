---------------------------- MODULE MCClientStream -----------------------------
(* Messages of two and three units in a stream of three.                      *)
EXTENDS ClientStream

MCLength == [m \in Messages |-> IF m \in {"key", "fence"} THEN 3 ELSE 2]
=============================================================================
