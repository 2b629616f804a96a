----------------------------- MODULE MCViewerKeys -----------------------------
(* The main loop with a keyboard only: two repeating keys.                   *)
EXTENDS Viewer

CONSTANTS a, b

MCKeys == {a, b}
=============================================================================
