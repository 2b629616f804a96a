----------------------------- MODULE MCViewerExit -----------------------------
(* The main loop with a repeating key and a modifier, when a signal asks for *)
(* the end.                                                                  *)
EXTENDS Viewer

CONSTANTS shift, a

MCKeys          == {shift, a}
MCRepeatingKeys == {a}
MCModifiers     == {shift}
MCSignals       == {"SIGTERM"}
=============================================================================
