---------------------------- MODULE MCViewerPointer ---------------------------
(* The main loop with a pointer only, on a desktop the server resizes.       *)
EXTENDS Viewer

MCDeltas       == {-1, 1}
MCButtons      == {"BTN_LEFT", "BTN_SIDE"}
MCWheelValues  == {-120, 60, 240}
MCDesktopSizes == {1, 2}
=============================================================================
