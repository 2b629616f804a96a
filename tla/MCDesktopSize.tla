---------------------------- MODULE MCDesktopSize -----------------------------
(* Two widths and two heights: enough for a mixed size to differ from every  *)
(* size that was published.                                                  *)
EXTENDS DesktopSize

MCWidths  == {1, 2}
MCHeights == {3, 4}
=============================================================================
