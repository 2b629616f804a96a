------------------------------ MODULE MCRawRect -------------------------------
(* Words of 5 and 80 values, pixels of two bytes, rows with and without      *)
(* padding and buffers with and without bytes to spare.                      *)
EXTENDS RawRect

MCFramebuffers ==
  {fb \in [width : {2}, height : {2, 3}, pitch : {4, 6}, size : {8, 12, 18, 20}] :
     /\ fb.size - fb.pitch * fb.height \in {0, 2, 4}}

MCServerPixelBytes == {0, 1, 2, 4}
=============================================================================
