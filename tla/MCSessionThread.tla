---------------------------- MODULE MCSessionThread ---------------------------
(* One message of each kind the thread tells apart.                          *)
EXTENDS SessionThread

MCScreenSizes == {"small", "large"}

Raw(rows)          == [encoding |-> "raw", rows |-> rows, fits |-> TRUE]
Resize(size, n, d) == [encoding |-> "size", screens |-> n, size |-> size, denied |-> d]
Fence(id, asks)    == [type |-> "fence", id |-> id, request |-> asks, payload |-> asks]
Update(seq)        == [type |-> "update", rects |-> seq]

Eocu       == [type |-> "eocu"]
Bell       == [type |-> "bell"]
CutText    == [type |-> "cut text"]
DrawResize == Update(<<Raw(2), Resize("large", 1, FALSE)>>)

MCMessages ==
  {Fence(1, TRUE), Fence(2, TRUE), Fence(3, FALSE), Eocu, Bell, CutText,
   DrawResize,
   Update(<<Resize("small", 0, FALSE)>>),
   Update(<<Resize("large", 1, TRUE), Raw(1)>>),
   Update(<<Resize("small", 2, FALSE)>>),
   Update(<<[encoding |-> "raw", rows |-> 1, fits |-> FALSE]>>),
   Update(<<[encoding |-> "other"]>>),
   Update(<<>>)}

MCSlowMessages == {Fence(1, TRUE), Eocu, CutText, DrawResize}

MCBothEnds == {"eof", "reset"}
=============================================================================
