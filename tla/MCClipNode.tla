----------------------------- MODULE MCClipNode -----------------------------
(* ClipNode with one text and the empty one, and one connection or two.     *)
EXTENDS ClipNode, TLC

CONSTANTS t1, k1, k2, here, there

MCText == {Empty, t1}
MCConn == {k1, k2}
MCOneConn == {k1}
MCItemType == {"text"}
MCHost == {here, there}
MCSymmetry == Permutations(MCConn)
=============================================================================
