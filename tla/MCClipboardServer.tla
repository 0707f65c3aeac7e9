-------------------------- MODULE MCClipboardServer -------------------------
(* ClipboardServer with two connections, two types, one text and two hosts. *)
EXTENDS ClipboardServer

CONSTANTS k1, k2, t1, here, there

MCConn == {k1, k2}
MCItemType == {"text", "image"}
MCText == {t1}
MCHost == {here, there}
=============================================================================
