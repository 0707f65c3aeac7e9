--------------------------- MODULE MCPeerManager ----------------------------
(* PeerManager with a remote service next to the node's own.              *)
EXTENDS PeerManager

CONSTANTS far, own, here, hereDot, thereDot, a4, a6, lo6, i1

MCBoth == {far, own}
\* mDNS reports fully qualified names, with a dot at the end.
MCHostOf == [s \in MCBoth |-> IF s = own THEN hereDot ELSE thereDot]
MCAddr4 == {a4}
MCAddr6 == {a6, lo6}
MCOwn6 == {a6}
MCUnusable == {lo6}
MCItem == {i1}
=============================================================================
