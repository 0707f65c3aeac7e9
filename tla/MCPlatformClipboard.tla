------------------------ MODULE MCPlatformClipboard ------------------------
(* PlatformClipboard with a text, an image with a file, and an unreadable file. *)
EXTENDS PlatformClipboard

CONSTANTS a, b, c1

MCBytes == {Empty, a, b}
MCClip == {[text |-> a, image |-> Empty, file |-> NoFile],
           [text |-> Empty, image |-> b, file |-> a],
           [text |-> Empty, image |-> Empty, file |-> Unreadable]}
MCCaller == {c1}
=============================================================================
