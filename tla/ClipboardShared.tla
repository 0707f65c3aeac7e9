-------------------------- MODULE ClipboardShared ---------------------------
(***************************************************************************)
(* What the clipboard manager and the clipboard server have in common: the *)
(* goroutine of each connection of the server is a caller of SetText of    *)
(* the manager, and one context, monitorCtx of main, stops both.           *)
(***************************************************************************)
EXTENDS Naturals, Sequences

CONSTANTS
  Text,  \* what the clipboard can hold
  Conn   \* connections peers may open

VARIABLE ctxDone  \* monitorCtx is cancelled
=============================================================================
