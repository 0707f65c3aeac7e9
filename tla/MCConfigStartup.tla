-------------------------- MODULE MCConfigStartup ---------------------------
(* ConfigStartup with a name, what is left of a name, and the blank line.   *)
EXTENDS ConfigStartup

CONSTANTS ann, cut

MCName == {Blank, ann, cut}
=============================================================================
