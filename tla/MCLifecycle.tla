---------------------------- MODULE MCLifecycle ----------------------------
(* Lifecycle with two interfaces, and two services on channels of one.     *)
EXTENDS Lifecycle

CONSTANTS s1, s2, i1, i2, global, local

MCService == {s1, s2}
MCInterface == {i1, i2}
MCAddr == {global, local}
MCLinkLocal == {local}
MCLink == {[up |-> TRUE, loopback |-> FALSE, addrs |-> {global, local}],
           [up |-> TRUE, loopback |-> FALSE, addrs |-> {local}],
           [up |-> TRUE, loopback |-> TRUE, addrs |-> {global}]}
=============================================================================
