---------------------------- MODULE PeerManager -----------------------------
(***************************************************************************)
(* The peer manager of internal/network/mdns/peer_manager.go: a goroutine  *)
(* that records the services mDNS finds, another that marks peers inactive *)
(* when they have not been seen for a while, and SendToPeers, which dials  *)
(* every active peer in a goroutine of its own.  pm.mu makes each step on  *)
(* knownPeers atomic.                                                      *)
(*                                                                         *)
(* Time is counted in sync intervals, and only relative to the present:    *)
(* LastSeen is kept as the age of the sighting, and ages beyond those the  *)
(* code can tell apart are all Ancient.  mDNS, the network and the network *)
(* interfaces are external.  SeenStaysDead, SendsToAll and AnyAddress are   *)
(* variants with a bug a change could bring in.                            *)
(***************************************************************************)
EXTENDS Naturals

CONSTANTS
  Service,    \* services on the network, instance@host
  OwnService, \* the one this node announces
  HostOf,     \* HostOf[s]: the host name mDNS reports for service s
  LocalHost,  \* localHostName: the name of the machine, ending in ".local"
  Addr4,      \* IPv4 addresses
  Addr6,      \* IPv6 addresses
  Own6,       \* the IPv6 addresses this node announces
  Unusable,   \* the unspecified address and the loopback addresses
  Item        \* clipboard items

ASSUME OwnAssumption == Own6 \subseteq Addr6

VARIABLES
  knownPeers,        \* the peers known, by service
  localAddrs,        \* external: the IPv4 addresses getLocalAddresses would find
  registered,        \* external: those RegisterService announced at the start
  discoveryRunning,  \* PeerManager.discoveryRunning
  discovery,         \* program point of the discovery goroutine
  expiry,            \* program point of the expiry goroutine
  untilTick,         \* sync intervals until its ticker fires
  ctxDone,           \* the monitor context is cancelled
  consumed,          \* items SendToPeers was called with; each is sent once
  dials              \* goroutines of SendToPeers that are dialing

taskVars == <<discoveryRunning, discovery, expiry, untilTick, ctxDone>>
sendVars == <<consumed, dials>>
netVars == <<localAddrs, registered>>
vars == <<knownPeers, netVars, taskVars, sendVars>>

Addr == Addr4 \cup Addr6

\* Every age above 8 intervals: no condition of the code or of a property below
\* tells them apart.
Ancient == 9
Older(age) == IF age < Ancient THEN age + 1 ELSE Ancient

Peer == [v4 : SUBSET Addr4, v6 : SUBSET Addr6, age : 0 .. Ancient, active : BOOLEAN]
Dial == [service : Service, addr : Addr, item : Item]

TypeOK ==
  /\ DOMAIN knownPeers \subseteq Service
  /\ knownPeers \in [DOMAIN knownPeers -> Peer]
  /\ localAddrs \subseteq Addr4 /\ registered \subseteq Addr4
  /\ discoveryRunning \in BOOLEAN /\ ctxDone \in BOOLEAN
  /\ discovery \in {"off", "starting", "browsing", "ended", "failed"}
  /\ expiry \in {"off", "running", "ended"}
  /\ untilTick \in 0 .. 2
  /\ consumed \subseteq Item
  /\ dials \subseteq Dial
  /\ \A d \in dials : d.addr \notin Unusable

Init ==
  /\ knownPeers = [s \in {} |-> s]
  /\ localAddrs \in SUBSET Addr4 /\ registered = localAddrs
  /\ discoveryRunning = FALSE
  /\ discovery = "off"
  /\ expiry = "off"
  /\ untilTick = 0
  /\ ctxDone = FALSE
  /\ consumed = {} /\ dials = {}

-----------------------------------------------------------------------------
(* The environment.                                                        *)

TickDue == expiry = "running" /\ untilTick = 0

\* A sync interval (2 s) goes by.  The expiry goroutine, which only waits for a
\* mutex held for microseconds, has its tick before time goes on.
Advance ==
  /\ ~TickDue
  /\ knownPeers' = [s \in DOMAIN knownPeers |->
       [knownPeers[s] EXCEPT !.age = Older(knownPeers[s].age)]]
  /\ untilTick' = IF expiry = "running" THEN untilTick - 1 ELSE untilTick
  /\ UNCHANGED <<netVars, discoveryRunning, discovery, expiry, ctxDone, sendVars>>

\* The machine changes networks.
InterfacesChange(addrs) ==
  /\ localAddrs' = addrs
  /\ UNCHANGED <<knownPeers, registered, taskVars, sendVars>>

\* What mDNS can report of service s: of this node, some of the addresses it
\* announced.  The library does not wait for the records of both families.
Announced(s, v4, v6) ==
  s = OwnService => v4 \subseteq registered /\ v6 \subseteq Own6 /\ v4 \cup v6 # {}

-----------------------------------------------------------------------------
(* main: StartDiscovery, cancelMonitor, Stop.                              *)

\* main calls it once; a second call would return at once.
StartDiscovery ==
  /\ discovery = "off"
  /\ ~discoveryRunning
  /\ discoveryRunning' = TRUE
  /\ discovery' = "starting"
  /\ expiry' = "running"
  /\ untilTick' = 2
  /\ UNCHANGED <<knownPeers, netVars, ctxDone, sendVars>>

Cancel ==
  /\ discovery # "off"
  /\ ctxDone' = TRUE
  /\ UNCHANGED <<knownPeers, netVars, discoveryRunning, discovery, expiry, untilTick, sendVars>>

\* Stop only clears the flag; the goroutines end because the context is done.
Stop ==
  /\ ctxDone
  /\ discoveryRunning' = FALSE
  /\ UNCHANGED <<knownPeers, netVars, discovery, expiry, untilTick, ctxDone, sendVars>>

-----------------------------------------------------------------------------
(* The discovery goroutine.                                                *)

\* NewBrowser fails: the goroutine ends, discoveryRunning stays set.
CreateBrowser ==
  /\ discovery = "starting"
  /\ discovery' \in {"browsing", "failed"}
  /\ UNCHANGED <<knownPeers, netVars, discoveryRunning, expiry, untilTick, ctxDone, sendVars>>

\* The interfaces are asked for their addresses at every entry; only the IPv4
\* addresses of the entry are compared with them.
isLocalPeer(s, v4) == HostOf[s] = LocalHost \/ v4 \cap localAddrs # {}

SeenStaysDead(s) == s \in DOMAIN knownPeers => knownPeers[s].active
SeenIsActive(s) == TRUE

handleRemotePeer(s, v4, v6) ==
  knownPeers' = [p \in DOMAIN knownPeers \cup {s} |->
    IF p = s THEN [v4 |-> v4, v6 |-> v6, age |-> 0, active |-> SeenIsActive(s)]
    ELSE knownPeers[p]]

\* An entry arrives on the channel of the browser.  The select may take it
\* though the context is done.
HandleEntry(s, v4, v6) ==
  /\ discovery = "browsing"
  /\ Announced(s, v4, v6)
  /\ ~isLocalPeer(s, v4)
  /\ handleRemotePeer(s, v4, v6)
  /\ UNCHANGED <<netVars, taskVars, sendVars>>

\* The context is done, or the channel is closed because browsing failed.
DiscoveryEnds ==
  /\ discovery = "browsing"
  /\ discovery' = "ended"
  /\ UNCHANGED <<knownPeers, netVars, discoveryRunning, expiry, untilTick, ctxDone, sendVars>>

-----------------------------------------------------------------------------
(* The expiry goroutine, every second sync interval.                       *)

Overdue(p) == p.age > 6

Expire ==
  /\ TickDue
  /\ knownPeers' = [s \in DOMAIN knownPeers |->
       IF Overdue(knownPeers[s]) THEN [knownPeers[s] EXCEPT !.active = FALSE] ELSE knownPeers[s]]
  /\ untilTick' = 2
  /\ UNCHANGED <<netVars, discoveryRunning, discovery, expiry, ctxDone, sendVars>>

ExpiryEnds ==
  /\ expiry = "running"
  /\ ctxDone
  /\ expiry' = "ended"
  /\ UNCHANGED <<knownPeers, netVars, discoveryRunning, discovery, untilTick, ctxDone, sendVars>>

-----------------------------------------------------------------------------
(* SendToPeers, called by the goroutine that reads the clipboard channel.  *)

SendsToAll(s) == TRUE
Receives(s) == knownPeers[s].active

AnyAddress(s) == IF knownPeers[s].v4 # {} THEN knownPeers[s].v4 ELSE knownPeers[s].v6

\* An IPv4 address that can be dialed if the peer has one, else an IPv6 address.
Candidates(s) ==
  LET usable4 == knownPeers[s].v4 \ Unusable
  IN  IF usable4 # {} THEN usable4 ELSE knownPeers[s].v6 \ Unusable

Targets == {s \in DOMAIN knownPeers : Receives(s) /\ Candidates(s) # {}}

SendToPeers(i) ==
  /\ discovery # "off"
  /\ i \notin consumed
  /\ consumed' = consumed \cup {i}
  /\ \E addr \in [Targets -> Addr] :
       /\ \A s \in Targets : addr[s] \in Candidates(s)
       /\ dials' = dials \cup {[service |-> s, addr |-> addr[s], item |-> i] : s \in Targets}
  /\ UNCHANGED <<knownPeers, netVars, taskVars>>

\* Connected, refused, or no answer within 5 s.  A connection is closed without
\* a write, the serialisation is a placeholder; nobody tries again.
DialEnds(d) ==
  /\ dials' = dials \ {d}
  /\ UNCHANGED <<knownPeers, netVars, taskVars, consumed>>

-----------------------------------------------------------------------------
Discovery ==
  \/ CreateBrowser
  \/ \E s \in Service, v4 \in SUBSET Addr4, v6 \in SUBSET Addr6 : HandleEntry(s, v4, v6)
  \/ DiscoveryEnds

Next ==
  \/ Advance
  \/ \E addrs \in SUBSET Addr4 : InterfacesChange(addrs)
  \/ StartDiscovery \/ Cancel \/ Stop
  \/ Discovery
  \/ Expire \/ ExpiryEnds
  \/ \E i \in Item : SendToPeers(i)
  \/ \E d \in dials : DialEnds(d)

Spec == Init /\ [][Next]_vars

-----------------------------------------------------------------------------
(* Properties.                                                             *)

\* "使用多个条件来判断是否为本地节点": the name and the addresses of an entry tell the
\* node's own service from those of remote nodes, so that it is skipped and the
\* node never becomes a peer of itself.
SkipsItself == OwnService \notin DOMAIN knownPeers

\* While the expiry goroutine runs, activity follows the time a peer was last
\* seen: within 6 intervals it is active, after 8 it is not.  Between the two it
\* depends on where the ticks fall.
ActivityFollowsAge ==
  expiry = "running" =>
    \A s \in DOMAIN knownPeers :
      /\ knownPeers[s].age <= 6 => knownPeers[s].active
      /\ knownPeers[s].age > 8 => ~knownPeers[s].active

\* SendToPeers starts dials only to peers seen within the last 8 intervals, one
\* address each, though it reads the peers at any moment between two ticks.
FreshTargets ==
  [][expiry = "running" =>
       \A d \in dials' \ dials :
         /\ knownPeers[d.service].age <= 8
         /\ \A e \in dials' \ dials : e.service = d.service => e = d]_vars
=============================================================================
