-------------------------- MODULE PeerManagerProofs -------------------------
(***************************************************************************)
(* What PeerManager promises for every set of services, addresses and      *)
(* items.                                                                  *)
(***************************************************************************)
EXTENDS PeerManager, TLAPS

(* Nothing is known before the goroutines start, and they start together.  *)
TaskInv == discovery = "off" => expiry = "off" /\ DOMAIN knownPeers = {}

(* An active peer will not be older than 8 intervals at the next tick, and *)
(* a peer is inactive only when more than 6 have passed.                   *)
AgeInv ==
  expiry = "running" =>
    \A s \in DOMAIN knownPeers :
      /\ knownPeers[s].active => knownPeers[s].age + untilTick <= 8
      /\ knownPeers[s].age <= 6 => knownPeers[s].active

IInv == TypeOK /\ TaskInv /\ AgeInv

-----------------------------------------------------------------------------
LEMMA InitTypeOK == Init => TypeOK
<1> SUFFICES ASSUME Init PROVE TypeOK
  OBVIOUS
<1>1. DOMAIN knownPeers = {} /\ knownPeers \in [DOMAIN knownPeers -> Peer]
  BY DEF Init
<1>2. /\ localAddrs \subseteq Addr4 /\ registered \subseteq Addr4
      /\ untilTick \in 0 .. 2
  BY DEF Init
<1>3. /\ consumed \subseteq Item /\ dials \subseteq Dial
      /\ \A d \in dials : d.addr \notin Unusable
  BY DEF Init
<1> QED
  BY <1>1, <1>2, <1>3 DEF Init, TypeOK

(* What an interval that goes by leaves in knownPeers. *)
LEMMA AdvanceTypes ==
  ASSUME TypeOK, Advance
  PROVE  /\ DOMAIN knownPeers' = DOMAIN knownPeers
         /\ knownPeers' \in [DOMAIN knownPeers' -> Peer]
         /\ \A s \in DOMAIN knownPeers :
              /\ knownPeers'[s].active = knownPeers[s].active
              /\ knownPeers'[s].age = Older(knownPeers[s].age)
<1>1. \A s \in DOMAIN knownPeers : knownPeers[s] \in Peer
  BY DEF TypeOK
<1>2. knownPeers' = [s \in DOMAIN knownPeers |->
        [knownPeers[s] EXCEPT !.age = Older(knownPeers[s].age)]]
  BY DEF Advance
<1>3. \A a \in 0 .. Ancient : Older(a) \in 0 .. Ancient
  BY DEF Older, Ancient
<1> QED
  BY <1>1, <1>2, <1>3 DEF Peer

(* What a sighting leaves in knownPeers. *)
LEMMA HandleEntryTypes ==
  ASSUME TypeOK, NEW s \in Service, NEW v4 \in SUBSET Addr4, NEW v6 \in SUBSET Addr6,
         HandleEntry(s, v4, v6)
  PROVE  /\ DOMAIN knownPeers' = DOMAIN knownPeers \cup {s}
         /\ knownPeers' \in [DOMAIN knownPeers' -> Peer]
         /\ knownPeers'[s].age = 0 /\ knownPeers'[s].active
         /\ \A p \in DOMAIN knownPeers : p # s => knownPeers'[p] = knownPeers[p]
<1>1. knownPeers' = [p \in DOMAIN knownPeers \cup {s} |->
        IF p = s THEN [v4 |-> v4, v6 |-> v6, age |-> 0, active |-> TRUE]
        ELSE knownPeers[p]]
  BY DEF HandleEntry, handleRemotePeer, SeenIsActive
<1>2. [v4 |-> v4, v6 |-> v6, age |-> 0, active |-> TRUE] \in Peer
  BY DEF Peer, Ancient
<1> QED
  BY <1>1, <1>2 DEF TypeOK

(* What a tick of the expiry goroutine leaves in knownPeers. *)
LEMMA ExpireTypes ==
  ASSUME TypeOK, Expire
  PROVE  /\ DOMAIN knownPeers' = DOMAIN knownPeers
         /\ knownPeers' \in [DOMAIN knownPeers' -> Peer]
         /\ \A s \in DOMAIN knownPeers :
              /\ knownPeers'[s].age = knownPeers[s].age
              /\ knownPeers'[s].active => knownPeers[s].active /\ ~(knownPeers[s].age > 6)
              /\ knownPeers[s].active /\ ~(knownPeers[s].age > 6) => knownPeers'[s].active
<1>1. \A s \in DOMAIN knownPeers : knownPeers[s] \in Peer
  BY DEF TypeOK
<1>2. knownPeers' = [s \in DOMAIN knownPeers |->
       IF knownPeers[s].age > 6
       THEN [knownPeers[s] EXCEPT !.active = FALSE] ELSE knownPeers[s]]
  BY DEF Expire, Overdue
<1> QED
  BY <1>1, <1>2 DEF Peer

(* The dials a call of SendToPeers starts go to usable addresses. *)
LEMMA SendTypes ==
  ASSUME TypeOK, NEW i \in Item, SendToPeers(i)
  PROVE  /\ dials' \subseteq Dial
         /\ \A d \in dials' : d.addr \notin Unusable
<1>1. PICK addr \in [Targets -> Addr] :
        /\ \A s \in Targets : addr[s] \in Candidates(s)
        /\ dials' = dials \cup {[service |-> s, addr |-> addr[s], item |-> i] : s \in Targets}
  BY DEF SendToPeers
<1>2. \A s \in Targets : s \in Service /\ addr[s] \in Addr /\ addr[s] \notin Unusable
  BY <1>1 DEF Targets, Candidates, TypeOK, Peer, Addr
<1> QED
  BY <1>1, <1>2 DEF TypeOK, Dial

LEMMA NextTypeOK == TypeOK /\ [Next]_vars => TypeOK'
<1> SUFFICES ASSUME TypeOK, [Next]_vars PROVE TypeOK'
  OBVIOUS
<1> USE DEF taskVars, sendVars, netVars
<1>1. CASE Advance
  <2>1. /\ DOMAIN knownPeers' \subseteq Service
        /\ knownPeers' \in [DOMAIN knownPeers' -> Peer]
    BY <1>1, AdvanceTypes DEF TypeOK
  <2>2. untilTick' \in 0 .. 2
    BY <1>1 DEF TypeOK, Advance, TickDue
  <2> QED
    BY <1>1, <2>1, <2>2 DEF TypeOK, Advance
<1>2. ASSUME NEW addrs \in SUBSET Addr4, InterfacesChange(addrs) PROVE TypeOK'
  BY <1>2 DEF TypeOK, InterfacesChange
<1>3. CASE StartDiscovery
  BY <1>3 DEF TypeOK, StartDiscovery
<1>4. CASE Cancel
  BY <1>4 DEF TypeOK, Cancel
<1>5. CASE Stop
  BY <1>5 DEF TypeOK, Stop
<1>6. CASE CreateBrowser
  BY <1>6 DEF TypeOK, CreateBrowser
<1>7. ASSUME NEW s \in Service, NEW v4 \in SUBSET Addr4, NEW v6 \in SUBSET Addr6,
             HandleEntry(s, v4, v6)
      PROVE  TypeOK'
  <2>1. /\ DOMAIN knownPeers' \subseteq Service
        /\ knownPeers' \in [DOMAIN knownPeers' -> Peer]
    BY <1>7, HandleEntryTypes DEF TypeOK
  <2> QED
    BY <1>7, <2>1 DEF TypeOK, HandleEntry
<1>8. CASE DiscoveryEnds
  BY <1>8 DEF TypeOK, DiscoveryEnds
<1>9. CASE Expire
  <2>1. /\ DOMAIN knownPeers' \subseteq Service
        /\ knownPeers' \in [DOMAIN knownPeers' -> Peer]
    BY <1>9, ExpireTypes DEF TypeOK
  <2> QED
    BY <1>9, <2>1 DEF TypeOK, Expire
<1>10. CASE ExpiryEnds
  BY <1>10 DEF TypeOK, ExpiryEnds
<1>11. ASSUME NEW i \in Item, SendToPeers(i) PROVE TypeOK'
  <2>1. dials' \subseteq Dial /\ \A d \in dials' : d.addr \notin Unusable
    BY <1>11, SendTypes
  <2> QED
    BY <1>11, <2>1 DEF TypeOK, SendToPeers
<1>12. ASSUME NEW d \in dials, DialEnds(d) PROVE TypeOK'
  BY <1>12 DEF TypeOK, DialEnds
<1>13. CASE UNCHANGED vars
  BY <1>13 DEF TypeOK, vars
<1> QED
  BY <1>1, <1>2, <1>3, <1>4, <1>5, <1>6, <1>7, <1>8, <1>9, <1>10, <1>11,
     <1>12, <1>13
     DEF Next, Discovery

(* Type correctness of the peer manager: in particular no goroutine ever      *)
(* dials an unspecified or loopback address.                                  *)
THEOREM TypeCorrect == Spec => []TypeOK
  BY InitTypeOK, NextTypeOK, PTL DEF Spec

-----------------------------------------------------------------------------
LEMMA InitIInv == Init => IInv
<1>1. Init => TaskInv /\ AgeInv
  BY DEF Init, TaskInv, AgeInv
<1> QED
  BY <1>1, InitTypeOK DEF IInv

LEMMA NextAge == TypeOK /\ TaskInv /\ AgeInv /\ [Next]_vars => TaskInv' /\ AgeInv'
<1> SUFFICES ASSUME TypeOK, TaskInv, AgeInv, [Next]_vars PROVE TaskInv' /\ AgeInv'
  OBVIOUS
<1>0. /\ untilTick \in 0 .. 2
      /\ \A s \in DOMAIN knownPeers : /\ knownPeers[s].age \in 0 .. Ancient
                                      /\ knownPeers[s].active \in BOOLEAN
  BY DEF TypeOK, Peer
<1>1. CASE Advance
  <2>1. /\ DOMAIN knownPeers' = DOMAIN knownPeers
        /\ \A s \in DOMAIN knownPeers :
             /\ knownPeers'[s].active = knownPeers[s].active
             /\ knownPeers'[s].age = Older(knownPeers[s].age)
    BY <1>1, AdvanceTypes
  <2>2. UNCHANGED <<discovery, expiry>>
        /\ (expiry = "running" => untilTick # 0 /\ untilTick' = untilTick - 1)
    BY <1>1 DEF Advance, TickDue
  <2>3. TaskInv'
    BY <2>1, <2>2 DEF TaskInv
  <2>4. AgeInv'
    <3> SUFFICES ASSUME expiry = "running", NEW s \in DOMAIN knownPeers
                 PROVE  /\ knownPeers'[s].active => knownPeers'[s].age + untilTick' <= 8
                        /\ knownPeers'[s].age <= 6 => knownPeers'[s].active
      BY <2>1, <2>2 DEF AgeInv
    <3>1. /\ knownPeers[s].active => knownPeers[s].age + untilTick <= 8
          /\ knownPeers[s].age <= 6 => knownPeers[s].active
      BY DEF AgeInv
    <3>2. knownPeers[s].age \in 0 .. 9
      BY <1>0 DEF Ancient
    <3>3. knownPeers'[s].age = IF knownPeers[s].age < 9 THEN knownPeers[s].age + 1 ELSE 9
      BY <2>1 DEF Older, Ancient
    <3> QED
      BY <1>0, <2>1, <2>2, <3>1, <3>2, <3>3
  <2> QED
    BY <2>3, <2>4
<1>2. CASE StartDiscovery
  BY <1>2 DEF StartDiscovery, TaskInv, AgeInv
<1>3. CASE CreateBrowser \/ DiscoveryEnds
  BY <1>3 DEF CreateBrowser, DiscoveryEnds, TaskInv, AgeInv
<1>4. ASSUME NEW s \in Service, NEW v4 \in SUBSET Addr4, NEW v6 \in SUBSET Addr6,
             HandleEntry(s, v4, v6)
      PROVE  TaskInv' /\ AgeInv'
  <2>1. /\ DOMAIN knownPeers' = DOMAIN knownPeers \cup {s}
        /\ knownPeers'[s].age = 0 /\ knownPeers'[s].active
        /\ \A p \in DOMAIN knownPeers : p # s => knownPeers'[p] = knownPeers[p]
    BY <1>4, HandleEntryTypes
  <2>2. UNCHANGED <<untilTick, expiry, discovery>> /\ discovery = "browsing"
    BY <1>4 DEF HandleEntry, taskVars
  <2>3. TaskInv'
    BY <2>2 DEF TaskInv
  <2>4. AgeInv'
    BY <1>0, <2>1, <2>2 DEF AgeInv
  <2> QED
    BY <2>3, <2>4
<1>5. CASE Expire
  <2>1. /\ DOMAIN knownPeers' = DOMAIN knownPeers
        /\ \A s \in DOMAIN knownPeers :
             /\ knownPeers'[s].age = knownPeers[s].age
             /\ knownPeers'[s].active => knownPeers[s].active /\ ~(knownPeers[s].age > 6)
             /\ knownPeers[s].active /\ ~(knownPeers[s].age > 6) => knownPeers'[s].active
    BY <1>5, ExpireTypes
  <2>2. UNCHANGED <<expiry, discovery>> /\ expiry = "running" /\ untilTick' = 2
    BY <1>5 DEF Expire, TickDue
  <2>3. TaskInv'
    BY <2>1, <2>2 DEF TaskInv
  <2>4. AgeInv'
    <3> SUFFICES ASSUME NEW s \in DOMAIN knownPeers
                 PROVE  /\ knownPeers'[s].active => knownPeers'[s].age + untilTick' <= 8
                        /\ knownPeers'[s].age <= 6 => knownPeers'[s].active
      BY <2>1 DEF AgeInv
    <3>1. knownPeers[s].age <= 6 => knownPeers[s].active
      BY <2>2 DEF AgeInv
    <3>2. knownPeers[s].age \in 0 .. 9
      BY <1>0 DEF Ancient
    <3> QED
      BY <2>1, <2>2, <3>1, <3>2
  <2> QED
    BY <2>3, <2>4
<1>6. CASE ExpiryEnds
  BY <1>6 DEF ExpiryEnds, TaskInv, AgeInv
<1>7. CASE UNCHANGED <<knownPeers, discovery, expiry, untilTick>>
  BY <1>7 DEF TaskInv, AgeInv
<1> QED
  BY <1>1, <1>2, <1>3, <1>4, <1>5, <1>6, <1>7
     DEF Next, Discovery, InterfacesChange, Cancel, Stop, SendToPeers, DialEnds,
         vars, taskVars, netVars

LEMMA Invariant == Spec => []IInv
<1>1. IInv /\ [Next]_vars => IInv'
  BY NextTypeOK, NextAge DEF IInv
<1> QED
  BY InitIInv, <1>1, PTL DEF Spec

LEMMA AgeOfActive == IInv => ActivityFollowsAge
<1> SUFFICES ASSUME IInv, expiry = "running", NEW s \in DOMAIN knownPeers
             PROVE  /\ knownPeers[s].age <= 6 => knownPeers[s].active
                    /\ knownPeers[s].age > 8 => ~knownPeers[s].active
  BY DEF ActivityFollowsAge
<1>1. untilTick \in 0 .. 2 /\ knownPeers[s].age \in 0 .. Ancient
  BY DEF IInv, TypeOK, Peer
<1> QED
  BY <1>1 DEF IInv, AgeInv, Ancient

(* An active peer was seen within the last 8 sync intervals, and a peer seen   *)
(* within the last 6 is active.                                                *)
THEOREM ActivityBound == Spec => []ActivityFollowsAge
  BY Invariant, AgeOfActive, PTL

(* Each send dials recently seen peers only, at one address each.              *)
THEOREM TargetsAreFresh == Spec => FreshTargets
<1> DEFINE Fresh ==
      expiry = "running" =>
        \A d \in dials' \ dials :
          /\ knownPeers[d.service].age <= 8
          /\ \A e \in dials' \ dials : e.service = d.service => e = d
<1>1. IInv /\ [Next]_vars => [Fresh]_vars
  <2> SUFFICES ASSUME IInv, Next PROVE Fresh
    OBVIOUS
  <2>1. ASSUME NEW i \in Item, SendToPeers(i) PROVE Fresh
    <3>1. PICK addr \in [Targets -> Addr] :
            dials' = dials \cup {[service |-> s, addr |-> addr[s], item |-> i] : s \in Targets}
      BY <2>1 DEF SendToPeers
    <3>2. \A d \in dials' \ dials : \E s \in Targets :
            d = [service |-> s, addr |-> addr[s], item |-> i]
      BY <3>1
    <3>3. expiry = "running" =>
            \A s \in Targets : knownPeers[s].age <= 8
      <4> SUFFICES ASSUME expiry = "running", NEW s \in Targets
                   PROVE  knownPeers[s].age <= 8
        OBVIOUS
      <4>1. s \in DOMAIN knownPeers /\ knownPeers[s].active
        BY DEF Targets, Receives
      <4>2. ~(knownPeers[s].age > 8)
        BY <4>1, AgeOfActive DEF ActivityFollowsAge
      <4>3. knownPeers[s].age \in 0 .. Ancient
        BY <4>1 DEF IInv, TypeOK, Peer
      <4> QED
        BY <4>2, <4>3 DEF Ancient
    <3> QED
      BY <3>2, <3>3
  <2>2. CASE dials' \subseteq dials
    BY <2>2
  <2> QED
    BY <2>1, <2>2
       DEF Next, Discovery, Advance, InterfacesChange, StartDiscovery, Cancel, Stop,
           CreateBrowser, HandleEntry, DiscoveryEnds, Expire, ExpiryEnds, DialEnds,
           sendVars
<1>2. Spec => [][Fresh]_vars
  BY Invariant, <1>1, PTL DEF Spec
<1> QED
  BY <1>2 DEF FreshTargets
=============================================================================
