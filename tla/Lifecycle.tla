----------------------------- MODULE Lifecycle ------------------------------
(***************************************************************************)
(* From the start of main to its end: each step of cmd/eClip/main.go and   *)
(* of RegisterService (internal/network/mdns/service.go) may fail, what    *)
(* was acquired before is released by the deferred calls or by the error   *)
(* path, and a signal ends a node that runs.  Discovery, in MdnsBrowser,   *)
(* runs beside it.                                                         *)
(*                                                                         *)
(* Every call that returns an error may fail here, also where today's      *)
(* implementation never returns one.  AnyInterface and Unreleased are      *)
(* variants with a bug a change could bring in.                            *)
(***************************************************************************)
EXTENDS Naturals, Sequences

CONSTANTS
  Service, ChanSize, MaxReports,  \* of MdnsBrowser
  Interface,   \* network interfaces
  Addr,        \* their addresses
  LinkLocal,   \* those that are link-local
  Link,        \* the states of an interface: up, loopback, addrs
  MaxChanges   \* bound: changes of the interfaces

ASSUME LifecycleAssumption ==
  /\ ChanSize \in Nat \ {0} /\ MaxReports \in Nat /\ MaxChanges \in Nat
  /\ LinkLocal \subseteq Addr
  /\ Link \subseteq [up : BOOLEAN, loopback : BOOLEAN, addrs : SUBSET Addr]

VARIABLES
  step,        \* the step of the start main is at, or what it does after it
  exit,        \* how main ends
  deferred,    \* the deferred calls, the next one first
  held,        \* what the process has acquired and not released
  signalled,   \* a signal waits in quitSignal
  net,         \* external: the state of each interface
  changes,     \* external: how often it changed
  selected,    \* the interfaces RegisterService chose
  localAddrs,  \* the addresses in localServiceInfo
  ctxDone, discovery, browse, browserClosed, zeroconf, results, inHand, entries,
  reported, taken  \* of MdnsBrowser

browserVars == <<discovery, browse, browserClosed, zeroconf, results, inHand, entries,
                 reported, taken>>
netVars == <<net, changes>>
serviceVars == <<selected, localAddrs>>
mainVars == <<step, exit, deferred, held, signalled, serviceVars>>
vars == <<mainVars, netVars, ctxDone, browserVars>>

Browser == INSTANCE MdnsBrowser

\* The start, in the order of main; "hostname" to "addresses" are RegisterService.
Start == <<"config", "logger", "history", "clipboard", "hostname", "interfaces", "listen",
           "port", "register", "addresses", "newserver", "startserver", "discovery",
           "monitor", "notify", "wait">>
Steps == {Start[i] : i \in 1 .. Len(Start)}
Following(s) == Start[1 + CHOOSE i \in 1 .. Len(Start) : Start[i] = s]

\* The global logger, the TCP listener, the announcement on mDNS, the running
\* ClipboardServer, Monitor with the goroutine that reads its channel.
Resource == {"logger", "listener", "announcement", "server", "monitor"}
Deferred == {"closeLogger", "cancel", "unregister", "stopServer", "stopPeers"}

TypeOK ==
  /\ Browser!TypeOK
  /\ step \in Steps \cup {"unwind", "gone"}
  /\ exit \in {"none", "return", "panic", "fatal", "killed"}
  /\ deferred \in Seq(Deferred) /\ Len(deferred) <= 5
  /\ held \subseteq Resource
  /\ signalled \in BOOLEAN
  /\ net \in [Interface -> Link] /\ changes \in 0 .. MaxChanges
  /\ selected \subseteq Interface /\ localAddrs \subseteq Addr

Init ==
  /\ Browser!Init
  /\ step = "config" /\ exit = "none" /\ deferred = <<>>
  /\ held = {} /\ signalled = FALSE
  /\ net \in [Interface -> Link] /\ changes = 0
  /\ selected = {} /\ localAddrs = {}

-----------------------------------------------------------------------------
(* A step of the start succeeds.                                           *)

\* main goes on, holding more and with more to do at its end.
Passes(s, acquired, deferring) ==
  /\ step = s /\ step' = Following(s)
  /\ held' = held \cup acquired
  /\ deferred' = deferring \o deferred
  /\ UNCHANGED <<exit, signalled, netVars, ctxDone>>

\* Nothing the rest of the start depends on.
PlainStep ==
  /\ \E s \in {"config", "history", "hostname", "port", "newserver", "notify"} : Passes(s, {}, <<>>)
  /\ UNCHANGED <<serviceVars, browserVars>>

OpenLogger == Passes("logger", {"logger"}, <<"closeLogger">>) /\ UNCHANGED <<serviceVars, browserVars>>

\* The clipboard manager, and the context that ends everything.
MakeContext == Passes("clipboard", {}, <<"cancel">>) /\ UNCHANGED <<serviceVars, browserVars>>

\* Up, no loopback, and with an address that is not link-local.
AnyInterface(i) == net[i].up /\ ~net[i].loopback
Suitable(i) == net[i].up /\ ~net[i].loopback /\ net[i].addrs \ LinkLocal # {}

selectInterfaces ==
  /\ Passes("interfaces", {}, <<>>)
  /\ selected' = {i \in Interface : Suitable(i)}
  /\ selected' # {}
  /\ UNCHANGED <<localAddrs, browserVars>>

Listen == Passes("listen", {"listener"}, <<>>) /\ UNCHANGED <<serviceVars, browserVars>>

Register == Passes("register", {"announcement"}, <<>>) /\ UNCHANGED <<serviceVars, browserVars>>

\* The addresses are read again, after the announcement and of all kinds; an
\* interface that does not tell them counts as one that has lost them.
\* RegisterService returns and main defers the shutdown of the registration.
ReadAddresses ==
  /\ Passes("addresses", {}, <<"unregister">>)
  /\ localAddrs' = UNION {net[i].addrs : i \in selected}
  /\ UNCHANGED <<selected, browserVars>>

StartServer == Passes("startserver", {"server"}, <<"stopServer">>) /\ UNCHANGED <<serviceVars, browserVars>>

StartDiscovery ==
  Passes("discovery", {}, <<"stopPeers">>) /\ Browser!StartDiscovery /\ UNCHANGED serviceVars

\* A Monitor that cannot be started is only logged: the node runs without it.
StartMonitor ==
  /\ \E started \in {{}, {"monitor"}} : Passes("monitor", started, <<>>)
  /\ UNCHANGED <<serviceVars, browserVars>>

Starts ==
  \/ PlainStep \/ OpenLogger \/ MakeContext
  \/ selectInterfaces \/ Listen \/ Register \/ ReadAddresses
  \/ StartServer \/ StartDiscovery \/ StartMonitor

-----------------------------------------------------------------------------
(* A step of the start fails.                                              *)

Fails(how, next) ==
  /\ step' = next /\ exit' = how
  /\ UNCHANGED <<deferred, signalled, serviceVars, netVars, ctxDone, browserVars>>

\* log.Fatalf ends the process without deferred calls.
LoggerFails == step = "logger" /\ Fails("fatal", "gone") /\ UNCHANGED held

\* Before there is a listener nothing but the deferred calls cleans up.
EarlyStepFails ==
  /\ step \in {"config", "history", "clipboard", "hostname", "interfaces", "listen"}
  /\ Fails("panic", "unwind")
  /\ UNCHANGED held

Unreleased == UNCHANGED held
Released == held' = held \ {"listener"}

\* The error paths of RegisterService and of main close the listener by hand: its
\* deferred owner is the server, which does not run yet.
LateStepFails ==
  /\ step \in {"port", "register", "newserver", "startserver"}
  /\ Fails("panic", "unwind")
  /\ Released

-----------------------------------------------------------------------------
(* The end.                                                                *)

\* SIGINT or SIGTERM: before signal.Notify it kills the process.
Signal ==
  /\ UNCHANGED <<deferred, held, serviceVars, netVars, ctxDone, browserVars>>
  /\ \/ /\ step = "wait"
        /\ signalled' = TRUE
        /\ UNCHANGED <<step, exit>>
     \/ /\ step \in Steps \ {"wait"} \/ (step = "unwind" /\ exit = "panic")
        /\ step' = "gone" /\ exit' = "killed"
        /\ UNCHANGED signalled

\* main leaves <-quitSignal, cancels the context and returns.
Quit ==
  /\ step = "wait" /\ signalled
  /\ ctxDone' = TRUE
  /\ step' = "unwind" /\ exit' = "return"
  /\ UNCHANGED <<deferred, held, signalled, serviceVars, netVars, browserVars>>

RunsDeferred(call, released) ==
  /\ step = "unwind"
  /\ deferred # <<>> /\ Head(deferred) = call
  /\ deferred' = Tail(deferred)
  /\ held' = held \ released
  /\ UNCHANGED <<step, exit, signalled, serviceVars, netVars, browserVars>>

\* PeerManager.Stop only clears a flag: discovery ends with the context.
StopPeers == RunsDeferred("stopPeers", {}) /\ UNCHANGED ctxDone

StopServer == RunsDeferred("stopServer", {"server", "listener"}) /\ UNCHANGED ctxDone

Unregister == RunsDeferred("unregister", {"announcement"}) /\ UNCHANGED ctxDone

CancelContext == RunsDeferred("cancel", {}) /\ ctxDone' = TRUE

\* Close returns when every message is printed (AsyncLogger).
CloseLogger == RunsDeferred("closeLogger", {"logger"}) /\ UNCHANGED ctxDone

ProcessEnds ==
  /\ step = "unwind" /\ deferred = <<>>
  /\ step' = "gone"
  /\ UNCHANGED <<exit, deferred, held, signalled, serviceVars, netVars, ctxDone, browserVars>>

Unwinds ==
  StopPeers \/ StopServer \/ Unregister \/ CancelContext \/ CloseLogger \/ ProcessEnds

-----------------------------------------------------------------------------
\* External: an interface goes up or down or changes its addresses.  Main reads
\* them before this node has a server; later changes are those of PeerManager.
InterfaceChanges ==
  /\ changes < MaxChanges
  /\ step \in Steps /\ "server" \notin held
  /\ changes' = changes + 1
  /\ \E i \in Interface, l \in Link : net' = [net EXCEPT ![i] = l]
  /\ UNCHANGED <<mainVars, ctxDone, browserVars>>

Alive == step # "gone"
DiscoveryRuns == Alive /\ Browser!Discovery /\ UNCHANGED <<mainVars, netVars>>
BrowseRuns == Alive /\ Browser!Browse /\ UNCHANGED <<mainVars, netVars>>
LibraryRuns == Alive /\ Browser!Library /\ UNCHANGED <<mainVars, netVars>>

Next ==
  \/ Starts \/ LoggerFails \/ EarlyStepFails \/ LateStepFails
  \/ Signal \/ Quit \/ Unwinds
  \/ InterfaceChanges
  \/ DiscoveryRuns \/ BrowseRuns \/ LibraryRuns

\* The goroutines and main keep running.  Nothing makes a signal arrive, a step
\* fail, an interface change or the library find a service.
Fairness ==
  /\ WF_vars(Starts) /\ WF_vars(Quit) /\ WF_vars(Unwinds)
  /\ WF_vars(DiscoveryRuns) /\ WF_vars(BrowseRuns)

Spec == Init /\ [][Next]_vars /\ Fairness
-----------------------------------------------------------------------------
(* Properties.                                                             *)

\* A node that has started is announced and can be reached: the listener is open
\* and served, discovery was started, everything acquired has its deferred
\* release, and localServiceInfo holds an address other nodes can use, unless the
\* interfaces changed after they were selected.
Ready ==
  step = "wait" =>
    /\ {"logger", "listener", "announcement", "server"} \subseteq held /\ ~ctxDone
    /\ discovery # "off"
    /\ deferred = <<"stopPeers", "stopServer", "unregister", "cancel", "closeLogger">>
    /\ changes = 0 => localAddrs \ LinkLocal # {}

\* Whatever step fails or whenever the signal comes: a process that returns from
\* main or panics has closed its listener, withdrawn its announcement, stopped its
\* server, flushed the logger and cancelled the context its goroutines wait for.
\* The logger is open while there are deferred calls, because they log.
CleanExit ==
  /\ step = "gone" /\ exit \in {"return", "panic"} =>
       /\ held \subseteq {"monitor"}
       /\ discovery # "off" => ctxDone
  /\ deferred # <<>> => "logger" \in held

\* Two channels and two goroutines lie between the library and the peer manager:
\* they keep the order of the reports and lose none before the cancellation.
EntriesInOrder == Browser!EntriesInOrder

\* Every report reaches the peer manager while the context lives, also when the
\* library ends, unless the process is killed.
EntriesArrive ==
  \A n \in 1 .. MaxReports :
    Len(reported) >= n ~> (Len(taken) >= n \/ ctxDone \/ step = "gone")
=============================================================================
