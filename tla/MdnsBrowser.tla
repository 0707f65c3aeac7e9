---------------------------- MODULE MdnsBrowser -----------------------------
(***************************************************************************)
(* Discovery of other nodes, from the mDNS library to the peer manager:    *)
(* the goroutine of PeerManager.StartDiscovery creates a browser, the      *)
(* goroutine of Browse (internal/network/mdns/browser.go) starts the       *)
(* library and copies what it reports from one bounded channel to another, *)
(* and the first goroutine hands the entries to the peer manager.  The     *)
(* library is external: it reports services on a channel and closes it     *)
(* when the context is cancelled or when it fails.                         *)
(*                                                                         *)
(* AnyRoom and DropsWhenFull are variants with a bug a change could bring  *)
(* in.                                                                     *)
(***************************************************************************)
EXTENDS Naturals, Sequences

CONSTANTS
  Service,    \* services the library can report
  ChanSize,   \* capacity of both channels, ten
  MaxReports  \* bound: reports stop at this number

VARIABLES
  ctxDone,        \* the context is cancelled
  discovery,      \* program point of the goroutine of StartDiscovery
  browse,         \* program point of the goroutine of Browse
  browserClosed,  \* Browser.closed
  zeroconf,       \* external: the library is off, browsing, or has closed results
  results,        \* the channel the library sends on
  inHand,         \* the entry taken from results and not yet sent on
  entries,        \* the channel Browse returns, closed when browse is done
  reported,       \* history: everything the library reported
  taken           \* history: the entries given to the peer manager

vars == <<ctxDone, discovery, browse, browserClosed, zeroconf, results, inHand, entries,
          reported, taken>>

TypeOK ==
  /\ ctxDone \in BOOLEAN /\ browserClosed \in BOOLEAN
  /\ discovery \in {"off", "create", "select", "done"}
  /\ browse \in {"off", "check", "range", "send", "done"}
  /\ zeroconf \in {"off", "browsing", "closed"}
  /\ results \in Seq(Service) /\ Len(results) <= ChanSize
  /\ inHand \in Seq(Service) /\ Len(inHand) = IF browse = "send" THEN 1 ELSE 0
  /\ entries \in Seq(Service) /\ Len(entries) <= ChanSize
  /\ reported \in Seq(Service) /\ taken \in Seq(Service)

Init ==
  /\ ctxDone = FALSE /\ browserClosed = FALSE
  /\ discovery = "off" /\ browse = "off" /\ zeroconf = "off"
  /\ results = <<>> /\ inHand = <<>> /\ entries = <<>>
  /\ reported = <<>> /\ taken = <<>>

-----------------------------------------------------------------------------
(* The goroutine of StartDiscovery.                                        *)

StartDiscovery ==
  /\ discovery = "off"
  /\ discovery' = "create"
  /\ UNCHANGED <<ctxDone, browse, browserClosed, zeroconf, results, inHand, entries, reported, taken>>

\* NewBrowser fails for want of a resolver: the goroutine returns.
CreateBrowser ==
  /\ discovery = "create"
  /\ \/ discovery' = "select" /\ browse' = "check"
     \/ discovery' = "done" /\ UNCHANGED browse
  /\ UNCHANGED <<ctxDone, browserClosed, zeroconf, results, inHand, entries, reported, taken>>

TakeEntry ==
  /\ discovery = "select"
  /\ entries # <<>>
  /\ taken' = Append(taken, Head(entries))
  /\ entries' = Tail(entries)
  /\ UNCHANGED <<ctxDone, discovery, browse, browserClosed, zeroconf, results, inHand, reported>>

\* The context is done or the channel is closed and empty; the deferred Close.
DiscoveryEnds ==
  /\ discovery = "select"
  /\ ctxDone \/ (browse = "done" /\ entries = <<>>)
  /\ discovery' = "done"
  /\ browserClosed' = TRUE
  /\ UNCHANGED <<ctxDone, browse, zeroconf, results, inHand, entries, reported, taken>>

-----------------------------------------------------------------------------
(* The goroutine of Browse.                                                *)

\* The browser may have been closed before this goroutine ran.
FindsClosed ==
  /\ browse = "check" /\ browserClosed
  /\ browse' = "done"
  /\ UNCHANGED <<ctxDone, discovery, browserClosed, zeroconf, results, inHand, entries, reported, taken>>

StartsBrowsing ==
  /\ browse = "check" /\ ~browserClosed
  /\ \/ browse' = "range" /\ zeroconf' = "browsing"
     \/ browse' = "done" /\ UNCHANGED zeroconf
  /\ UNCHANGED <<ctxDone, discovery, browserClosed, results, inHand, entries, reported, taken>>

TakeResult ==
  /\ browse = "range"
  /\ results # <<>>
  /\ inHand' = <<Head(results)>>
  /\ results' = Tail(results)
  /\ browse' = "send"
  /\ UNCHANGED <<ctxDone, discovery, browserClosed, zeroconf, entries, reported, taken>>

AnyRoom == Len(entries) <= ChanSize
Room == Len(entries) < ChanSize
DropsWhenFull == entries' = IF Room THEN entries \o inHand ELSE entries
SendsOn == Room /\ entries' = entries \o inHand

Forward ==
  /\ browse = "send"
  /\ SendsOn
  /\ inHand' = <<>>
  /\ browse' = "range"
  /\ UNCHANGED <<ctxDone, discovery, browserClosed, zeroconf, results, reported, taken>>

\* results is closed and empty, or the context is done while entries is full or
\* has room: the select may choose either.  The deferred close of entries.
BrowseEnds ==
  /\ \/ browse = "range" /\ results = <<>> /\ zeroconf = "closed"
     \/ browse = "send" /\ ctxDone
  /\ browse' = "done"
  /\ inHand' = <<>>
  /\ UNCHANGED <<ctxDone, discovery, browserClosed, zeroconf, results, entries, reported, taken>>

-----------------------------------------------------------------------------
(* External: the library.                                                  *)

Report(s) ==
  /\ zeroconf = "browsing"
  /\ Len(results) < ChanSize /\ Len(reported) < MaxReports
  /\ results' = Append(results, s)
  /\ reported' = Append(reported, s)
  /\ UNCHANGED <<ctxDone, discovery, browse, browserClosed, zeroconf, inHand, entries, taken>>

LibraryEnds ==
  /\ zeroconf = "browsing"
  /\ zeroconf' = "closed"
  /\ UNCHANGED <<ctxDone, discovery, browse, browserClosed, results, inHand, entries, reported, taken>>

-----------------------------------------------------------------------------
Discovery == CreateBrowser \/ TakeEntry \/ DiscoveryEnds
Browse == FindsClosed \/ StartsBrowsing \/ TakeResult \/ Forward \/ BrowseEnds
Library == LibraryEnds \/ \E s \in Service : Report(s)

-----------------------------------------------------------------------------
(* Properties.                                                             *)

\* Two channels and two goroutines between the library and the peer manager keep
\* the order of the reports.  They lose none while that goroutine runs, and none
\* at all before the cancellation, also when the library closes its channel.
EntriesInOrder ==
  LET passed == taken \o entries \o inHand IN
    /\ Len(passed) <= Len(reported)
    /\ \A i \in 1 .. Len(passed) : passed[i] = reported[i]
    /\ browse # "done" \/ ~ctxDone => passed \o results = reported
=============================================================================
