--------------------------- MODULE LifecycleProofs --------------------------
(***************************************************************************)
(* Proofs about the start and the end of main, and about the two channels  *)
(* between the mDNS library and the peer manager.                          *)
(*                                                                         *)
(* The invariant says of every step of the start which resources are held  *)
(* and which calls are deferred (CallsAt, HeldAt).  Of the n deferred      *)
(* calls that are left at any moment it says that they release everything  *)
(* that is still held (Owned), and that one of them is the cancellation if *)
(* discovery runs and is not cancelled.  Each call that runs then needs to *)
(* release only what it owns beyond the next n - 1.                        *)
(***************************************************************************)
EXTENDS Lifecycle, ChannelLemmas

-----------------------------------------------------------------------------
(* The order of the start.                                                 *)

(* The sixteen steps of the start, by name. *)
LEMMA StartSteps ==
  /\ Len(Start) = 16
  /\ Steps = {"config", "logger", "history", "clipboard", "hostname", "interfaces", "listen",
              "port", "register", "addresses", "newserver", "startserver", "discovery",
              "monitor", "notify", "wait"}
  /\ \A i \in 1 .. 16 : Start[i] \in Steps
<1>1. Len(Start) = 16
  BY DEF Start
<1>2. 1 .. 16 = {1, 2, 3, 4, 5, 6, 7, 8, 9, 10, 11, 12, 13, 14, 15, 16}
  OBVIOUS
<1>3. Steps = {Start[i] : i \in {1, 2, 3, 4, 5, 6, 7, 8, 9, 10, 11, 12, 13, 14, 15, 16}}
  BY <1>1, <1>2 DEF Steps
<1>4. {Start[i] : i \in {1, 2, 3, 4, 5, 6, 7, 8, 9, 10, 11, 12, 13, 14, 15, 16}} = {Start[1],
        Start[2], Start[3], Start[4], Start[5], Start[6], Start[7], Start[8], Start[9], Start[10],
        Start[11], Start[12], Start[13], Start[14], Start[15], Start[16]}
  OBVIOUS
<1>5. Steps = {"config", "logger", "history", "clipboard", "hostname", "interfaces", "listen",
              "port", "register", "addresses", "newserver", "startserver", "discovery",
              "monitor", "notify", "wait"}
  BY <1>3, <1>4 DEF Start
<1> QED
  BY <1>1, <1>5 DEF Steps

(* No step occurs twice. *)
LEMMA StartDistinct ==
  ASSUME NEW i \in 1 .. 16, NEW j \in 1 .. 16, Start[i] = Start[j]
  PROVE  i = j
  BY DEF Start

(* The step after a step is the next one of Start. *)
LEMMA FollowingStep ==
  ASSUME NEW i \in 1 .. 15
  PROVE  Following(Start[i]) = Start[i + 1]
<1>1. i \in 1 .. Len(Start) /\ Len(Start) = 16
  BY StartSteps
<1> DEFINE j == CHOOSE j \in 1 .. Len(Start) : Start[j] = Start[i]
<1>2. j \in 1 .. Len(Start) /\ Start[j] = Start[i]
  BY <1>1
<1>3. j = i
  BY <1>1, <1>2, StartDistinct
<1>4. i + 1 = 1 + i
  OBVIOUS
<1> QED
  BY <1>3, <1>4 DEF Following

(* The step after each step, by name. *)
LEMMA FollowingSteps ==
  /\ Following("config") = "logger"
  /\ Following("logger") = "history"
  /\ Following("history") = "clipboard"
  /\ Following("clipboard") = "hostname"
  /\ Following("hostname") = "interfaces"
  /\ Following("interfaces") = "listen"
  /\ Following("listen") = "port"
  /\ Following("port") = "register"
  /\ Following("register") = "addresses"
  /\ Following("addresses") = "newserver"
  /\ Following("newserver") = "startserver"
  /\ Following("startserver") = "discovery"
  /\ Following("discovery") = "monitor"
  /\ Following("monitor") = "notify"
  /\ Following("notify") = "wait"
<1>1. /\ Following(Start[1]) = Start[2] /\ Following(Start[2]) = Start[3]
      /\ Following(Start[3]) = Start[4] /\ Following(Start[4]) = Start[5]
      /\ Following(Start[5]) = Start[6] /\ Following(Start[6]) = Start[7]
      /\ Following(Start[7]) = Start[8] /\ Following(Start[8]) = Start[9]
      /\ Following(Start[9]) = Start[10] /\ Following(Start[10]) = Start[11]
      /\ Following(Start[11]) = Start[12] /\ Following(Start[12]) = Start[13]
      /\ Following(Start[13]) = Start[14] /\ Following(Start[14]) = Start[15]
      /\ Following(Start[15]) = Start[16]
  <2>1. \A i \in 1 .. 15 : Following(Start[i]) = Start[i + 1]
    BY FollowingStep
  <2> QED
    BY <2>1
<1>2. /\ Start[1] = "config" /\ Start[2] = "logger" /\ Start[3] = "history"
      /\ Start[4] = "clipboard" /\ Start[5] = "hostname" /\ Start[6] = "interfaces"
      /\ Start[7] = "listen" /\ Start[8] = "port" /\ Start[9] = "register"
      /\ Start[10] = "addresses" /\ Start[11] = "newserver" /\ Start[12] = "startserver"
      /\ Start[13] = "discovery" /\ Start[14] = "monitor" /\ Start[15] = "notify"
      /\ Start[16] = "wait"
  BY DEF Start
<1> QED
  BY <1>1, <1>2

-----------------------------------------------------------------------------
(* The two channels between the library and the peer manager.              *)

(* What discovery does beside main: a step of its own, or main cancels the *)
(* context, or nothing.                                                    *)
BrowserStep ==
  \/ Browser!StartDiscovery
  \/ Browser!Discovery \/ Browser!Browse \/ Browser!Library
  \/ (ctxDone' = TRUE /\ UNCHANGED browserVars)
  \/ UNCHANGED <<ctxDone, browserVars>>

(* The goroutine of Browse is started once, by the goroutine of            *)
(* StartDiscovery: without this a restart could come after a loss.         *)
StartedOnce == discovery \in {"off", "create"} => browse = "off"

BrowserInv == Browser!TypeOK /\ StartedOnce /\ EntriesInOrder

(* Discovery keeps its types. *)
LEMMA BrowserTypeStep ==
  ASSUME ChanSize \in Nat \ {0}, Browser!TypeOK, StartedOnce, BrowserStep
  PROVE  Browser!TypeOK'
<1> USE DEF Browser!TypeOK
<1>1. CASE Browser!StartDiscovery
  BY <1>1 DEF Browser!StartDiscovery
<1>2. CASE Browser!CreateBrowser
  BY <1>2 DEF Browser!CreateBrowser, StartedOnce
<1>3. CASE Browser!TakeEntry
  <2>1. Len(entries) > 0
    BY <1>3, EmptySeq, LenProperties DEF Browser!TakeEntry
  <2>2. Head(entries) \in Service /\ Tail(entries) \in Seq(Service) /\ Len(Tail(entries)) = Len(entries) - 1
    BY <2>1, HeadAndTail
  <2> QED
    BY <1>3, <2>1, <2>2 DEF Browser!TakeEntry
<1>4. CASE Browser!DiscoveryEnds
  BY <1>4 DEF Browser!DiscoveryEnds
<1>5. CASE Browser!FindsClosed
  BY <1>5 DEF Browser!FindsClosed
<1>6. CASE Browser!StartsBrowsing
  BY <1>6 DEF Browser!StartsBrowsing
<1>7. CASE Browser!TakeResult
  <2>1. Len(results) > 0
    BY <1>7, EmptySeq, LenProperties DEF Browser!TakeResult
  <2>2. Head(results) \in Service /\ Tail(results) \in Seq(Service) /\ Len(Tail(results)) = Len(results) - 1
    BY <2>1, HeadAndTail
  <2>3. <<Head(results)>> \in Seq(Service) /\ Len(<<Head(results)>>) = 1
    BY <2>2
  <2> QED
    BY <1>7, <2>1, <2>2, <2>3 DEF Browser!TakeResult
<1>8. CASE Browser!Forward
  <2>1. entries \o inHand \in Seq(Service) /\ Len(entries \o inHand) = Len(entries) + 1
    BY <1>8, ConcatProperties DEF Browser!Forward
  <2>2. Len(entries \o inHand) <= ChanSize
    BY <1>8, <2>1 DEF Browser!Forward, Browser!SendsOn, Browser!Room
  <2> QED
    BY <1>8, <2>1, <2>2 DEF Browser!Forward, Browser!SendsOn
<1>9. CASE Browser!BrowseEnds
  BY <1>9 DEF Browser!BrowseEnds
<1>10. CASE \E s \in Service : Browser!Report(s)
  BY <1>10 DEF Browser!Report
<1>11. CASE Browser!LibraryEnds
  BY <1>11 DEF Browser!LibraryEnds
<1>12. CASE ctxDone' \in {TRUE, ctxDone} /\ UNCHANGED browserVars
  BY <1>12 DEF browserVars
<1> QED
  BY <1>1, <1>2, <1>3, <1>4, <1>5, <1>6, <1>7, <1>8, <1>9, <1>10, <1>11, <1>12
     DEF BrowserStep, Browser!Discovery, Browser!Browse, Browser!Library

(* Discovery keeps the order and loses nothing. *)
LEMMA BrowserOrderStep ==
  ASSUME BrowserInv, Browser!TypeOK', BrowserStep
  PROVE  StartedOnce' /\ EntriesInOrder'
<1> DEFINE p == taken \o entries \o inHand
<1>1. /\ taken \in Seq(Service) /\ entries \in Seq(Service) /\ inHand \in Seq(Service)
      /\ results \in Seq(Service) /\ reported \in Seq(Service)
      /\ browse # "send" => inHand = <<>>
  BY EmptySeq DEF BrowserInv, Browser!TypeOK
<1>2. taken \o entries \in Seq(Service) /\ p \in Seq(Service) /\ p \o results \in Seq(Service)
  BY <1>1, ConcatProperties
<1>3. /\ Len(p) <= Len(reported)
      /\ \A i \in 1 .. Len(p) : p[i] = reported[i]
      /\ browse # "done" \/ ~ctxDone => p \o results = reported
  BY DEF BrowserInv, EntriesInOrder, Browser!EntriesInOrder
<1>4. StartedOnce
  BY DEF BrowserInv
\* Enough to know how a step changes what has passed and what was reported.
<1>5. ASSUME p' \in Seq(Service), reported' \in Seq(Service), results' \in Seq(Service),
             Len(p') <= Len(p), \A i \in 1 .. Len(p') : p'[i] = p[i],
             reported' = reported,
             browse' # "done" \/ ~ctxDone' => p' \o results' = reported'
      PROVE  EntriesInOrder'
  <2>1. Len(p') <= Len(reported') /\ \A i \in 1 .. Len(p') : p'[i] = reported'[i]
    <3>1. Len(p') \in Nat /\ Len(p) \in Nat /\ Len(reported) \in Nat
      BY <1>1, <1>2, <1>5, LenProperties
    <3> HIDE DEF p
    <3>2. ASSUME NEW i \in 1 .. Len(p') PROVE p'[i] = reported[i]
      BY <1>3, <1>5, <3>1, <3>2
    <3> QED
      BY <1>3, <1>5, <3>1, <3>2
  <2> QED
    BY <1>5, <2>1 DEF EntriesInOrder, Browser!EntriesInOrder
<1>6. ASSUME p' \in Seq(Service), results' \in Seq(Service), p' \o results' = reported'
      PROVE  EntriesInOrder'
  BY <1>6, FirstPart DEF EntriesInOrder, Browser!EntriesInOrder
<1>7. ASSUME p' = p, results' = results, reported' = reported,
             browse' # "done" \/ ~ctxDone' => browse # "done" \/ ~ctxDone
      PROVE  EntriesInOrder'
  BY <1>3, <1>7 DEF EntriesInOrder, Browser!EntriesInOrder
<1>8. CASE Browser!StartDiscovery
  BY <1>4, <1>7, <1>8 DEF Browser!StartDiscovery, StartedOnce
<1>9. CASE Browser!CreateBrowser
  BY <1>4, <1>7, <1>9 DEF Browser!CreateBrowser, StartedOnce
<1>10. CASE Browser!TakeEntry
  <2>1. Len(entries) > 0
    BY <1>1, <1>10, EmptySeq, LenProperties DEF Browser!TakeEntry
  <2>2. Append(taken, Head(entries)) \o Tail(entries) = taken \o entries
    BY <1>1, <2>1, ReceiveKeepsConcat
  <2>3. p' = p
    BY <1>10, <2>2 DEF Browser!TakeEntry
  <2> QED
    BY <1>4, <1>7, <1>10, <2>3 DEF Browser!TakeEntry, StartedOnce
<1>11. CASE Browser!DiscoveryEnds
  BY <1>4, <1>7, <1>11 DEF Browser!DiscoveryEnds, StartedOnce
<1>12. CASE Browser!FindsClosed
  BY <1>4, <1>7, <1>12 DEF Browser!FindsClosed, StartedOnce
<1>13. CASE Browser!StartsBrowsing
  BY <1>4, <1>7, <1>13 DEF Browser!StartsBrowsing, StartedOnce
<1>14. CASE Browser!TakeResult
  <2>1. Len(results) > 0 /\ inHand = <<>>
    BY <1>1, <1>14, EmptySeq, LenProperties DEF Browser!TakeResult
  <2>2. <<Head(results)>> \in Seq(Service) /\ Tail(results) \in Seq(Service)
    BY <1>1, <2>1, HeadAndTail
  <2>3. <<Head(results)>> \o Tail(results) = results
    BY <1>1, <2>1, HeadThenTail
  <2>4. ((taken \o entries) \o <<Head(results)>>) \o Tail(results)
          = (taken \o entries) \o (<<Head(results)>> \o Tail(results))
    BY <1>2, <2>2, ConcatAssociative
  <2>5. p = taken \o entries
    BY <1>2, <2>1, ConcatEmptySeq
  <2>6. p' = (taken \o entries) \o <<Head(results)>> /\ results' = Tail(results) /\ reported' = reported
    BY <1>14 DEF Browser!TakeResult
  <2>7. p' \o results' = reported'
    BY <1>3, <1>14, <2>3, <2>4, <2>5, <2>6 DEF Browser!TakeResult
  <2>8. p' \in Seq(Service) /\ results' \in Seq(Service)
    BY <1>2, <2>2, <2>6, ConcatProperties
  <2> QED
    BY <1>4, <1>6, <1>14, <2>7, <2>8 DEF Browser!TakeResult, StartedOnce
<1>15. CASE Browser!Forward
  <2>1. taken \o (entries \o inHand) = (taken \o entries) \o inHand
    BY <1>1, ConcatAssociative
  <2>2. p' = (taken \o (entries \o inHand)) \o <<>>
    BY <1>15 DEF Browser!Forward, Browser!SendsOn
  <2>3. p' = p
    BY <1>2, <2>1, <2>2, ConcatEmptySeq
  <2> QED
    BY <1>4, <1>7, <1>15, <2>3 DEF Browser!Forward, StartedOnce
<1>16. CASE Browser!BrowseEnds
  <2>1. p' = (taken \o entries) \o <<>>
    BY <1>16 DEF Browser!BrowseEnds
  <2>2. p' = taken \o entries
    BY <1>2, <2>1, ConcatEmptySeq
  <2>3. CASE browse = "range"
    <3>1. p' = p
      BY <1>1, <2>1, <2>3
    <3> QED
      BY <1>4, <1>7, <1>16, <2>3, <3>1 DEF Browser!BrowseEnds, StartedOnce
  <2>4. CASE browse = "send" /\ ctxDone
    <3>1. Len(p') <= Len(p) /\ \A i \in 1 .. Len(p') : p'[i] = p[i]
      <4> DEFINE rest == taken \o entries
      <4>1. rest \in Seq(Service) /\ p = rest \o inHand /\ p' = rest
        BY <1>2, <2>2
      <4> HIDE DEF rest, p
      <4>2. Len(rest) <= Len(rest \o inHand) /\ \A i \in 1 .. Len(rest) : rest[i] = (rest \o inHand)[i]
        BY <1>1, <4>1, FirstPart
      <4> QED
        BY <4>1, <4>2
    <3>2. /\ reported' = reported /\ results' = results
          /\ browse' = "done" /\ ctxDone' /\ discovery' = discovery
      BY <1>16, <2>4 DEF Browser!BrowseEnds
    <3>3. p' \in Seq(Service) /\ reported' \in Seq(Service) /\ results' \in Seq(Service)
      BY <1>1, <1>2, <2>2, <3>2
    <3>4. EntriesInOrder'
      BY <1>5, <3>1, <3>2, <3>3
    <3> QED
      BY <1>4, <2>4, <3>2, <3>4 DEF StartedOnce
  <2> QED
    BY <1>16, <2>3, <2>4 DEF Browser!BrowseEnds
<1>17. ASSUME NEW s \in Service, Browser!Report(s)
       PROVE  StartedOnce' /\ EntriesInOrder'
  <2>1. /\ p' = p /\ results' = Append(results, s) /\ reported' = Append(reported, s)
        /\ UNCHANGED <<browse, ctxDone, discovery>>
    BY <1>17 DEF Browser!Report
  <2>2. p \o Append(results, s) = Append(p \o results, s)
    BY <1>1, <1>2, SendExtendsConcat
  <2>3. Len(p') <= Len(reported') /\ \A i \in 1 .. Len(p') : p'[i] = reported'[i]
    <3>1. Len(reported') = Len(reported) + 1 /\ \A i \in 1 .. Len(reported) : reported'[i] = reported[i]
      BY <1>1, <2>1, AppendProperties
    <3> HIDE DEF p
    <3>2. Len(p) \in Nat /\ Len(reported) \in Nat
      BY <1>1, <1>2, LenProperties
    <3>3. ASSUME NEW i \in 1 .. Len(p) PROVE p[i] = reported'[i]
      BY <1>3, <3>1, <3>2, <3>3
    <3> QED
      BY <1>3, <2>1, <3>1, <3>2, <3>3
  <2>4. browse' # "done" \/ ~ctxDone' => p' \o results' = reported'
    BY <1>3, <2>1, <2>2
  <2>5. EntriesInOrder'
    BY <2>3, <2>4 DEF EntriesInOrder, Browser!EntriesInOrder
  <2> QED
    BY <1>4, <2>1, <2>5 DEF StartedOnce
<1>18. CASE Browser!LibraryEnds
  BY <1>4, <1>7, <1>18 DEF Browser!LibraryEnds, StartedOnce
<1>19. CASE ctxDone' \in {TRUE, ctxDone} /\ UNCHANGED browserVars
  <2>1. p' = p /\ results' = results /\ reported' = reported /\ browse' = browse
    BY <1>19 DEF browserVars
  <2> QED
    BY <1>4, <1>7, <1>19, <2>1 DEF browserVars, StartedOnce
<1> QED
  BY <1>8, <1>9, <1>10, <1>11, <1>12, <1>13, <1>14, <1>15, <1>16, <1>17, <1>18, <1>19
     DEF BrowserStep, Browser!Discovery, Browser!Browse, Browser!Library

-----------------------------------------------------------------------------
(* What main holds and what its deferred calls will release.               *)

(* The steps of the start at which a resource is held or a call deferred.  *)
DiscoveryOn == {"monitor", "notify", "wait"}
Serving == {"discovery"} \cup DiscoveryOn
Registered == {"newserver", "startserver"} \cup Serving
Announced == {"addresses"} \cup Registered
Listening == {"port", "register"} \cup Announced
Selected == {"listen"} \cup Listening
Cancellable == {"hostname", "interfaces"} \cup Selected
Logging == {"history", "clipboard"} \cup Cancellable

(* The deferred calls of a node that has started, and the last n of them.  *)
Shutdown == <<"stopPeers", "stopServer", "unregister", "cancel", "closeLogger">>
Remaining(n) == SubSeq(Shutdown, 6 - n, 5)

CallsAt(s) ==
  IF s \in DiscoveryOn THEN 5
  ELSE IF s \in Serving THEN 4
  ELSE IF s \in Registered THEN 3
  ELSE IF s \in Cancellable THEN 2
  ELSE IF s \in Logging THEN 1
  ELSE 0

HeldAt(s) ==
  (IF s \in Logging THEN {"logger"} ELSE {})
    \cup (IF s \in Listening THEN {"listener"} ELSE {})
    \cup (IF s \in Announced THEN {"announcement"} ELSE {})
    \cup (IF s \in Serving THEN {"server"} ELSE {})

(* What the last n deferred calls release.  *)
Owned(n) ==
  (IF n > 0 THEN {"logger"} ELSE {})
    \cup (IF n > 2 THEN {"announcement"} ELSE {})
    \cup (IF n > 3 THEN {"server", "listener"} ELSE {})

(* Of the n calls that are left: at each step of the start they are those  *)
(* of the steps before it; whatever is held while they run, they release;  *)
(* and discovery that has started still has its cancellation to come or    *)
(* behind it.                                                              *)
Releases(n) ==
  /\ deferred = Remaining(n)
  /\ n > 0 => "logger" \in held
  /\ step \in Steps =>
       /\ n = CallsAt(step) /\ held \ {"monitor"} = HeldAt(step)
       /\ ~ctxDone /\ exit = "none"
       /\ discovery # "off" <=> step \in DiscoveryOn
  /\ step = "unwind" =>
       /\ exit \in {"return", "panic"}
       /\ held \ {"monitor"} \subseteq Owned(n)
       /\ discovery # "off" => n >= 2 \/ ctxDone
  /\ step = "gone" /\ exit \in {"return", "panic"} =>
       /\ held \subseteq {"monitor"}
       /\ discovery # "off" => ctxDone

ReleaseInv == \E n \in 0 .. 5 : Releases(n)

(* How many calls are deferred and what is held at each step of the start. *)
LEMMA StepTable ==
  /\ CallsAt("config") = 0 /\ HeldAt("config") = {}
  /\ CallsAt("logger") = 0 /\ HeldAt("logger") = {}
  /\ CallsAt("history") = 1 /\ HeldAt("history") = {"logger"}
  /\ CallsAt("clipboard") = 1 /\ HeldAt("clipboard") = {"logger"}
  /\ CallsAt("hostname") = 2 /\ HeldAt("hostname") = {"logger"}
  /\ CallsAt("interfaces") = 2 /\ HeldAt("interfaces") = {"logger"}
  /\ CallsAt("listen") = 2 /\ HeldAt("listen") = {"logger"}
  /\ CallsAt("port") = 2 /\ HeldAt("port") = {"logger", "listener"}
  /\ CallsAt("register") = 2 /\ HeldAt("register") = {"logger", "listener"}
  /\ CallsAt("addresses") = 2 /\ HeldAt("addresses") = {"logger", "listener", "announcement"}
  /\ CallsAt("newserver") = 3 /\ HeldAt("newserver") = {"logger", "listener", "announcement"}
  /\ CallsAt("startserver") = 3 /\ HeldAt("startserver") = {"logger", "listener", "announcement"}
  /\ CallsAt("discovery") = 4 /\ HeldAt("discovery") = {"logger", "listener", "announcement", "server"}
  /\ CallsAt("monitor") = 5 /\ HeldAt("monitor") = {"logger", "listener", "announcement", "server"}
  /\ CallsAt("notify") = 5 /\ HeldAt("notify") = {"logger", "listener", "announcement", "server"}
  /\ CallsAt("wait") = 5 /\ HeldAt("wait") = {"logger", "listener", "announcement", "server"}
BY DEF CallsAt, HeldAt, DiscoveryOn, Serving, Registered, Announced, Listening, Selected,
       Cancellable, Logging

(* The last n deferred calls: the first of them, and the n - 1 after it. *)
LEMMA RemainingCalls ==
  /\ Remaining(0) = <<>>
  /\ Remaining(5) = Shutdown
  /\ \A n \in 0 .. 5 : Remaining(n) \in Seq(Deferred) /\ Len(Remaining(n)) = n
  /\ \A n \in 1 .. 5 :
       /\ Remaining(n) # <<>>
       /\ Head(Remaining(n)) = Shutdown[6 - n]
       /\ Tail(Remaining(n)) = Remaining(n - 1)
       /\ Remaining(n) = <<Shutdown[6 - n]>> \o Remaining(n - 1)
<1>1. Shutdown \in Seq(Deferred) /\ Len(Shutdown) = 5
  BY DEF Shutdown, Deferred
<1>2. Remaining(0) = <<>>
  BY <1>1, SubSeqEmpty DEF Remaining
<1>3. Remaining(5) = Shutdown
  BY <1>1, SubSeqFull DEF Remaining
<1>4. ASSUME NEW n \in 0 .. 5 PROVE Remaining(n) \in Seq(Deferred) /\ Len(Remaining(n)) = n
  <2>1. 6 - n \in Int /\ 5 \in Int /\ 5 - (6 - n) + 1 = n
    OBVIOUS
  <2>2. \A i \in 6 - n .. 5 : Shutdown[i] \in Deferred
    <3>1. \A i \in 1 .. 5 : Shutdown[i] \in Deferred
      BY DEF Shutdown, Deferred
    <3> QED
      BY <3>1
  <2>3. /\ SubSeq(Shutdown, 6 - n, 5) \in Seq(Deferred)
        /\ Len(SubSeq(Shutdown, 6 - n, 5)) = IF 6 - n <= 5 THEN 5 - (6 - n) + 1 ELSE 0
    BY <2>1, <2>2, SubSeqProperties
  <2>4. Len(SubSeq(Shutdown, 6 - n, 5)) = n
    BY <2>1, <2>3
  <2> QED
    BY <2>3, <2>4 DEF Remaining
<1>5. ASSUME NEW n \in 1 .. 5
      PROVE  /\ Remaining(n) # <<>>
             /\ Head(Remaining(n)) = Shutdown[6 - n]
             /\ Tail(Remaining(n)) = Remaining(n - 1)
             /\ Remaining(n) = <<Shutdown[6 - n]>> \o Remaining(n - 1)
  <2>1. n \in 0 .. 5 /\ Len(Remaining(n)) = n
    <3>1. n \in 0 .. 5
      OBVIOUS
    <3> QED
      BY <1>4, <3>1
  <2>2. (6 - n) + 1 = 6 - (n - 1) /\ 6 - n \in 1 .. 5
    OBVIOUS
  <2>3. Head(Remaining(n)) = Shutdown[6 - n] /\ Tail(Remaining(n)) = Remaining(n - 1)
    BY <1>1, <2>2, HeadTailOfSubSeq DEF Remaining
  <2>4. Remaining(n) = <<Shutdown[6 - n]>> \o Remaining(n - 1)
    BY <1>1, <2>2, SubSeqRecursiveFirst DEF Remaining
  <2>5. Len(<<>>) = 0
    OBVIOUS
  <2>6. Remaining(n) # <<>>
    BY <2>1, <2>5
  <2> QED
    BY <2>3, <2>4, <2>6
<1> QED
  BY <1>2, <1>3, <1>4, <1>5

(* The last calls that are left, by number. *)
LEMMA NextCall ==
  ASSUME NEW n \in 1 .. 5
  PROVE  /\ Head(Remaining(n)) = "stopPeers" <=> n = 5
         /\ Head(Remaining(n)) = "stopServer" <=> n = 4
         /\ Head(Remaining(n)) = "unregister" <=> n = 3
         /\ Head(Remaining(n)) = "cancel" <=> n = 2
         /\ Head(Remaining(n)) = "closeLogger" <=> n = 1
<1>1. Head(Remaining(n)) = Shutdown[6 - n]
  BY RemainingCalls
<1>2. n \in {1, 2, 3, 4, 5}
  OBVIOUS
<1>3. /\ Shutdown[1] = "stopPeers" /\ Shutdown[2] = "stopServer" /\ Shutdown[3] = "unregister"
      /\ Shutdown[4] = "cancel" /\ Shutdown[5] = "closeLogger"
  BY DEF Shutdown
<1> QED
  BY <1>1, <1>2, <1>3

(* Deferring a call puts it before those that are left. *)
LEMMA DeferOne ==
  /\ <<"closeLogger">> \o Remaining(0) = Remaining(1)
  /\ <<"cancel">> \o Remaining(1) = Remaining(2)
  /\ <<"unregister">> \o Remaining(2) = Remaining(3)
  /\ <<"stopServer">> \o Remaining(3) = Remaining(4)
  /\ <<"stopPeers">> \o Remaining(4) = Remaining(5)
  /\ \A n \in 0 .. 5 : <<>> \o Remaining(n) = Remaining(n)
<1>1. ASSUME NEW n \in 1 .. 5 PROVE Remaining(n) = <<Shutdown[6 - n]>> \o Remaining(n - 1)
  BY RemainingCalls
<1>2. Remaining(1) = <<Shutdown[5]>> \o Remaining(0)
  BY <1>1, 1 \in 1 .. 5, 6 - 1 = 5, 1 - 1 = 0
<1>3. Remaining(2) = <<Shutdown[4]>> \o Remaining(1)
  BY <1>1, 2 \in 1 .. 5, 6 - 2 = 4, 2 - 1 = 1
<1>4. Remaining(3) = <<Shutdown[3]>> \o Remaining(2)
  BY <1>1, 3 \in 1 .. 5, 6 - 3 = 3, 3 - 1 = 2
<1>5. Remaining(4) = <<Shutdown[2]>> \o Remaining(3)
  BY <1>1, 4 \in 1 .. 5, 6 - 4 = 2, 4 - 1 = 3
<1>6. Remaining(5) = <<Shutdown[1]>> \o Remaining(4)
  BY <1>1, 5 \in 1 .. 5, 6 - 5 = 1, 5 - 1 = 4
<1>7. /\ Shutdown[5] = "closeLogger" /\ Shutdown[4] = "cancel" /\ Shutdown[3] = "unregister"
      /\ Shutdown[2] = "stopServer" /\ Shutdown[1] = "stopPeers"
  BY DEF Shutdown
<1>8. \A n \in 0 .. 5 : <<>> \o Remaining(n) = Remaining(n)
  BY RemainingCalls, ConcatEmptySeq
<1> QED
  BY <1>2, <1>3, <1>4, <1>5, <1>6, <1>7, <1>8

(* A step of discovery neither starts it nor cancels the context.          *)
LEMMA DiscoveryStays ==
  ASSUME Browser!Discovery \/ Browser!Browse \/ Browser!Library
  PROVE  ctxDone' = ctxDone /\ (discovery' # "off" <=> discovery # "off")
BY DEF Browser!Discovery, Browser!Browse, Browser!Library, Browser!CreateBrowser,
       Browser!TakeEntry, Browser!DiscoveryEnds, Browser!FindsClosed, Browser!StartsBrowsing,
       Browser!TakeResult, Browser!Forward, Browser!BrowseEnds, Browser!LibraryEnds,
       Browser!Report

(* Each step of the start that succeeds: main holds what it held and what  *)
(* it acquired, and has deferred what releases it.                         *)
AtStep(s) ==
  /\ step = s
  /\ deferred = Remaining(CallsAt(s)) /\ held \ {"monitor"} = HeldAt(s)
  /\ ~ctxDone /\ exit = "none"
  /\ discovery # "off" <=> s \in DiscoveryOn

(* At a step of the start the invariant is AtStep. *)
LEMMA ReleaseAtStep ==
  /\ ReleaseInv /\ step \in Steps => AtStep(step)
  /\ \A s \in Steps : AtStep(s)' => ReleaseInv' /\ step' \in Steps
<1>1. ASSUME ReleaseInv, step \in Steps PROVE AtStep(step)
  BY <1>1 DEF ReleaseInv, Releases, AtStep
<1>2. ASSUME NEW s \in Steps, AtStep(s)' PROVE ReleaseInv' /\ step' \in Steps
  <2>1. CallsAt(s) \in 0 .. 5 /\ (CallsAt(s) > 0 => "logger" \in HeldAt(s)) /\ s \notin {"unwind", "gone"}
    BY StepTable, StartSteps
  <2>2. /\ step' = s /\ deferred' = Remaining(CallsAt(s)) /\ held' \ {"monitor"} = HeldAt(s)
        /\ ~ctxDone' /\ exit' = "none" /\ (discovery' # "off" <=> s \in DiscoveryOn)
    BY <1>2 DEF AtStep
  <2>3. CallsAt(s) > 0 => "logger" \in held'
    BY <2>1, <2>2
  <2>4. Releases(CallsAt(s))'
    BY <2>1, <2>2, <2>3 DEF Releases
  <2> QED
    BY <2>1, <2>2, <2>4 DEF ReleaseInv
<1> QED
  BY <1>1, <1>2

(* A step of the start that succeeds leads to the invariant at the next. *)
LEMMA StartsRelease ==
  ASSUME ReleaseInv, Starts
  PROVE  ReleaseInv' /\ step' \in Steps
<1>1. ASSUME NEW s \in Steps, AtStep(s)' PROVE ReleaseInv' /\ step' \in Steps
  BY <1>1, ReleaseAtStep
<1>2. ASSUME step \in Steps PROVE AtStep(step)
  BY <1>2, ReleaseAtStep
<1>3. ASSUME NEW s \in {"config", "history", "hostname", "port", "newserver", "notify"},
             Passes(s, {}, <<>>), UNCHANGED browserVars
      PROVE  ReleaseInv' /\ step' \in Steps
  <2>1. /\ step = s /\ step' = Following(s) /\ held' = held \cup {} /\ deferred' = <<>> \o deferred
        /\ UNCHANGED <<exit, ctxDone, discovery>>
    BY <1>3 DEF Passes, browserVars
  <2>2. s \in Steps /\ CallsAt(s) \in 0 .. 5
    BY StepTable, StartSteps
  <2>3. AtStep(s)
    BY <1>2, <2>1, <2>2
  <2>4. Following(s) \in Steps
    BY FollowingSteps, StartSteps
  <2>5. CallsAt(Following(s)) = CallsAt(s) /\ HeldAt(Following(s)) = HeldAt(s)
    BY FollowingSteps, StepTable
  <2>6. Following(s) \in DiscoveryOn <=> s \in DiscoveryOn
    BY FollowingSteps DEF DiscoveryOn
  <2>7. deferred' = deferred
    BY <2>1, <2>2, <2>3, DeferOne DEF AtStep
  <2>8. AtStep(Following(s))'
    BY <2>1, <2>3, <2>5, <2>6, <2>7 DEF AtStep
  <2> QED
    BY <1>1, <2>4, <2>8
<1>4. CASE PlainStep
  BY <1>3, <1>4 DEF PlainStep
<1>5. CASE OpenLogger
  <2>1. /\ step = "logger" /\ step' = Following("logger") /\ held' = held \cup {"logger"}
        /\ deferred' = <<"closeLogger">> \o deferred /\ UNCHANGED <<exit, ctxDone, discovery>>
    BY <1>5 DEF OpenLogger, Passes, browserVars
  <2>2. step' = "history" /\ "logger" \in Steps /\ "history" \in Steps
    BY <2>1, FollowingSteps, StartSteps
  <2>3. AtStep("logger")
    BY <1>2, <2>1, <2>2
  <2>4. deferred' = Remaining(1)
    BY <2>1, <2>3, StepTable, DeferOne DEF AtStep
  <2>5. AtStep("history")'
    BY <2>1, <2>2, <2>3, <2>4, StepTable DEF AtStep, DiscoveryOn
  <2> QED
    BY <1>1, <2>2, <2>5
<1>6. CASE MakeContext
  <2>1. /\ step = "clipboard" /\ step' = Following("clipboard") /\ held' = held \cup {}
        /\ deferred' = <<"cancel">> \o deferred /\ UNCHANGED <<exit, ctxDone, discovery>>
    BY <1>6 DEF MakeContext, Passes, browserVars
  <2>2. step' = "hostname" /\ "clipboard" \in Steps /\ "hostname" \in Steps
    BY <2>1, FollowingSteps, StartSteps
  <2>3. AtStep("clipboard")
    BY <1>2, <2>1, <2>2
  <2>4. deferred' = Remaining(2)
    BY <2>1, <2>3, StepTable, DeferOne DEF AtStep
  <2>5. AtStep("hostname")'
    BY <2>1, <2>2, <2>3, <2>4, StepTable DEF AtStep, DiscoveryOn
  <2> QED
    BY <1>1, <2>2, <2>5
<1>7. CASE selectInterfaces
  <2>1. /\ step = "interfaces" /\ step' = Following("interfaces") /\ held' = held \cup {}
        /\ deferred' = <<>> \o deferred /\ UNCHANGED <<exit, ctxDone, discovery>>
    BY <1>7 DEF selectInterfaces, Passes, browserVars
  <2>2. step' = "listen" /\ "interfaces" \in Steps /\ "listen" \in Steps
    BY <2>1, FollowingSteps, StartSteps
  <2>3. AtStep("interfaces")
    BY <1>2, <2>1, <2>2
  <2>4. deferred' = Remaining(2)
    BY <2>1, <2>3, StepTable, DeferOne DEF AtStep
  <2>5. AtStep("listen")'
    BY <2>1, <2>2, <2>3, <2>4, StepTable DEF AtStep, DiscoveryOn
  <2> QED
    BY <1>1, <2>2, <2>5
<1>8. CASE Listen
  <2>1. /\ step = "listen" /\ step' = Following("listen") /\ held' = held \cup {"listener"}
        /\ deferred' = <<>> \o deferred /\ UNCHANGED <<exit, ctxDone, discovery>>
    BY <1>8 DEF Listen, Passes, browserVars
  <2>2. step' = "port" /\ "listen" \in Steps /\ "port" \in Steps
    BY <2>1, FollowingSteps, StartSteps
  <2>3. AtStep("listen")
    BY <1>2, <2>1, <2>2
  <2>4. deferred' = Remaining(2)
    BY <2>1, <2>3, StepTable, DeferOne DEF AtStep
  <2>5. AtStep("port")'
    BY <2>1, <2>2, <2>3, <2>4, StepTable DEF AtStep, DiscoveryOn
  <2> QED
    BY <1>1, <2>2, <2>5
<1>9. CASE Register
  <2>1. /\ step = "register" /\ step' = Following("register") /\ held' = held \cup {"announcement"}
        /\ deferred' = <<>> \o deferred /\ UNCHANGED <<exit, ctxDone, discovery>>
    BY <1>9 DEF Register, Passes, browserVars
  <2>2. step' = "addresses" /\ "register" \in Steps /\ "addresses" \in Steps
    BY <2>1, FollowingSteps, StartSteps
  <2>3. AtStep("register")
    BY <1>2, <2>1, <2>2
  <2>4. deferred' = Remaining(2)
    BY <2>1, <2>3, StepTable, DeferOne DEF AtStep
  <2>5. AtStep("addresses")'
    BY <2>1, <2>2, <2>3, <2>4, StepTable DEF AtStep, DiscoveryOn
  <2> QED
    BY <1>1, <2>2, <2>5
<1>10. CASE ReadAddresses
  <2>1. /\ step = "addresses" /\ step' = Following("addresses") /\ held' = held \cup {}
        /\ deferred' = <<"unregister">> \o deferred /\ UNCHANGED <<exit, ctxDone, discovery>>
    BY <1>10 DEF ReadAddresses, Passes, browserVars
  <2>2. step' = "newserver" /\ "addresses" \in Steps /\ "newserver" \in Steps
    BY <2>1, FollowingSteps, StartSteps
  <2>3. AtStep("addresses")
    BY <1>2, <2>1, <2>2
  <2>4. deferred' = Remaining(3)
    BY <2>1, <2>3, StepTable, DeferOne DEF AtStep
  <2>5. AtStep("newserver")'
    BY <2>1, <2>2, <2>3, <2>4, StepTable DEF AtStep, DiscoveryOn
  <2> QED
    BY <1>1, <2>2, <2>5
<1>11. CASE StartServer
  <2>1. /\ step = "startserver" /\ step' = Following("startserver") /\ held' = held \cup {"server"}
        /\ deferred' = <<"stopServer">> \o deferred /\ UNCHANGED <<exit, ctxDone, discovery>>
    BY <1>11 DEF StartServer, Passes, browserVars
  <2>2. step' = "discovery" /\ "startserver" \in Steps /\ "discovery" \in Steps
    BY <2>1, FollowingSteps, StartSteps
  <2>3. AtStep("startserver")
    BY <1>2, <2>1, <2>2
  <2>4. deferred' = Remaining(4)
    BY <2>1, <2>3, StepTable, DeferOne DEF AtStep
  <2>5. AtStep("discovery")'
    BY <2>1, <2>2, <2>3, <2>4, StepTable DEF AtStep, DiscoveryOn
  <2> QED
    BY <1>1, <2>2, <2>5
<1>12. CASE StartDiscovery
  <2>1. /\ step = "discovery" /\ step' = Following("discovery") /\ held' = held \cup {}
        /\ deferred' = <<"stopPeers">> \o deferred /\ UNCHANGED <<exit, ctxDone>> /\ discovery' = "create"
    BY <1>12 DEF StartDiscovery, Passes, Browser!StartDiscovery
  <2>2. step' = "monitor" /\ "discovery" \in Steps /\ "monitor" \in Steps
    BY <2>1, FollowingSteps, StartSteps
  <2>3. AtStep("discovery")
    BY <1>2, <2>1, <2>2
  <2>4. deferred' = Remaining(5)
    BY <2>1, <2>3, StepTable, DeferOne DEF AtStep
  <2>5. AtStep("monitor")'
    BY <2>1, <2>2, <2>3, <2>4, StepTable DEF AtStep, DiscoveryOn
  <2> QED
    BY <1>1, <2>2, <2>5
<1>13. CASE StartMonitor
  <2>1. /\ step = "monitor" /\ step' = Following("monitor") /\ held' \ {"monitor"} = held \ {"monitor"}
        /\ deferred' = <<>> \o deferred /\ UNCHANGED <<exit, ctxDone, discovery>>
    BY <1>13 DEF StartMonitor, Passes, browserVars
  <2>2. step' = "notify" /\ "monitor" \in Steps /\ "notify" \in Steps
    BY <2>1, FollowingSteps, StartSteps
  <2>3. AtStep("monitor")
    BY <1>2, <2>1, <2>2
  <2>4. deferred' = Remaining(5)
    BY <2>1, <2>3, StepTable, DeferOne DEF AtStep
  <2>5. AtStep("notify")'
    BY <2>1, <2>2, <2>3, <2>4, StepTable DEF AtStep, DiscoveryOn
  <2> QED
    BY <1>1, <2>2, <2>5
<1> QED
  BY <1>4, <1>5, <1>6, <1>7, <1>8, <1>9, <1>10, <1>11, <1>12, <1>13 DEF Starts

(* A step of the start that fails, and a signal. *)
LEMMA FailsRelease ==
  ASSUME ReleaseInv, LoggerFails \/ EarlyStepFails \/ LateStepFails \/ Signal
  PROVE  ReleaseInv' /\ step' \in {"wait", "unwind", "gone"}
<1>1. PICK n \in 0 .. 5 : Releases(n)
  BY DEF ReleaseInv
<1>2. {"unwind", "gone"} \cap Steps = {} /\ "wait" \in Steps
  BY StartSteps
<1>3. ASSUME NEW s \in Steps, step = s
      PROVE  /\ deferred = Remaining(n) /\ n = CallsAt(s) /\ held \ {"monitor"} = HeldAt(s)
             /\ n > 0 => "logger" \in held
             /\ ~ctxDone /\ exit = "none" /\ (discovery # "off" <=> s \in DiscoveryOn)
  BY <1>1, <1>3 DEF Releases
\* A panic at a step of the start, with what is then held.
<1>4. ASSUME NEW s \in Steps, step = s, s \notin DiscoveryOn,
             step' = "unwind", exit' = "panic", UNCHANGED <<deferred, ctxDone, discovery>>,
             n > 0 => "logger" \in held', held' \ {"monitor"} \subseteq Owned(n)
      PROVE  ReleaseInv'
  <2>1. Releases(n)'
    BY <1>2, <1>3, <1>4 DEF Releases
  <2> QED
    BY <2>1 DEF ReleaseInv
<1>5. CASE LoggerFails
  <2>1. Releases(n)' /\ step' = "gone"
    BY <1>1, <1>2, <1>5 DEF LoggerFails, Fails, Releases
  <2> QED
    BY <2>1 DEF ReleaseInv
<1>6. CASE EarlyStepFails
  <2>1. PICK s \in {"config", "history", "clipboard", "hostname", "interfaces", "listen"} : step = s
    BY <1>6 DEF EarlyStepFails
  <2>2. s \in Steps /\ s \notin DiscoveryOn
    BY StartSteps DEF DiscoveryOn
  <2>3. HeldAt(s) = IF CallsAt(s) > 0 THEN {"logger"} ELSE {}
    BY StepTable
  <2>4. n = CallsAt(s) /\ held \ {"monitor"} = HeldAt(s) /\ (n > 0 => "logger" \in held)
    BY <1>3, <2>1, <2>2
  <2>5. held \ {"monitor"} \subseteq Owned(n)
    BY <2>3, <2>4 DEF Owned
  <2>6. step' = "unwind" /\ exit' = "panic" /\ UNCHANGED <<held, deferred, ctxDone, discovery>>
    BY <1>6 DEF EarlyStepFails, Fails, browserVars
  <2> QED
    BY <1>4, <2>1, <2>2, <2>4, <2>5, <2>6
<1>7. CASE LateStepFails
  <2>1. PICK s \in {"port", "register", "newserver", "startserver"} : step = s
    BY <1>7 DEF LateStepFails
  <2>2. s \in Steps /\ s \notin DiscoveryOn
    BY StartSteps DEF DiscoveryOn
  <2>3. /\ CallsAt(s) \in {2, 3}
        /\ HeldAt(s) \subseteq {"logger", "listener"} \cup (IF CallsAt(s) > 2 THEN {"announcement"} ELSE {})
    BY StepTable
  <2>4. n = CallsAt(s) /\ held \ {"monitor"} = HeldAt(s) /\ (n > 0 => "logger" \in held)
    BY <1>3, <2>1, <2>2
  <2>5. /\ step' = "unwind" /\ exit' = "panic" /\ held' = held \ {"listener"}
        /\ UNCHANGED <<deferred, ctxDone, discovery>>
    BY <1>7 DEF LateStepFails, Fails, Released, browserVars
  <2>6. held' \ {"monitor"} \subseteq Owned(n) /\ (n > 0 => "logger" \in held')
    BY <2>3, <2>4, <2>5 DEF Owned
  <2> QED
    BY <1>4, <2>1, <2>2, <2>5, <2>6
<1>8. CASE Signal
  <2>1. UNCHANGED <<deferred, held, ctxDone, discovery>>
    BY <1>8 DEF Signal, browserVars
  <2>2. CASE step = "wait" /\ UNCHANGED <<step, exit>>
    <3>1. Releases(n)'
      BY <1>1, <2>1, <2>2 DEF Releases
    <3> QED
      BY <2>2, <3>1 DEF ReleaseInv
  <2>3. CASE step' = "gone" /\ exit' = "killed"
    <3>1. Releases(n)'
      BY <1>1, <1>2, <2>1, <2>3 DEF Releases
    <3> QED
      BY <2>3, <3>1 DEF ReleaseInv
  <2> QED
    BY <1>8, <2>2, <2>3 DEF Signal
<1> QED
  BY <1>5, <1>6, <1>7, <1>8 DEF LoggerFails, EarlyStepFails, LateStepFails, Fails

(* The end of main: each deferred call releases what was acquired last. *)
LEMMA EndsRelease ==
  ASSUME ReleaseInv, Quit \/ Unwinds
  PROVE  ReleaseInv' /\ step' \in {"unwind", "gone"}
<1>1. PICK n \in 0 .. 5 : Releases(n)
  BY DEF ReleaseInv
<1>2. {"unwind", "gone"} \cap Steps = {} /\ "wait" \in Steps
  BY StartSteps
<1>3. CASE Quit
  <2>1. /\ step = "wait" /\ step' = "unwind" /\ exit' = "return" /\ ctxDone' = TRUE
        /\ UNCHANGED <<deferred, held, discovery>>
    BY <1>3 DEF Quit, browserVars
  <2>2. AtStep("wait")
    BY <1>2, <2>1, ReleaseAtStep
  <2>3. /\ deferred' = Remaining(5)
        /\ held' \ {"monitor"} = {"logger", "listener", "announcement", "server"}
    BY <2>1, <2>2, StepTable DEF AtStep
  <2>4. "logger" \in held' /\ held' \ {"monitor"} \subseteq Owned(5)
    BY <2>3 DEF Owned
  <2>5. Releases(5)'
    BY <1>2, <2>1, <2>3, <2>4 DEF Releases
  <2> QED
    BY <2>1, <2>5 DEF ReleaseInv
<1>4. ASSUME NEW call, NEW released, RunsDeferred(call, released)
      PROVE  /\ n \in 1 .. 5 /\ Head(Remaining(n)) = call
             /\ deferred' = Remaining(n - 1) /\ held' = held \ released
             /\ step = "unwind" /\ UNCHANGED <<step, exit, discovery>>
  <2>1. deferred = Remaining(n) /\ deferred # <<>>
    BY <1>1, <1>4 DEF Releases, RunsDeferred
  <2>2. n # 0
    BY <2>1, RemainingCalls
  <2>3. n \in 1 .. 5
    BY <2>2
  <2>4. Tail(Remaining(n)) = Remaining(n - 1)
    BY <2>3, RemainingCalls
  <2> QED
    BY <1>4, <2>1, <2>3, <2>4 DEF RunsDeferred, browserVars
\* What is left to show of a deferred call.
<1>5. ASSUME n \in 1 .. 5, deferred' = Remaining(n - 1),
             step = "unwind", UNCHANGED <<step, exit, discovery>>,
             n - 1 > 0 => "logger" \in held',
             held' \ {"monitor"} \subseteq Owned(n - 1),
             ctxDone => ctxDone', n = 2 => ctxDone'
      PROVE  ReleaseInv' /\ step' = "unwind"
  <2>1. n - 1 \in 0 .. 5
    BY <1>5
  <2>2. exit \in {"return", "panic"} /\ (discovery # "off" => n >= 2 \/ ctxDone)
    BY <1>1, <1>5 DEF Releases
  <2>3. discovery' # "off" => n - 1 >= 2 \/ ctxDone'
    BY <1>5, <2>2
  <2>4. Releases(n - 1)'
    BY <1>2, <1>5, <2>2, <2>3 DEF Releases
  <2> QED
    BY <1>5, <2>1, <2>4 DEF ReleaseInv
<1>6. ASSUME step = "unwind"
      PROVE  (n > 0 => "logger" \in held) /\ held \ {"monitor"} \subseteq Owned(n)
  BY <1>1, <1>6 DEF Releases
<1>7. CASE StopPeers
  <2>1. RunsDeferred("stopPeers", {}) /\ ctxDone' = ctxDone
    BY <1>7 DEF StopPeers
  <2>2. n = 5 /\ held' = held \ {} /\ step = "unwind"
    BY <1>4, <2>1, NextCall
  <2>3. (n - 1 > 0 => "logger" \in held') /\ held' \ {"monitor"} \subseteq Owned(n - 1)
    BY <1>6, <2>2 DEF Owned
  <2> QED
    BY <1>4, <1>5, <2>1, <2>2, <2>3
<1>8. CASE StopServer
  <2>1. RunsDeferred("stopServer", {"server", "listener"}) /\ ctxDone' = ctxDone
    BY <1>8 DEF StopServer
  <2>2. n = 4 /\ held' = held \ {"server", "listener"} /\ step = "unwind"
    BY <1>4, <2>1, NextCall
  <2>3. (n - 1 > 0 => "logger" \in held') /\ held' \ {"monitor"} \subseteq Owned(n - 1)
    BY <1>6, <2>2 DEF Owned
  <2> QED
    BY <1>4, <1>5, <2>1, <2>2, <2>3
<1>9. CASE Unregister
  <2>1. RunsDeferred("unregister", {"announcement"}) /\ ctxDone' = ctxDone
    BY <1>9 DEF Unregister
  <2>2. n = 3 /\ held' = held \ {"announcement"} /\ step = "unwind"
    BY <1>4, <2>1, NextCall
  <2>3. (n - 1 > 0 => "logger" \in held') /\ held' \ {"monitor"} \subseteq Owned(n - 1)
    BY <1>6, <2>2 DEF Owned
  <2> QED
    BY <1>4, <1>5, <2>1, <2>2, <2>3
<1>10. CASE CancelContext
  <2>1. RunsDeferred("cancel", {}) /\ ctxDone' = TRUE
    BY <1>10 DEF CancelContext
  <2>2. n = 2 /\ held' = held \ {} /\ step = "unwind"
    BY <1>4, <2>1, NextCall
  <2>3. (n - 1 > 0 => "logger" \in held') /\ held' \ {"monitor"} \subseteq Owned(n - 1)
    BY <1>6, <2>2 DEF Owned
  <2> QED
    BY <1>4, <1>5, <2>1, <2>2, <2>3
<1>11. CASE CloseLogger
  <2>1. RunsDeferred("closeLogger", {"logger"}) /\ ctxDone' = ctxDone
    BY <1>11 DEF CloseLogger
  <2>2. n = 1 /\ held' = held \ {"logger"} /\ step = "unwind"
    BY <1>4, <2>1, NextCall
  <2>3. (n - 1 > 0 => "logger" \in held') /\ held' \ {"monitor"} \subseteq Owned(n - 1)
    BY <1>6, <2>2 DEF Owned
  <2> QED
    BY <1>4, <1>5, <2>1, <2>2, <2>3
<1>12. CASE ProcessEnds
  <2>1. deferred = Remaining(n) /\ deferred = <<>>
    BY <1>1, <1>12 DEF Releases, ProcessEnds
  <2>2. n = 0
    <3>1. n \notin 1 .. 5
      BY <2>1, RemainingCalls
    <3> QED
      BY <3>1
  <2>3. /\ step = "unwind" /\ step' = "gone"
        /\ UNCHANGED <<exit, deferred, held, ctxDone, discovery>>
    BY <1>12 DEF ProcessEnds, browserVars
  <2>4. held \ {"monitor"} \subseteq {} /\ (discovery # "off" => ctxDone)
    BY <1>1, <2>2, <2>3 DEF Releases, Owned
  <2>5. /\ step' \notin Steps /\ step' # "unwind" /\ ~(n > 0)
        /\ deferred' = Remaining(n) /\ held' \subseteq {"monitor"} /\ (discovery' # "off" => ctxDone')
    BY <1>2, <2>1, <2>2, <2>3, <2>4
  <2>6. Releases(n)'
    BY <2>5 DEF Releases
  <2> QED
    BY <2>3, <2>6 DEF ReleaseInv
<1> QED
  BY <1>3, <1>7, <1>8, <1>9, <1>10, <1>11, <1>12 DEF Unwinds

(* Every step of the node. *)
LEMMA NextRelease ==
  ASSUME ReleaseInv, [Next]_vars
  PROVE  ReleaseInv' /\ (step' = step \/ step' \in Steps \cup {"unwind", "gone"})
<1>1. ASSUME UNCHANGED <<step, exit, deferred, held, ctxDone>>, discovery' # "off" <=> discovery # "off"
      PROVE  ReleaseInv' /\ step' = step
  <2>1. PICK n \in 0 .. 5 : Releases(n)
    BY DEF ReleaseInv
  <2>2. Releases(n)'
    BY <1>1, <2>1 DEF Releases
  <2> QED
    BY <1>1, <2>2 DEF ReleaseInv
<1>2. CASE Starts
  BY <1>2, StartsRelease
<1>3. CASE LoggerFails \/ EarlyStepFails \/ LateStepFails \/ Signal
  BY <1>3, FailsRelease, StartSteps
<1>4. CASE Quit \/ Unwinds
  BY <1>4, EndsRelease
<1>5. CASE InterfaceChanges
  BY <1>1, <1>5 DEF InterfaceChanges, mainVars, browserVars
<1>6. CASE DiscoveryRuns \/ BrowseRuns \/ LibraryRuns
  BY <1>1, <1>6, DiscoveryStays DEF DiscoveryRuns, BrowseRuns, LibraryRuns, mainVars
<1>7. CASE UNCHANGED vars
  BY <1>1, <1>7 DEF vars, mainVars, browserVars
<1> QED
  BY <1>2, <1>3, <1>4, <1>5, <1>6, <1>7 DEF Next

-----------------------------------------------------------------------------
(* The addresses of the node.                                              *)

(* While the interfaces have not changed, those that were selected have an *)
(* address other nodes can use, and so has localServiceInfo once it is     *)
(* read.                                                                   *)
AddrInv ==
  step \in Selected /\ changes = 0 =>
    /\ selected # {} /\ \A i \in selected : net[i].addrs \ LinkLocal # {}
    /\ step \in Registered => localAddrs \ LinkLocal # {}

(* No step of the node takes the addresses away. *)
LEMMA NextAddr ==
  ASSUME AddrInv, changes \in Nat, [Next]_vars
  PROVE  AddrInv'
<1> USE DEF Selected, Listening, Announced, Registered, Serving, DiscoveryOn
<1>1. ASSUME UNCHANGED <<serviceVars, netVars>>, step' \in Selected => step \in Selected,
             step' \in Registered => step \in Registered
      PROVE  AddrInv'
  BY <1>1 DEF AddrInv, serviceVars, netVars
<1>2. ASSUME NEW s, NEW acquired, NEW deferring, Passes(s, acquired, deferring)
      PROVE  step = s /\ step' = Following(s) /\ UNCHANGED netVars
  BY <1>2 DEF Passes
<1>3. CASE PlainStep
  <2>1. PICK s \in {"config", "history", "hostname", "port", "newserver", "notify"} : Passes(s, {}, <<>>)
    BY <1>3 DEF PlainStep
  <2>2. step = s /\ step' = Following(s) /\ UNCHANGED <<serviceVars, netVars>>
    BY <1>2, <1>3, <2>1 DEF PlainStep
  <2> QED
    BY <1>1, <2>2, FollowingSteps
<1>4. CASE OpenLogger
  BY <1>1, <1>2, <1>4, FollowingSteps DEF OpenLogger
<1>5. CASE MakeContext
  BY <1>1, <1>2, <1>5, FollowingSteps DEF MakeContext
<1>6. CASE selectInterfaces
  <2>1. /\ step' = "listen" /\ UNCHANGED netVars
        /\ selected' = {i \in Interface : Suitable(i)} /\ selected' # {}
    BY <1>2, <1>6, FollowingSteps DEF selectInterfaces
  <2>2. \A i \in selected' : net'[i].addrs \ LinkLocal # {}
    BY <2>1 DEF Suitable, netVars
  <2> QED
    BY <2>1, <2>2 DEF AddrInv
<1>7. CASE Listen
  BY <1>1, <1>2, <1>7, FollowingSteps DEF Listen
<1>8. CASE Register
  BY <1>1, <1>2, <1>8, FollowingSteps DEF Register
<1>9. CASE ReadAddresses
  <2>1. /\ step = "addresses" /\ step' = "newserver" /\ UNCHANGED <<net, changes, selected>>
        /\ localAddrs' = UNION {net[i].addrs : i \in selected}
    BY <1>2, <1>9, FollowingSteps DEF ReadAddresses, netVars
  <2>2. ASSUME changes = 0 PROVE localAddrs' \ LinkLocal # {}
    <3>1. PICK i \in selected : net[i].addrs \ LinkLocal # {}
      BY <2>1, <2>2 DEF AddrInv
    <3>2. net[i].addrs \subseteq localAddrs'
      BY <2>1
    <3> QED
      BY <3>1, <3>2
  <2> QED
    BY <2>1, <2>2 DEF AddrInv
<1>10. CASE StartServer
  BY <1>1, <1>2, <1>10, FollowingSteps DEF StartServer
<1>11. CASE StartDiscovery
  BY <1>1, <1>2, <1>11, FollowingSteps DEF StartDiscovery
<1>12. CASE StartMonitor
  BY <1>1, <1>2, <1>12, FollowingSteps DEF StartMonitor
<1>13. CASE LoggerFails \/ EarlyStepFails \/ LateStepFails
  BY <1>1, <1>13 DEF LoggerFails, EarlyStepFails, LateStepFails, Fails
<1>14. CASE Signal
  BY <1>1, <1>14 DEF Signal
<1>15. CASE Quit
  BY <1>1, <1>15 DEF Quit
<1>16. CASE Unwinds
  BY <1>1, <1>16 DEF Unwinds, StopPeers, StopServer, Unregister, CancelContext, CloseLogger,
                     ProcessEnds, RunsDeferred
<1>17. CASE InterfaceChanges
  BY <1>17 DEF InterfaceChanges, AddrInv
<1>18. CASE DiscoveryRuns \/ BrowseRuns \/ LibraryRuns
  BY <1>1, <1>18 DEF DiscoveryRuns, BrowseRuns, LibraryRuns, mainVars
<1>19. CASE UNCHANGED vars
  BY <1>1, <1>19 DEF vars, mainVars
<1> QED
  BY <1>3, <1>4, <1>5, <1>6, <1>7, <1>8, <1>9, <1>10, <1>11, <1>12, <1>13, <1>14, <1>15, <1>16,
     <1>17, <1>18, <1>19 DEF Next, Starts

-----------------------------------------------------------------------------
(* Types, and the invariant as a whole.                                    *)

(* Whatever the node does, discovery makes a step of its own or none, or   *)
(* its context is cancelled.                                               *)
LEMMA NextIsBrowserStep ==
  ASSUME [Next]_vars
  PROVE  BrowserStep
<1> USE DEF BrowserStep
<1>1. CASE Starts
  <2>1. ASSUME NEW s, NEW acquired, NEW deferring, Passes(s, acquired, deferring)
        PROVE  ctxDone' = ctxDone
    BY <2>1 DEF Passes
  <2> QED
    BY <1>1, <2>1 DEF Starts, PlainStep, OpenLogger, MakeContext, selectInterfaces, Listen, Register,
                      ReadAddresses, StartServer, StartDiscovery, StartMonitor
<1>2. CASE LoggerFails \/ EarlyStepFails \/ LateStepFails
  BY <1>2 DEF LoggerFails, EarlyStepFails, LateStepFails, Fails
<1>3. CASE Signal \/ Quit \/ Unwinds
  BY <1>3 DEF Signal, Quit, Unwinds, StopPeers, StopServer, Unregister, CancelContext, CloseLogger,
              ProcessEnds, RunsDeferred
<1>4. CASE InterfaceChanges
  BY <1>4 DEF InterfaceChanges
<1>5. CASE DiscoveryRuns \/ BrowseRuns \/ LibraryRuns
  BY <1>5 DEF DiscoveryRuns, BrowseRuns, LibraryRuns
<1>6. CASE UNCHANGED vars
  BY <1>6 DEF vars
<1> QED
  BY <1>1, <1>2, <1>3, <1>4, <1>5, <1>6 DEF Next

(* The types, of which those of discovery and of the deferred calls follow *)
(* from the other parts of the invariant.                                  *)
LEMMA TypeStep ==
  ASSUME TypeOK, Browser!TypeOK', ReleaseInv', [Next]_vars,
         step' = step \/ step' \in Steps \cup {"unwind", "gone"}
  PROVE  TypeOK'
\* What main keeps beside its program point and its deferred calls.
<1> DEFINE MainOK == /\ exit \in {"none", "return", "panic", "fatal", "killed"}
                     /\ held \subseteq Resource /\ signalled \in BOOLEAN
           NetOK == net \in [Interface -> Link] /\ changes \in 0 .. MaxChanges
           ServiceOK == selected \subseteq Interface /\ localAddrs \subseteq Addr
<1>1. step' \in Steps \cup {"unwind", "gone"}
  BY DEF TypeOK
<1>2. deferred' \in Seq(Deferred) /\ Len(deferred') <= 5
  <2>1. PICK n \in 0 .. 5 : deferred' = Remaining(n)
    BY DEF ReleaseInv, Releases
  <2>2. Remaining(n) \in Seq(Deferred) /\ Len(Remaining(n)) = n
    BY RemainingCalls
  <2> QED
    BY <2>1, <2>2
<1>3. MainOK /\ NetOK /\ ServiceOK
  BY DEF TypeOK
<1>4. SUFFICES MainOK' /\ NetOK' /\ ServiceOK'
  BY <1>1, <1>2 DEF TypeOK
<1>5. ASSUME UNCHANGED netVars PROVE NetOK'
  BY <1>3, <1>5 DEF netVars
<1>6. ASSUME UNCHANGED serviceVars PROVE ServiceOK'
  BY <1>3, <1>6 DEF serviceVars
<1>7. ASSUME NEW s, NEW acquired \in SUBSET Resource, NEW deferring, Passes(s, acquired, deferring)
      PROVE  MainOK' /\ NetOK'
  BY <1>3, <1>5, <1>7 DEF Passes
<1>8. /\ {} \in SUBSET Resource /\ {"logger"} \in SUBSET Resource /\ {"listener"} \in SUBSET Resource
      /\ {"announcement"} \in SUBSET Resource /\ {"server"} \in SUBSET Resource
      /\ {"monitor"} \in SUBSET Resource
  BY DEF Resource
<1>9. CASE PlainStep \/ OpenLogger \/ MakeContext \/ Listen \/ Register \/ StartServer
           \/ StartDiscovery \/ StartMonitor
  BY <1>6, <1>7, <1>8, <1>9 DEF PlainStep, OpenLogger, MakeContext, Listen, Register, StartServer,
                                StartDiscovery, StartMonitor
<1>10. CASE selectInterfaces
  <2>1. MainOK' /\ NetOK'
    BY <1>7, <1>8, <1>10 DEF selectInterfaces
  <2> QED
    BY <1>3, <1>10, <2>1 DEF selectInterfaces
<1>11. CASE ReadAddresses
  <2>1. MainOK' /\ NetOK'
    BY <1>7, <1>8, <1>11 DEF ReadAddresses
  <2>2. \A i \in selected : net[i].addrs \subseteq Addr
    BY <1>3, LifecycleAssumption
  <2> QED
    BY <1>3, <1>11, <2>1, <2>2 DEF ReadAddresses
<1>12. CASE LoggerFails \/ EarlyStepFails \/ LateStepFails
  BY <1>3, <1>12 DEF LoggerFails, EarlyStepFails, LateStepFails, Fails, Released, netVars, serviceVars
<1>13. CASE Signal
  BY <1>3, <1>13 DEF Signal, netVars, serviceVars
<1>14. CASE Quit
  BY <1>3, <1>14 DEF Quit, netVars, serviceVars
<1>15. CASE Unwinds
  <2>1. ASSUME NEW call, NEW released, RunsDeferred(call, released)
        PROVE  MainOK' /\ NetOK' /\ ServiceOK'
    BY <1>3, <2>1 DEF RunsDeferred, netVars, serviceVars
  <2>2. CASE ProcessEnds
    BY <1>3, <2>2 DEF ProcessEnds, netVars, serviceVars
  <2> QED
    BY <1>15, <2>1, <2>2 DEF Unwinds, StopPeers, StopServer, Unregister, CancelContext, CloseLogger
<1>16. CASE InterfaceChanges
  <2>1. MainOK' /\ ServiceOK'
    BY <1>3, <1>16 DEF InterfaceChanges, mainVars, serviceVars
  <2>2. changes' \in 0 .. MaxChanges
    BY <1>3, <1>16, LifecycleAssumption DEF InterfaceChanges
  <2> QED
    BY <1>3, <1>16, <2>1, <2>2 DEF InterfaceChanges
<1>17. CASE DiscoveryRuns \/ BrowseRuns \/ LibraryRuns
  BY <1>3, <1>17 DEF DiscoveryRuns, BrowseRuns, LibraryRuns, mainVars, netVars, serviceVars
<1>18. CASE UNCHANGED vars
  BY <1>3, <1>18 DEF vars, mainVars, netVars, serviceVars
<1> QED
  BY <1>9, <1>10, <1>11, <1>12, <1>13, <1>14, <1>15, <1>16, <1>17, <1>18 DEF Next, Starts

(* The inductive invariant. *)
IInv == TypeOK /\ StartedOnce /\ EntriesInOrder /\ ReleaseInv /\ AddrInv

(* It holds at the start. *)
LEMMA InitIInv == Init => IInv
<1> SUFFICES ASSUME Init PROVE IInv
  OBVIOUS
<1>1. /\ step = "config" /\ exit = "none" /\ deferred = <<>> /\ held = {} /\ discovery = "off"
      /\ ctxDone = FALSE /\ browse = "off"
  BY DEF Init, Browser!Init
<1>2. "config" \in Steps
  BY StartSteps
<1>3. TypeOK
  <2>1. <<>> \in Seq(Service) /\ <<>> \in Seq(Deferred) /\ Len(<<>>) = 0
    BY EmptySeq
  <2>2. /\ results = <<>> /\ inHand = <<>> /\ entries = <<>> /\ reported = <<>> /\ taken = <<>>
        /\ browserClosed = FALSE /\ zeroconf = "off"
    BY DEF Init, Browser!Init
  <2>3. 0 <= ChanSize /\ 0 \in 0 .. MaxChanges /\ 0 <= 5
    BY LifecycleAssumption
  <2>4. Browser!TypeOK
    <3>1. ctxDone \in BOOLEAN /\ browserClosed \in BOOLEAN
      BY <1>1, <2>2
    <3>2. Len(inHand) = IF browse = "send" THEN 1 ELSE 0
      BY <1>1, <2>1, <2>2
    <3>3. Len(results) <= ChanSize /\ Len(entries) <= ChanSize
      BY <2>1, <2>2, <2>3
    <3> QED
      BY <1>1, <2>1, <2>2, <3>1, <3>2, <3>3 DEF Browser!TypeOK
  <2> QED
    BY <1>1, <1>2, <2>1, <2>3, <2>4 DEF TypeOK, Init
<1>4. StartedOnce
  BY <1>1 DEF StartedOnce
<1>5. EntriesInOrder
  BY ConcatEmptySeq DEF Init, Browser!Init, EntriesInOrder, Browser!EntriesInOrder
<1>6. ReleaseInv
  <2>1. Releases(0)
    BY <1>1, <1>2, StepTable, RemainingCalls DEF Releases, DiscoveryOn
  <2> QED
    BY <2>1 DEF ReleaseInv
<1>7. AddrInv
  BY <1>1 DEF AddrInv, Selected, Listening, Announced, Registered, Serving, DiscoveryOn
<1> QED
  BY <1>3, <1>4, <1>5, <1>6, <1>7 DEF IInv

(* Every step keeps it. *)
LEMMA NextIInv == IInv /\ [Next]_vars => IInv'
<1> SUFFICES ASSUME IInv, [Next]_vars PROVE IInv'
  OBVIOUS
<1>1. TypeOK /\ StartedOnce /\ EntriesInOrder /\ ReleaseInv /\ AddrInv
  BY DEF IInv
<1>2. Browser!TypeOK /\ changes \in Nat
  BY <1>1 DEF TypeOK
<1>3. BrowserStep
  BY NextIsBrowserStep
<1>4. Browser!TypeOK'
  BY <1>1, <1>2, <1>3, LifecycleAssumption, BrowserTypeStep
<1>5. StartedOnce' /\ EntriesInOrder'
  BY <1>1, <1>2, <1>3, <1>4, BrowserOrderStep DEF BrowserInv
<1>6. ReleaseInv' /\ (step' = step \/ step' \in Steps \cup {"unwind", "gone"})
  BY <1>1, NextRelease
<1>7. AddrInv'
  BY <1>1, <1>2, NextAddr
<1>8. TypeOK'
  BY <1>1, <1>4, <1>6, TypeStep
<1> QED
  BY <1>5, <1>6, <1>7, <1>8 DEF IInv

(* It holds always. *)
LEMMA Inductive == Spec => []IInv
BY InitIInv, NextIInv, PTL DEF Spec

-----------------------------------------------------------------------------
(* The theorems.                                                           *)

(* The variables keep their types.                                         *)
THEOREM TypeCorrect == Spec => []TypeOK
<1>1. IInv => TypeOK
  BY DEF IInv
<1> QED
  BY <1>1, Inductive, PTL

(* A node that has started holds everything it needs, is announced, has    *)
(* all its deferred calls, and knows an address others can use.            *)
THEOREM ReadyWhenStarted == Spec => []Ready
<1>1. IInv => Ready
  <2> SUFFICES ASSUME IInv, step = "wait" PROVE Ready
    BY DEF Ready
  <2>1. "wait" \in Steps /\ ReleaseInv /\ AddrInv
    BY StartSteps DEF IInv
  <2>2. AtStep("wait")
    BY <2>1, ReleaseAtStep
  <2>3. /\ {"logger", "listener", "announcement", "server"} \subseteq held /\ ~ctxDone
        /\ discovery # "off"
        /\ deferred = Shutdown
    BY <2>2, StepTable, RemainingCalls DEF AtStep, DiscoveryOn
  <2>4. changes = 0 => localAddrs \ LinkLocal # {}
    BY <2>1 DEF AddrInv, Selected, Listening, Announced, Registered, Serving, DiscoveryOn
  <2> QED
    BY <2>3, <2>4 DEF Ready, Shutdown
<1> QED
  BY <1>1, Inductive, PTL

(* However main ends, unless it is killed or has no logger, everything it  *)
(* acquired is released, in an order in which the logger goes last.        *)
THEOREM EndsClean == Spec => []CleanExit
<1>1. IInv => CleanExit
  <2> SUFFICES ASSUME IInv PROVE CleanExit
    OBVIOUS
  <2>1. PICK n \in 0 .. 5 : Releases(n)
    BY DEF IInv, ReleaseInv
  <2>2. deferred # <<>> => n > 0
    <3>1. n = 0 => deferred = <<>>
      BY <2>1, RemainingCalls DEF Releases
    <3> QED
      BY <3>1
  <2> QED
    BY <2>1, <2>2 DEF CleanExit, Releases
<1> QED
  BY <1>1, Inductive, PTL

(* What the library reports reaches the peer manager in order, and nothing *)
(* is lost before the node ends.                                           *)
THEOREM NothingLost == Spec => []EntriesInOrder
<1>1. IInv => EntriesInOrder
  BY DEF IInv
<1> QED
  BY <1>1, Inductive, PTL
=============================================================================
