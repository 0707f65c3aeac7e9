------------------------------ MODULE ClipNode ------------------------------
(***************************************************************************)
(* One running eClip: cmd/eClip/main.go puts the clipboard manager and the *)
(* clipboard server together.  The handlers of the server are the callers  *)
(* of SetText, the goroutine main starts is the reader of the channel of   *)
(* Monitor, and one context stops them all.  Each item the reader takes    *)
(* goes into the history and to the peers.  What the parts do by           *)
(* themselves (Poll, Accept, ...) is theirs; an action of the node says    *)
(* which steps of them happen together and what the others leave alone.    *)
(*                                                                         *)
(* CoarseID, NeverOver and OverWhenEmpty are variants with a bug a change   *)
(* could bring in.                                                          *)
(***************************************************************************)
EXTENDS ClipboardManager, ClipboardServer

CONSTANT Capacity  \* of the history

ASSUME CapacityAssumption == Capacity \in Nat \ {0}

VARIABLES
  consumer,  \* program point of the goroutine that reads the channel
  history,   \* clipHistory, most recent item first
  forwarded, \* history variable: the items given to SendToPeers
  origin     \* history variable: the connection each text of the clipboard came over, if any

managerOnly == <<clipboard, lastContent, call, monitor, polled, item, items,
                 closed, stream, failed, received>>
serverOnly == <<listener, running, acceptor, stop, conn, sent, failure, logged,
                late, applied>>
nodeOnly == <<consumer, history, forwarded, origin>>
vars == <<managerOnly, serverOnly, ctxDone, nodeOnly>>

History == INSTANCE RecentItems WITH
             recent <- history, result <- NoSource, Key <- Nat,
             Value <- Item, NoValue <- NoSource, Size <- Capacity

Entry == [key : Nat, value : Item]
Sent == [id : Nat, content : Text, source : {LocalHostID}, at : Nat]

\* The parts keep their own types; a handler is in SetText exactly while its
\* connection waits for it.
TypeOK ==
  /\ ManagerTypeOK
  /\ ServerTypeOK
  /\ consumer \in {"off", "select", "done"}
  /\ history \in Seq(Entry) /\ Len(history) <= Capacity
  /\ forwarded \in Seq(Sent)
  /\ origin \in Seq(SUBSET Conn) /\ Len(origin) = Len(clipboard)
  /\ \A c \in Conn : call[c].phase # "idle" <=> conn[c] = "settext"

Init ==
  /\ ManagerInit
  /\ ServerInit
  /\ consumer = "off"
  /\ history = <<>>
  /\ forwarded = <<>>
  /\ origin = <<{}>>

-----------------------------------------------------------------------------
(* The manager and the server on their own.                                *)

UserCopies(t) ==
  /\ Copy(t)
  /\ origin' = Append(origin, {})
  /\ UNCHANGED <<serverOnly, consumer, history, forwarded>>

MonitorRuns ==
  /\ Poll \/ Misread \/ MonitorSend \/ MonitorStop
  /\ UNCHANGED <<serverOnly, nodeOnly>>

AcceptLoop ==
  /\ \/ CheckContext
     \/ \E c \in Conn : Accept(c)
     \/ AcceptFails
     \/ AfterFailure
  /\ UNCHANGED <<managerOnly, nodeOnly>>

StopRuns(p) == Stop(p) /\ UNCHANGED <<managerOnly, nodeOnly>>

PeerStep(c) ==
  /\ \/ Connect(c)
     \/ \E m \in Message \cup {Unreadable} : Send(c, m)
  /\ UNCHANGED <<managerOnly, nodeOnly>>

-----------------------------------------------------------------------------
(* handleConnection calls SetText.                                         *)

RejectMessage(c) ==
  /\ ~Applicable(sent[c])
  /\ HandleMessage(c)
  /\ UNCHANGED <<managerOnly, nodeOnly>>

AcceptMessage(c) ==
  /\ Applicable(sent[c])
  /\ HandleMessage(c)
  /\ SetTextBegin(c, sent[c].content)
  /\ UNCHANGED nodeOnly

WriteText(c) ==
  /\ SetTextWrite(c)
  /\ origin' = Append(origin, {c})
  /\ UNCHANGED <<serverOnly, consumer, history, forwarded>>

LoseText(c) == SetTextLost(c) /\ UNCHANGED <<serverOnly, nodeOnly>>

FinishSetText(c) ==
  /\ \/ SetTextFail(c) /\ SetTextReturns(c, FALSE)
     \/ SetTextRecord(c) /\ SetTextReturns(c, TRUE)
  /\ UNCHANGED nodeOnly

-----------------------------------------------------------------------------
(* main.                                                                   *)

StartServer == Start /\ UNCHANGED <<managerOnly, nodeOnly>>

MainStartsMonitor ==
  /\ acceptor # "off"
  /\ StartMonitor
  /\ consumer' = "select"
  /\ UNCHANGED <<serverOnly, history, forwarded, origin>>

\* SIGINT or SIGTERM arrives: cancelMonitor.
SignalArrives == ManagerCancel /\ ServerCancel /\ UNCHANGED nodeOnly

-----------------------------------------------------------------------------
(* The goroutine that reads clipChannel.                                   *)

CoarseID(it) == it.id \div 2
ID(it) == it.id

\* clipHistory.Add, as the abstract history does it.
Record(it) == history' = History!Added(history, ID(it), it)

Local(it) == it.source \in {NoSource, LocalHostID}
Stamped(it) == [id |-> it.id, content |-> it.content, source |-> LocalHostID, at |-> it.at]

\* Into the history, then to the peers if the item is local.  SendToPeers puts
\* the name of this host into the copy it is given.
Consume ==
  /\ consumer = "select"
  /\ Receive
  /\ Record(Head(items))
  /\ forwarded' = IF Local(Head(items)) THEN Append(forwarded, Stamped(Head(items))) ELSE forwarded
  /\ UNCHANGED <<serverOnly, consumer, origin>>

NeverOver == FALSE
OverWhenEmpty == Len(items) = 0
Over == ctxDone \/ (closed /\ Len(items) = 0)

\* The context is done, or the channel is closed and drained: select may also
\* take an item while the context is done.
ConsumerEnds ==
  /\ consumer = "select"
  /\ Over
  /\ consumer' = "done"
  /\ UNCHANGED <<managerOnly, serverOnly, ctxDone, history, forwarded, origin>>

-----------------------------------------------------------------------------
HandlerRuns(c) == RejectMessage(c) \/ AcceptMessage(c) \/ WriteText(c) \/ LoseText(c) \/ FinishSetText(c)

Next ==
  \/ \E t \in Text : UserCopies(t)
  \/ MonitorRuns
  \/ AcceptLoop
  \/ \E p \in Stopper : StopRuns(p)
  \/ \E c \in Conn : PeerStep(c) \/ HandlerRuns(c)
  \/ StartServer \/ MainStartsMonitor \/ SignalArrives
  \/ Consume \/ ConsumerEnds

\* Goroutines that can run do run, and reads do not fail for ever.  Nobody
\* has to copy, to connect or to send a signal.
Fairness ==
  /\ WF_vars(StartServer) /\ WF_vars(MainStartsMonitor)
  /\ WF_vars(MonitorRuns)
  /\ WF_vars(Consume \/ ConsumerEnds) /\ WF_vars(ConsumerEnds)
  /\ \A c \in Conn : WF_vars(HandlerRuns(c))

Spec == Init /\ [][Next]_vars /\ Fairness

-----------------------------------------------------------------------------
(* Properties.                                                             *)

\* The history holds exactly the last items the consumer received, newest first:
\* no two reported changes share an ID, however fast they come.
HistoryIsLatest ==
  /\ Len(history) = IF Len(received) < Capacity THEN Len(received) ELSE Capacity
  /\ \A i \in 1 .. Len(history) : history[i].value = received[Len(received) + 1 - i]

\* From the peer to the clipboard: what came over a connection is, in whatever order
\* handlers, Monitor and other programs run, the text of a message of another host,
\* as the peer sent it; no connection puts a second text on the clipboard, and the
\* server counts one as applied that did, once its handler is done.
TextsAsSent ==
  \A i \in 1 .. Len(origin) : \A c \in origin[i] :
    /\ sent[c] \in Message /\ sent[c].type = "text" /\ sent[c].source # LocalHostID
    /\ clipboard[i] = sent[c].content
    /\ \A j \in 1 .. Len(origin) : c \in origin[j] => i = j
    /\ conn[c] = "closed" => \E k \in 1 .. Len(applied) : applied[k] = c

\* When the clipboard stops changing while the node runs, the newest item of the
\* history becomes and remains its content.
LatestRecorded == IF Len(history) = 0 THEN Empty ELSE history[1].value.content
HistoryCatchesUp ==
  \A t \in Text : <>[](Current = t /\ ~ctxDone) => <>[](LatestRecorded = t)

\* A signal ends the consumer, and Monitor with it, unless Monitor is left behind
\* in a send that nobody will ever receive.
ShutdownEnds ==
  ctxDone ~> /\ consumer = "done"
             /\ closed \/ monitor = "send"

\* The comment at main.go:203-205, "(...) ClipboardServer 在接收到数据并调用
\* clipManager.SetText 时，会填充 Source 字段": only texts that were put on the
\* clipboard on this machine are sent to the peers.
NetworkTextStays ==
  \A i \in 1 .. Len(forwarded) : origin[forwarded[i].at] = {}
=============================================================================
