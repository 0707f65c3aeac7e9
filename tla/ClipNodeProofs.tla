--------------------------- MODULE ClipNodeProofs ---------------------------
(***************************************************************************)
(* What the clipboard manager, the clipboard server and the node they form *)
(* promise for every set of texts, every number of connections, of writes  *)
(* to the clipboard and every size of the history.  The manager and the    *)
(* server are first proved about on their own, for ManagerSpec and         *)
(* ServerSpec: any number of callers and peers that do as they like.  The  *)
(* node then takes only such steps, so that the same invariants hold in it *)
(* and its history can be related to what the manager reported.            *)
(***************************************************************************)
EXTENDS ClipNode, ChannelLemmas

-----------------------------------------------------------------------------
(* The clipboard manager.                                                  *)

(* The variable lastContent of Monitor always agrees with the last item it *)
(* reported, which is what ties one poll to the next.                      *)
PolledIsReported ==
  polled = IF Len(stream) > 0 THEN stream[Len(stream)].content ELSE Empty

(* The ID of an item is its place among the reported ones.                 *)
IDsArePlaces == \A i \in 1 .. Len(stream) : stream[i].id = i

ManagerIInv ==
  /\ ManagerTypeOK
  /\ PolledIsReported
  /\ StreamInOrder /\ IDsArePlaces
  /\ NoRepeatedReport
  /\ NothingLost

-----------------------------------------------------------------------------
(* Every variable starts of its type ...                                   *)
LEMMA ManagerInitTypeOK == ManagerInit => ManagerTypeOK
<1> SUFFICES ASSUME ManagerInit PROVE ManagerTypeOK
  OBVIOUS
<1>1. clipboard \in Seq(Text) /\ Len(clipboard) > 0
  BY DEF ManagerInit
<1>2. call \in [Conn -> Call]
  BY TextAssumption DEF ManagerInit, Call, Idle
<1>3. item \in Item
  BY TextAssumption DEF ManagerInit, Item
<1>4. items \in Seq(Item) /\ Len(items) <= 1
  BY DEF ManagerInit
<1>5. stream \in Seq(Item) /\ received \in Seq(Item) /\ failed \subseteq 1 .. Len(stream)
  BY DEF ManagerInit
<1>6. /\ lastContent \in Text /\ polled \in Text
      /\ ctxDone \in BOOLEAN /\ closed \in BOOLEAN
      /\ monitor \in {"off", "select", "send", "done"}
  BY TextAssumption DEF ManagerInit
<1> QED
  BY <1>1, <1>2, <1>3, <1>4, <1>5, <1>6 DEF ManagerTypeOK

(* Receiving keeps the types of the channel and of what was received. *)
LEMMA ManagerReceiveTypes ==
  ASSUME ManagerTypeOK, Receive
  PROVE  /\ items' \in Seq(Item) /\ Len(items') <= 1
         /\ received' \in Seq(Item)
<1>1. /\ items \in Seq(Item) /\ Len(items) > 0 /\ Len(items) <= 1
      /\ received \in Seq(Item)
  BY DEF ManagerTypeOK, Receive
<1>2. Head(items) \in Item /\ Tail(items) \in Seq(Item) /\ Len(Tail(items)) = Len(items) - 1
  <2> HIDE DEF Item
  <2> QED BY <1>1, HeadAndTail
<1>3. items' = Tail(items) /\ received' = Append(received, Head(items))
  BY DEF Receive
<1>4. Len(items) \in Nat
  BY <1>1, LenProperties
<1> QED
  BY <1>1, <1>2, <1>3, <1>4, AppendProperties

(* ... and stays so, one case per operation of the manager.                *)
LEMMA ManagerNextTypeOK == ManagerTypeOK /\ [ManagerNext]_managerVars => ManagerTypeOK'
<1> SUFFICES ASSUME ManagerTypeOK, [ManagerNext]_managerVars PROVE ManagerTypeOK'
  OBVIOUS
<1> USE TextAssumption DEF ManagerTypeOK, Call, Item, Idle, monitorVars, channelVars
<1>0. Current \in Text /\ Len(clipboard) \in Nat
  BY DEF Current
<1>1. ASSUME NEW t \in Text, Copy(t) PROVE ManagerTypeOK'
  BY <1>1 DEF Copy
<1>2. ASSUME NEW c \in Conn, NEW t \in Text, SetTextBegin(c, t) PROVE ManagerTypeOK'
  BY <1>2 DEF SetTextBegin
<1>3. ASSUME NEW c \in Conn, SetTextWrite(c) PROVE ManagerTypeOK'
  <2>1. call[c].text \in Text
    OBVIOUS
  <2>2. call' \in [Conn -> Call]
    BY <1>3, <2>1 DEF SetTextWrite
  <2>3. clipboard' \in Seq(Text) /\ Len(clipboard') > 0
    BY <1>3, <2>1 DEF SetTextWrite
  <2> QED
    BY <1>3, <2>2, <2>3 DEF SetTextWrite
<1>13. ASSUME NEW c \in Conn, SetTextLost(c) PROVE ManagerTypeOK'
  <2>1. call' \in [Conn -> Call]
    BY <1>13 DEF SetTextLost
  <2> QED
    BY <1>13, <2>1 DEF SetTextLost
<1>4. ASSUME NEW c \in Conn, SetTextFail(c) PROVE ManagerTypeOK'
  BY <1>4 DEF SetTextFail
<1>5. ASSUME NEW c \in Conn, SetTextRecord(c) PROVE ManagerTypeOK'
  BY <1>5 DEF SetTextRecord
<1>6. CASE ManagerCancel
  BY <1>6 DEF ManagerCancel
<1>7. CASE Receive
  BY <1>7, ManagerReceiveTypes DEF Receive
<1>8. CASE StartMonitor
  BY <1>8 DEF StartMonitor
<1>14. ASSUME NEW t \in Text, Reports(t),
              failed' = failed \/ failed' = failed \cup {Len(stream) + 1}
       PROVE  ManagerTypeOK'
  <2>1. NewItem(t) \in Item
    BY <1>0 DEF NewItem
  <2>2. stream' \in Seq(Item) /\ Len(stream') = Len(stream) + 1
    BY <1>14, <2>1, AppendProperties DEF Reports
  <2>3. failed' \subseteq 1 .. Len(stream')
    <3> DEFINE n == Len(stream)
    <3>1. n \in Nat /\ Len(stream') = n + 1 /\ failed \subseteq 1 .. n
      BY <2>2
    <3>2. failed' = failed \/ failed' = failed \cup {n + 1}
      BY <1>14
    <3> HIDE DEF n, ManagerTypeOK
    <3>3. 1 .. n \subseteq 1 .. n + 1 /\ n + 1 \in 1 .. n + 1
      BY <3>1
    <3>4. failed' \subseteq 1 .. n + 1
      BY <3>1, <3>2, <3>3
    <3> QED
      BY <3>1, <3>4
  <2> QED
    BY <1>14, <2>1, <2>2, <2>3 DEF Reports
<1>9. CASE Poll \/ Misread
  BY <1>0, <1>9, <1>14 DEF Poll, Misread
<1>10. CASE MonitorSend
  BY <1>10 DEF MonitorSend, Room
<1>11. CASE MonitorStop
  BY <1>11 DEF MonitorStop
<1>12. CASE UNCHANGED managerVars
  BY <1>12 DEF managerVars
<1> QED
  BY <1>1, <1>2, <1>3, <1>4, <1>5, <1>6, <1>7, <1>8, <1>9, <1>10, <1>11, <1>12, <1>13
     DEF ManagerNext, SetTextStep, MonitorStep

(* Type correctness of the manager: in particular the channel of capacity 1 *)
(* never holds two items.                                                   *)
THEOREM ManagerTypeCorrect == ManagerSpec => []ManagerTypeOK
  BY ManagerInitTypeOK, ManagerNextTypeOK, PTL DEF ManagerSpec

-----------------------------------------------------------------------------
(* Nothing has been polled yet.                                            *)
LEMMA ManagerInitIInv == ManagerInit => ManagerIInv
<1> SUFFICES ASSUME ManagerInit PROVE ManagerIInv
  OBVIOUS
<1>1. ManagerTypeOK
  BY ManagerInitTypeOK
<1>2. /\ Len(stream) = 0 /\ polled = Empty
      /\ stream = <<>> /\ items = <<>> /\ received = <<>> /\ monitor = "off"
  BY DEF ManagerInit
<1>3. PolledIsReported /\ StreamInOrder /\ IDsArePlaces /\ NoRepeatedReport
  BY <1>2 DEF PolledIsReported, StreamInOrder, IDsArePlaces, NoRepeatedReport
<1>4. NothingLost
  <2>1. <<>> \in Seq(Item)
    BY EmptySeq
  <2>2. <<>> \o <<>> = <<>>
    BY <2>1, ConcatEmptySeq
  <2> QED
    BY <1>2, <2>2 DEF NothingLost, Pending
<1> QED
  BY <1>1, <1>3, <1>4 DEF ManagerIInv

(* A write to the clipboard, by another program or by SetText, leaves every *)
(* earlier text where it was.                                               *)
LEMMA ManagerWriteKeepsOrder ==
  ASSUME ManagerTypeOK, StreamInOrder, NEW t \in Text,
         clipboard' = Append(clipboard, t), stream' = stream, failed' = failed
  PROVE  StreamInOrder'
<1>1. /\ Len(clipboard') = Len(clipboard) + 1
      /\ \A i \in 1 .. Len(clipboard) : clipboard'[i] = clipboard[i]
      /\ Len(clipboard) \in Nat
  BY AppendProperties DEF ManagerTypeOK
<1>2. ASSUME NEW i \in 1 .. Len(stream)
      PROVE  /\ stream[i].at \in 1 .. Len(clipboard')
             /\ stream[i].content = IF i \in failed THEN Empty ELSE clipboard'[stream[i].at]
  <2>1. /\ stream[i].at \in 1 .. Len(clipboard)
        /\ stream[i].content = IF i \in failed THEN Empty ELSE clipboard[stream[i].at]
    BY DEF StreamInOrder
  <2> QED
    BY <1>1, <2>1
<1> QED
  BY <1>2 DEF StreamInOrder

(* A poll that finds a change extends the stream with an item that differs  *)
(* from the last one reported, and was read from a write no older.           *)
LEMMA ManagerReportKeepsOrder ==
  ASSUME ManagerTypeOK, PolledIsReported, StreamInOrder, IDsArePlaces, NoRepeatedReport,
         NEW t \in Text, Reports(t),
         \/ t = Current /\ failed' = failed
         \/ t = Empty /\ failed' = failed \cup {Len(stream) + 1}
  PROVE  PolledIsReported' /\ StreamInOrder' /\ IDsArePlaces' /\ NoRepeatedReport'
<1> DEFINE n == Len(stream)
           it == NewItem(t)
<1>1. /\ n \in Nat /\ Len(clipboard) \in Nat /\ Len(clipboard) > 0
      /\ failed \subseteq 1 .. n /\ n + 1 \notin failed
  BY DEF ManagerTypeOK
<1>2. it \in Item /\ it.content = t /\ it.at = Len(clipboard) /\ it.id = n + 1
  BY <1>1 DEF NewItem, Item
<1>3. stream' = Append(stream, it) /\ polled' = t /\ clipboard' = clipboard /\ t # polled
  BY DEF Reports
<1> HIDE DEF it
<1>4. /\ Len(stream') = n + 1
      /\ stream'[n + 1] = it
      /\ \A i \in 1 .. n : stream'[i] = stream[i]
  BY <1>2, <1>3, AppendProperties DEF ManagerTypeOK
<1>5. /\ \A i \in 1 .. n : i \in failed' <=> i \in failed
      /\ n + 1 \in failed' => t = Empty
      /\ n + 1 \notin failed' => t = Current
  BY <1>1
<1>6. ASSUME n > 0
      PROVE  /\ stream[n].at <= Len(clipboard)
             /\ stream[n].at = Len(clipboard) => n \in failed' \/ n + 1 \in failed'
             /\ stream[n].content # t
  <2>1. /\ stream[n].at \in 1 .. Len(clipboard)
        /\ n \notin failed => stream[n].content = clipboard[stream[n].at]
        /\ stream[n].content = polled
    BY <1>1, <1>6 DEF StreamInOrder, PolledIsReported
  <2>2. stream[n].at = Len(clipboard) /\ n \notin failed => t # Current
    BY <1>3, <2>1 DEF Current
  <2>3. n \in 1 .. n
    BY <1>1, <1>6
  <2>4. n \in failed' <=> n \in failed
    BY <1>5, <2>3
  <2> QED
    BY <1>1, <1>3, <1>5, <2>1, <2>2, <2>4
<1>7. ASSUME NEW i \in 1 .. n + 1
      PROVE  /\ stream'[i].at \in 1 .. Len(clipboard)
             /\ stream'[i].content = IF i \in failed' THEN Empty ELSE clipboard[stream'[i].at]
             /\ stream'[i].id = i
  <2>1. CASE i = n + 1
    BY <1>1, <1>2, <1>4, <1>5, <2>1 DEF Current
  <2>2. CASE i \in 1 .. n
    BY <1>4, <1>5, <2>2 DEF StreamInOrder, IDsArePlaces
  <2> QED
    BY <1>1, <2>1, <2>2
<1>8. ASSUME NEW i \in 1 .. n
      PROVE  /\ stream'[i].at <= stream'[i + 1].at
             /\ stream'[i].at = stream'[i + 1].at => {i, i + 1} \cap failed' # {}
             /\ stream'[i].content # stream'[i + 1].content
  <2>1. CASE i = n
    BY <1>1, <1>2, <1>4, <1>6, <2>1
  <2>2. CASE i \in 1 .. n - 1
    <3>1. /\ stream'[i] = stream[i] /\ stream'[i + 1] = stream[i + 1]
          /\ i \in failed' <=> i \in failed
          /\ i + 1 \in failed' <=> i + 1 \in failed
      BY <1>1, <1>4, <1>5, <2>2
    <3> QED
      BY <2>2, <3>1 DEF StreamInOrder, NoRepeatedReport
  <2> QED
    BY <1>1, <2>1, <2>2
<1>9. PolledIsReported'
  BY <1>1, <1>2, <1>3, <1>4 DEF PolledIsReported
<1>10. StreamInOrder' /\ IDsArePlaces'
  BY <1>1, <1>3, <1>4, <1>7, <1>8 DEF StreamInOrder, IDsArePlaces
<1>11. stream'[1].content # Empty
  <2>1. CASE n = 0
    BY <1>2, <1>3, <1>4, <2>1 DEF PolledIsReported
  <2>2. CASE n > 0
    BY <1>1, <1>4, <2>2 DEF NoRepeatedReport
  <2> QED
    BY <1>1, <2>1, <2>2
<1> QED
  BY <1>1, <1>4, <1>8, <1>9, <1>10, <1>11 DEF NoRepeatedReport

(* What is received, buffered and about to be sent stays the whole stream.  *)
LEMMA ManagerNextNothingLost ==
  ASSUME ManagerTypeOK, NothingLost, [ManagerNext]_managerVars
  PROVE  NothingLost'
<1>1. /\ received \in Seq(Item) /\ items \in Seq(Item) /\ item \in Item
      /\ stream \in Seq(Item) /\ received \o items \in Seq(Item)
  BY ConcatProperties DEF ManagerTypeOK
<1>2. Pending \in Seq(Item)
  BY <1>1 DEF Pending
<1>3. CASE UNCHANGED <<received, items, stream, monitor, item>>
  BY <1>3 DEF NothingLost, Pending
<1>4. CASE Receive
  <2>1. Pending' = Pending /\ stream' = stream
    BY <1>4 DEF Receive, Pending, monitorVars
  <2>2. received' = Append(received, Head(items)) /\ items' = Tail(items)
    BY <1>4 DEF Receive
  <2>3. Len(items) > 0
    BY <1>4 DEF Receive
  <2>4. Append(received, Head(items)) \o Tail(items) = received \o items
    BY <1>1, <2>3, ReceiveKeepsConcat
  <2> QED
    BY <2>1, <2>2, <2>4 DEF NothingLost
<1>5. ASSUME NEW t \in Text, Reports(t) PROVE NothingLost'
  <2>1. NewItem(t) \in Item
    BY DEF NewItem, Item, ManagerTypeOK
  <2>2. received \o items = stream
    BY <1>1, <1>5, ConcatEmptySeq DEF Reports, NothingLost, Pending
  <2>3. /\ received' = received /\ items' = items /\ Pending' = <<NewItem(t)>>
        /\ stream' = Append(stream, NewItem(t))
    BY <1>5 DEF Reports, Pending
  <2>4. Append(stream, NewItem(t)) = stream \o <<NewItem(t)>>
    BY <1>1, <2>1, AppendIsConcat
  <2> QED
    BY <2>2, <2>3, <2>4 DEF NothingLost
<1>8. CASE Poll \/ Misread
  <2>1. Current \in Text /\ Empty \in Text
    BY TextAssumption DEF Current, ManagerTypeOK
  <2> QED
    BY <1>5, <1>8, <2>1 DEF Poll, Misread
<1>6. CASE MonitorSend
  <2>1. (received \o items) \o <<item>> = stream
    BY <1>6 DEF MonitorSend, NothingLost, Pending
  <2>2. received \o Append(items, item) = stream
    <3>1. /\ received \o Append(items, item) = Append(received \o items, item)
          /\ (received \o items) \o <<item>> = Append(received \o items, item)
      BY <1>1, SendExtendsConcat
    <3> QED
      BY <2>1, <3>1
  <2>3. /\ received' = received /\ items' = Append(items, item) /\ Pending' = <<>>
        /\ stream' = stream
    BY <1>6 DEF MonitorSend, Pending
  <2> QED
    BY <1>1, <2>2, <2>3, ConcatEmptySeq DEF NothingLost
<1>7. CASE StartMonitor \/ MonitorStop
  BY <1>7 DEF StartMonitor, MonitorStop, NothingLost, Pending, channelVars
<1> QED
  BY <1>3, <1>4, <1>6, <1>7, <1>8
     DEF ManagerNext, SetTextStep, MonitorStep, managerVars, monitorVars, channelVars, Copy,
         SetTextBegin, SetTextWrite, SetTextLost, SetTextFail, SetTextRecord, ManagerCancel

(* The invariant is inductive: writes to the clipboard disturb only the    *)
(* order of the stream, Monitor and its reader the rest.                   *)
LEMMA ManagerNextIInv == ManagerIInv /\ [ManagerNext]_managerVars => ManagerIInv'
<1> SUFFICES ASSUME ManagerIInv, [ManagerNext]_managerVars PROVE ManagerIInv'
  OBVIOUS
<1>1. ManagerTypeOK /\ ManagerTypeOK'
  BY ManagerNextTypeOK DEF ManagerIInv
<1>2. NothingLost'
  BY <1>1, ManagerNextNothingLost DEF ManagerIInv
<1> DEFINE Kept == PolledIsReported /\ StreamInOrder /\ IDsArePlaces /\ NoRepeatedReport
<1>3. Kept'
  <2>1. CASE UNCHANGED <<clipboard, stream, polled, failed>>
    BY <2>1 DEF ManagerIInv, PolledIsReported, StreamInOrder, IDsArePlaces, NoRepeatedReport
  <2>2. ASSUME NEW t \in Text, clipboard' = Append(clipboard, t), UNCHANGED <<stream, polled, failed>>
        PROVE  Kept'
    BY <1>1, <2>2, ManagerWriteKeepsOrder
       DEF ManagerIInv, PolledIsReported, IDsArePlaces, NoRepeatedReport
  <2>3. ASSUME NEW c \in Conn, SetTextWrite(c) PROVE Kept'
    <3>1. call[c].text \in Text
      BY <1>1 DEF ManagerTypeOK, Call
    <3>2. clipboard' = Append(clipboard, call[c].text) /\ UNCHANGED <<stream, polled, failed>>
      BY <2>3 DEF SetTextWrite, monitorVars, channelVars
    <3> QED
      BY <2>2, <3>1, <3>2
  <2>4. CASE Poll \/ Misread
    <3>1. Current \in Text /\ Empty \in Text
      BY <1>1, TextAssumption DEF Current, ManagerTypeOK
    <3>2. CASE Poll
      BY <1>1, <3>1, <3>2, ManagerReportKeepsOrder DEF ManagerIInv, Poll
    <3>3. CASE Misread
      BY <1>1, <3>1, <3>3, ManagerReportKeepsOrder DEF ManagerIInv, Misread
    <3> QED
      BY <2>4, <3>2, <3>3
  <2>5. ASSUME NEW t \in Text, Copy(t) PROVE Kept'
    BY <2>2, <2>5 DEF Copy, monitorVars, channelVars
  <2> HIDE DEF Kept
  <2> QED
    BY <2>1, <2>3, <2>4, <2>5
       DEF ManagerNext, SetTextStep, MonitorStep, managerVars, monitorVars, channelVars,
           SetTextBegin, SetTextLost, SetTextFail, SetTextRecord, ManagerCancel, Receive,
           StartMonitor, MonitorSend, MonitorStop
<1> QED
  BY <1>1, <1>2, <1>3 DEF ManagerIInv

(* Hence the three properties below.                                       *)
LEMMA ManagerIInvHolds == ManagerSpec => []ManagerIInv
  BY ManagerInitIInv, ManagerNextIInv, PTL DEF ManagerSpec

(* The items Monitor reports are a sample of the clipboard in the order of   *)
(* its writes, whatever SetText and other programs write meanwhile: what the *)
(* clipboard held at that moment, or an empty text where a read failed, and  *)
(* only around such a read the same write twice.                             *)
THEOREM ManagerReportsAreInOrder == ManagerSpec => []StreamInOrder
  BY ManagerIInvHolds, PTL DEF ManagerIInv

(* Monitor reports a content once per change it sees. *)
THEOREM ManagerReportsOnce == ManagerSpec => []NoRepeatedReport
  BY ManagerIInvHolds, PTL DEF ManagerIInv

(* No item Monitor decided to report is lost, doubled or reordered on the    *)
(* way to the reader, even when the reader is slow or the context cancelled. *)
THEOREM ManagerReportsArrive == ManagerSpec => []NothingLost
  BY ManagerIInvHolds, PTL DEF ManagerIInv

-----------------------------------------------------------------------------
(* The clipboard server.                                                   *)

(* Once an Accept succeeded after the cancellation, the loop no longer      *)
(* reaches Accept: its next look at the context ends it.                    *)
LateInv ==
  /\ late > 0 => late = 1 /\ ctxDone /\ acceptor # "accept"

(* The order inside Stop: nothing is closed before running is cleared, and  *)
(* a failure due to the closing implies that it happened.                   *)
ShutdownInv ==
  /\ acceptor = "off" => listener = "open" /\ ~ctxDone /\ \A p \in Stopper : stop[p] = "no"
  /\ \A p \in Stopper : stop[p] # "no" => ~running
  /\ listener = "closed" => ~running /\ acceptor # "off"
  /\ failure = "closed" => listener = "closed"

(* A text is applied by a handler that decoded it, and its connection is    *)
(* closed afterwards.                                                       *)
AppliedInv ==
  /\ \A c \in Conn : conn[c] = "settext" => Applicable(sent[c])
  /\ \A i \in 1 .. Len(applied) :
       conn[applied[i]] = "closed" /\ Applicable(sent[applied[i]])
  /\ \A i, j \in 1 .. Len(applied) : applied[i] = applied[j] => i = j

-----------------------------------------------------------------------------
(* Every variable starts of its type ...                                   *)
LEMMA ServerInitTypeOK == ServerInit => ServerTypeOK
<1> SUFFICES ASSUME ServerInit PROVE ServerTypeOK
  OBVIOUS
<1>1. conn \in [Conn -> {"none", "backlog", "reset", "decode", "settext", "closed"}]
  BY DEF ServerInit
<1>2. sent \in [Conn -> Message \cup {Nothing, Unreadable}]
  BY DEF ServerInit
<1>3. \A c \in Conn : conn[c] = "settext" => sent[c] \in Message
  BY DEF ServerInit
<1>4. applied \in Seq(Conn)
  BY EmptySeq DEF ServerInit
<1>5. stop \in [Stopper -> {"no", "flagged", "yes"}]
  BY DEF ServerInit
<1> QED
  BY <1>1, <1>2, <1>3, <1>4, <1>5 DEF ServerInit, ServerTypeOK

(* ... and stays so, one case per step of the server and its peers.        *)
LEMMA ServerNextTypeOK == ServerTypeOK /\ [ServerNext]_serverVars => ServerTypeOK'
<1> SUFFICES ASSUME ServerTypeOK, [ServerNext]_serverVars PROVE ServerTypeOK'
  OBVIOUS
<1> USE DEF ServerTypeOK, loopVars, stopVars
<1>1. ASSUME NEW c \in Conn, Connect(c) PROVE ServerTypeOK'
  BY <1>1 DEF Connect
<1>2. ASSUME NEW c \in Conn, NEW m \in Message \cup {Unreadable}, Send(c, m) PROVE ServerTypeOK'
  BY <1>2 DEF Send
<1>3. CASE Start
  BY <1>3 DEF Start
<1>4. CASE ServerCancel
  BY <1>4 DEF ServerCancel
<1>5. ASSUME NEW p \in Stopper, StopFlag(p) PROVE ServerTypeOK'
  BY <1>5 DEF StopFlag, RunningCleared
<1>6. ASSUME NEW p \in Stopper, StopClose(p) PROVE ServerTypeOK'
  BY <1>6 DEF StopClose
<1>7. CASE CheckContext
  BY <1>7 DEF CheckContext, TopOfLoop
<1>8. ASSUME NEW c \in Conn, Accept(c) PROVE ServerTypeOK'
  BY <1>8 DEF Accept
<1>9. CASE AcceptFails
  BY <1>9 DEF AcceptFails
<1>10. CASE AfterFailure
  BY <1>10 DEF AfterFailure
<1>11. ASSUME NEW c \in Conn, HandleMessage(c) PROVE ServerTypeOK'
  <2>1. conn' \in [Conn -> {"none", "backlog", "reset", "decode", "settext", "closed"}]
    BY <1>11 DEF HandleMessage
  <2>2. ASSUME NEW d \in Conn, conn'[d] = "settext" PROVE sent'[d] \in Message
    BY <1>11, <2>2 DEF HandleMessage, Applicable
  <2> QED
    BY <1>11, <2>1, <2>2 DEF HandleMessage
<1>12. ASSUME NEW c \in Conn, NEW b \in BOOLEAN, SetTextReturns(c, b) PROVE ServerTypeOK'
  BY <1>12 DEF SetTextReturns
<1>13. CASE UNCHANGED serverVars
  BY <1>13 DEF serverVars
<1> QED
  BY <1>1, <1>2, <1>3, <1>4, <1>5, <1>6, <1>7, <1>8, <1>9, <1>10, <1>11, <1>12, <1>13
     DEF ServerNext, Stop, Handler

(* Type correctness: in particular a handler that calls SetText has decoded *)
(* a message.                                                               *)
THEOREM ServerTypeCorrect == ServerSpec => []ServerTypeOK
  BY ServerInitTypeOK, ServerNextTypeOK, PTL DEF ServerSpec

-----------------------------------------------------------------------------
(* Only Accept counts, and only after a look at the context.               *)
LEMMA ServerNextLateInv == ServerTypeOK /\ LateInv /\ [ServerNext]_serverVars => LateInv'
<1> SUFFICES ASSUME ServerTypeOK, LateInv, [ServerNext]_serverVars PROVE LateInv'
  OBVIOUS
<1> USE DEF ServerTypeOK, LateInv, loopVars, stopVars
<1>1. CASE CheckContext
  BY <1>1 DEF CheckContext, TopOfLoop
<1>2. ASSUME NEW c \in Conn, Accept(c) PROVE LateInv'
  BY <1>2 DEF Accept
<1>3. CASE UNCHANGED <<late, acceptor, ctxDone>>
  BY <1>3
<1>4. CASE Start \/ ServerCancel \/ AcceptFails \/ AfterFailure
  BY <1>4 DEF Start, ServerCancel, AcceptFails, AfterFailure
<1>5. ASSUME NEW p \in Stopper, StopClose(p) PROVE LateInv'
  BY <1>5 DEF StopClose
<1> QED
  BY <1>1, <1>2, <1>3, <1>4, <1>5
     DEF ServerNext, serverVars, Connect, Send, Stop, StopFlag, Handler, HandleMessage, SetTextReturns

(* After the context is cancelled at most one more connection is accepted,  *)
(* the one whose Accept was already waiting.                                *)
THEOREM ServerLateBound == ServerSpec => []AtMostOneLate
<1>1. ServerInit => LateInv
  BY DEF ServerInit, LateInv
<1>2. ServerTypeOK /\ LateInv => AtMostOneLate
  BY DEF ServerTypeOK, LateInv, AtMostOneLate
<1> QED
  BY <1>1, <1>2, ServerTypeCorrect, ServerNextLateInv, PTL DEF ServerSpec

-----------------------------------------------------------------------------
(* Both callers of Stop clear running before they close the listener.      *)
LEMMA ServerNextShutdownInv == ServerTypeOK /\ ShutdownInv /\ [ServerNext]_serverVars => ShutdownInv'
<1> SUFFICES ASSUME ServerTypeOK, ShutdownInv, [ServerNext]_serverVars PROVE ShutdownInv'
  OBVIOUS
<1> USE DEF ServerTypeOK, ShutdownInv, loopVars, stopVars
<1>1. CASE Start
  BY <1>1 DEF Start
<1>2. CASE ServerCancel
  BY <1>2 DEF ServerCancel
<1>8. CASE AcceptFails
  BY <1>8 DEF AcceptFails
<1>9. CASE AfterFailure
  BY <1>9 DEF AfterFailure
<1>3. CASE CheckContext
  BY <1>3 DEF CheckContext, TopOfLoop
<1>4. ASSUME NEW p \in Stopper, StopFlag(p) PROVE ShutdownInv'
  BY <1>4 DEF StopFlag, CallsStop, RunningCleared, Stopper
<1>5. ASSUME NEW p \in Stopper, StopClose(p) PROVE ShutdownInv'
  BY <1>5 DEF StopClose, Stopper
<1>6. ASSUME NEW c \in Conn, Accept(c) PROVE ShutdownInv'
  BY <1>6 DEF Accept
<1>7. CASE UNCHANGED <<acceptor, listener, ctxDone, stop, running, failure>>
  BY <1>7
<1> QED
  BY <1>1, <1>2, <1>3, <1>4, <1>5, <1>6, <1>7, <1>8, <1>9
     DEF ServerNext, serverVars, Connect, Send, Stop, Handler, HandleMessage, SetTextReturns

(* A failure due to the closing is handled with running cleared.           *)
LEMMA ServerNextQuiet == ShutdownInv /\ QuietShutdown /\ [ServerNext]_serverVars => QuietShutdown'
<1> SUFFICES ASSUME ShutdownInv, QuietShutdown, [ServerNext]_serverVars PROVE QuietShutdown'
  OBVIOUS
<1>1. CASE AfterFailure
  BY <1>1 DEF AfterFailure, ShutdownInv, QuietShutdown
<1>2. CASE UNCHANGED logged
  BY <1>2 DEF QuietShutdown
<1> QED
  BY <1>1, <1>2
     DEF ServerNext, serverVars, loopVars, Connect, Send, Start, ServerCancel, Stop, StopFlag, StopClose,
         CheckContext, Accept, AcceptFails, Handler, HandleMessage, SetTextReturns

(* The failure that Stop provokes in a blocked Accept is never logged.      *)
THEOREM ServerShutdownIsQuiet == ServerSpec => []QuietShutdown
<1>1. ServerInit => ShutdownInv /\ QuietShutdown
  BY DEF ServerInit, ShutdownInv, QuietShutdown, Stopper
<1> QED
  BY <1>1, ServerTypeCorrect, ServerNextShutdownInv, ServerNextQuiet, PTL DEF ServerSpec

-----------------------------------------------------------------------------
(* Only SetTextReturns extends applied, and it closes the connection.      *)
LEMMA ServerNextAppliedInv == ServerTypeOK /\ AppliedInv /\ [ServerNext]_serverVars => AppliedInv'
<1> SUFFICES ASSUME ServerTypeOK, AppliedInv, [ServerNext]_serverVars PROVE AppliedInv'
  OBVIOUS
<1>0. /\ Len(applied) \in Nat
      /\ \A i \in 1 .. Len(applied) : applied[i] \in Conn
  BY DEF ServerTypeOK
<1>1. CASE UNCHANGED <<applied, conn, sent>>
  BY <1>1 DEF AppliedInv
<1>2. CASE applied' = applied /\ sent' = sent
           /\ \A c \in Conn : /\ conn'[c] = "settext" => conn[c] = "settext"
                              /\ conn[c] = "closed" => conn'[c] = "closed"
  BY <1>0, <1>2 DEF AppliedInv
<1>3. ASSUME NEW c \in Conn, Connect(c) PROVE AppliedInv'
  BY <1>2, <1>3 DEF Connect, ServerTypeOK
<1>4. ASSUME NEW c \in Conn, NEW m \in Message \cup {Unreadable}, Send(c, m) PROVE AppliedInv'
  <2>1. ~Applicable(sent[c])
    BY <1>4, SentAssumption DEF Send, Applicable
  <2>2. /\ applied' = applied /\ conn' = conn
        /\ \A d \in Conn : d # c => sent'[d] = sent[d]
    BY <1>4 DEF Send, ServerTypeOK
  <2>3. \A d \in Conn : Applicable(sent[d]) => Applicable(sent'[d])
    BY <2>1, <2>2
  <2> QED
    BY <1>0, <2>2, <2>3 DEF AppliedInv
<1>5. ASSUME NEW p \in Stopper, StopClose(p) PROVE AppliedInv'
  BY <1>2, <1>5 DEF StopClose, ServerTypeOK
<1>6. ASSUME NEW c \in Conn, Accept(c) PROVE AppliedInv'
  BY <1>2, <1>6 DEF Accept, ServerTypeOK
<1>7. ASSUME NEW c \in Conn, HandleMessage(c) PROVE AppliedInv'
  <2>1. /\ applied' = applied /\ sent' = sent
        /\ \A d \in Conn : conn'[d] = IF d = c THEN IF Applicable(sent[c]) THEN "settext" ELSE "closed"
                                      ELSE conn[d]
        /\ conn[c] = "decode"
    BY <1>7 DEF HandleMessage, ServerTypeOK
  <2> QED
    BY <1>0, <2>1 DEF AppliedInv
<1>8. ASSUME NEW c \in Conn, SetTextReturns(c, FALSE) PROVE AppliedInv'
  BY <1>2, <1>8 DEF SetTextReturns, ServerTypeOK
<1>9. ASSUME NEW c \in Conn, SetTextReturns(c, TRUE) PROVE AppliedInv'
  <2>1. /\ applied' = Append(applied, c) /\ sent' = sent /\ conn[c] = "settext"
        /\ \A d \in Conn : conn'[d] = IF d = c THEN "closed" ELSE conn[d]
    BY <1>9 DEF SetTextReturns, ServerTypeOK
  <2>2. /\ Len(applied') = Len(applied) + 1
        /\ applied'[Len(applied) + 1] = c
        /\ \A i \in 1 .. Len(applied) : applied'[i] = applied[i]
    BY <2>1, AppendProperties DEF ServerTypeOK
  <2>3. Applicable(sent[c]) /\ \A i \in 1 .. Len(applied) : applied[i] # c
    BY <2>1 DEF AppliedInv
  <2>4. \A d \in Conn : conn'[d] = "settext" => Applicable(sent'[d])
    BY <2>1 DEF AppliedInv
  <2>5. ASSUME NEW i \in 1 .. Len(applied')
        PROVE  conn'[applied'[i]] = "closed" /\ Applicable(sent'[applied'[i]])
    <3>1. CASE i = Len(applied) + 1
      BY <2>1, <2>2, <2>3, <3>1
    <3>2. CASE i \in 1 .. Len(applied)
      <4>1. applied[i] \in Conn /\ applied'[i] = applied[i]
        BY <1>0, <2>2, <3>2
      <4> QED
        BY <2>1, <3>2, <4>1 DEF AppliedInv
    <3> QED
      BY <1>0, <2>2, <3>1, <3>2
  <2>6. ASSUME NEW i \in 1 .. Len(applied'), NEW j \in 1 .. Len(applied'),
               applied'[i] = applied'[j]
        PROVE  i = j
    BY <1>0, <2>2, <2>3, <2>6 DEF AppliedInv
  <2> QED
    BY <2>4, <2>5, <2>6 DEF AppliedInv
<1> QED
  BY <1>1, <1>3, <1>4, <1>5, <1>6, <1>7, <1>8, <1>9
     DEF ServerNext, serverVars, loopVars, stopVars, Start, ServerCancel, Stop, StopFlag,
         CheckContext, AcceptFails, AfterFailure, Handler

(* Only texts of other hosts reach the clipboard, each of them once.        *)
THEOREM ServerForeignTextsOnce == ServerSpec => []OnlyForeignTexts
<1>1. ServerInit => AppliedInv
  BY DEF ServerInit, AppliedInv
<1>2. AppliedInv => OnlyForeignTexts
  BY DEF AppliedInv, OnlyForeignTexts, Applicable
<1> QED
  BY <1>1, <1>2, ServerTypeCorrect, ServerNextAppliedInv, PTL DEF ServerSpec

-----------------------------------------------------------------------------
(* The node.                                                               *)

(* A step of the node is a step of the manager or leaves it alone, and the *)
(* same of the server.                                                     *)
LEMMA NodeSteps ==
  ASSUME [Next]_vars
  PROVE  [ManagerNext]_managerVars /\ [ServerNext]_serverVars
<1> DEFINE ManagerStays == UNCHANGED managerVars
           ServerStays == UNCHANGED serverVars
<1>1. ASSUME UNCHANGED managerOnly, UNCHANGED ctxDone PROVE ManagerStays
  BY <1>1 DEF managerOnly, managerVars, monitorVars, channelVars
<1>2. ASSUME UNCHANGED serverOnly, UNCHANGED ctxDone PROVE ServerStays
  BY <1>2 DEF serverOnly, serverVars, loopVars, stopVars
<1>3. ASSUME NEW t \in Text, UserCopies(t) PROVE ManagerNext /\ ServerStays
  BY <1>2, <1>3 DEF UserCopies, Copy, ManagerNext
<1>4. CASE MonitorRuns
  BY <1>2, <1>4 DEF MonitorRuns, Poll, Misread, Reports, MonitorSend, MonitorStop,
                    MonitorStep, ManagerNext
<1>5. CASE AcceptLoop
  BY <1>1, <1>5 DEF AcceptLoop, CheckContext, Accept, AcceptFails,
                    AfterFailure, ServerNext
<1>6. ASSUME NEW p \in Stopper, StopRuns(p) PROVE ManagerStays /\ ServerNext
  BY <1>1, <1>6 DEF StopRuns, Stop, StopFlag, StopClose, ServerNext
<1>7. ASSUME NEW c \in Conn, PeerStep(c) PROVE ManagerStays /\ ServerNext
  BY <1>1, <1>7 DEF PeerStep, Connect, Send, ServerNext
<1>8. ASSUME NEW c \in Conn, RejectMessage(c) PROVE ManagerStays /\ ServerNext
  BY <1>1, <1>8 DEF RejectMessage, HandleMessage, Handler, ServerNext
<1>9. ASSUME NEW c \in Conn, AcceptMessage(c) PROVE ManagerNext /\ ServerNext
  <2>1. sent[c].content \in Text
    BY <1>9 DEF AcceptMessage, Applicable, Message
  <2> QED
    BY <1>9, <2>1 DEF AcceptMessage, ManagerNext, Handler, ServerNext
<1>10. ASSUME NEW c \in Conn, WriteText(c) PROVE ManagerNext /\ ServerStays
  BY <1>2, <1>10 DEF WriteText, SetTextWrite, SetTextStep, ManagerNext
<1>18. ASSUME NEW c \in Conn, LoseText(c) PROVE ManagerNext /\ ServerStays
  BY <1>2, <1>18 DEF LoseText, SetTextLost, SetTextStep, ManagerNext
<1>11. ASSUME NEW c \in Conn, FinishSetText(c) PROVE ManagerNext /\ ServerNext
  BY <1>11 DEF FinishSetText, SetTextStep, ManagerNext, Handler, ServerNext
<1>12. CASE StartServer
  BY <1>1, <1>12 DEF StartServer, Start, ServerNext
<1>13. CASE MainStartsMonitor
  BY <1>2, <1>13 DEF MainStartsMonitor, StartMonitor, MonitorStep, ManagerNext
<1>14. CASE SignalArrives
  BY <1>14 DEF SignalArrives, ManagerNext, ServerNext
<1>15. CASE Consume
  BY <1>2, <1>15 DEF Consume, Receive, ManagerNext
<1>16. CASE ConsumerEnds
  BY <1>1, <1>2, <1>16 DEF ConsumerEnds
<1>17. CASE UNCHANGED vars
  BY <1>1, <1>2, <1>17 DEF vars
<1> QED
  BY <1>3, <1>4, <1>5, <1>6, <1>7, <1>8, <1>9, <1>10, <1>11, <1>12, <1>13, <1>14, <1>15, <1>16,
     <1>17, <1>18 DEF Next, HandlerRuns

-----------------------------------------------------------------------------
(* The history.                                                            *)

(* The key of an entry is the ID of its item.                              *)
KeysAreIDs == \A i \in 1 .. Len(history) : history[i].key = history[i].value.id

(* Its type, with the bound of its size.                                   *)
HistoryTypeOK == history \in Seq(Entry) /\ Len(history) <= Capacity

(* The item the consumer takes has a higher ID than all it took before.     *)
LEMMA TakenIsNewest ==
  ASSUME ManagerIInv, Len(items) > 0
  PROVE  /\ Head(items) \in Item
         /\ \A k \in 1 .. Len(received) : received[k].id < Head(items).id
<1> DEFINE S == Item
           w == received \o items
<1> HIDE DEF S
<1>1. /\ received \in Seq(S) /\ items \in Seq(S) /\ Pending \in Seq(S)
      /\ stream = w \o Pending
  <2>1. Pending \in Seq(Item)
    BY DEF ManagerIInv, ManagerTypeOK, Pending
  <2> QED
    BY <2>1 DEF ManagerIInv, ManagerTypeOK, NothingLost, S
<1>2. /\ w \in Seq(S)
      /\ Len(w) = Len(received) + Len(items)
      /\ \A k \in 1 .. Len(received) + Len(items) :
           w[k] = IF k <= Len(received) THEN received[k] ELSE items[k - Len(received)]
  BY <1>1, ConcatProperties
<1>3. Len(received) \in Nat /\ Len(items) \in Nat /\ Head(items) \in S /\ Head(items) = items[1]
  BY <1>1, HeadAndTail, LenProperties
<1> DEFINE n == Len(received)
<1>4. /\ Len(w) <= Len(stream) /\ Len(stream) \in Nat
      /\ \A k \in 1 .. Len(w) : w[k] = stream[k]
  <2> HIDE DEF w
  <2> QED
    BY <1>1, <1>2, FirstPart, LenProperties
<1>5. n + 1 \in 1 .. Len(stream) /\ stream[n + 1] = Head(items)
  <2>1. n + 1 \in 1 .. Len(w) /\ w[n + 1] = items[(n + 1) - n] /\ (n + 1) - n = 1
    <3> HIDE DEF w
    <3> QED
      BY <1>2, <1>3
  <2> HIDE DEF w
  <2> QED
    BY <1>3, <1>4, <2>1
<1>6. ASSUME NEW k \in 1 .. n PROVE received[k].id < Head(items).id
  <2>1. k \in 1 .. Len(w) /\ w[k] = received[k]
    <3> HIDE DEF w
    <3> QED
      BY <1>2, <1>3
  <2>2. k \in 1 .. Len(stream) /\ stream[k] = received[k] /\ k < n + 1
    <3> HIDE DEF w
    <3> QED
      BY <1>3, <1>4, <2>1
  <2>3. stream[k].id = k /\ stream[n + 1].id = n + 1
    BY <1>5, <2>2 DEF ManagerIInv, IDsArePlaces
  <2> QED
    BY <1>5, <2>2, <2>3
<1> QED
  BY <1>3, <1>6 DEF S

(* What clipHistory.Add makes of a history that has no such key: the new   *)
(* entry before the ones that were there, as many as fit.                  *)
LEMMA AddNew ==
  ASSUME HistoryTypeOK, NEW e \in Entry, ~History!Has(history, e.key)
  PROVE  LET h == History!Kept(History!Used(history, e)) IN
           /\ h \in Seq(Entry)
           /\ Len(h) = IF Len(history) < Capacity THEN Len(history) + 1 ELSE Capacity
           /\ h[1] = e
           /\ \A i \in 2 .. Len(h) : h[i] = history[i - 1]
<1> DEFINE u == <<e>> \o history
           h == History!Kept(History!Used(history, e))
<1> SUFFICES /\ h \in Seq(Entry)
             /\ Len(h) = IF Len(history) < Capacity THEN Len(history) + 1 ELSE Capacity
             /\ h[1] = e
             /\ \A i \in 2 .. Len(h) : h[i] = history[i - 1]
  OBVIOUS
<1> HIDE DEF h
<1>1. h = History!Kept(u)
  BY DEF h, History!Used, History!Without
<1>2. Capacity \in Nat /\ Capacity > 0
  BY CapacityAssumption
<1>3. history \in Seq(Entry) /\ Len(history) \in Nat /\ Len(history) <= Capacity
  BY LenProperties DEF HistoryTypeOK
<1>4. <<e>> \in Seq(Entry) /\ Len(<<e>>) = 1 /\ <<e>>[1] = e
  OBVIOUS
<1>5. /\ u \in Seq(Entry) /\ Len(u) = 1 + Len(history)
      /\ \A i \in 1 .. 1 + Len(history) : u[i] = IF i <= 1 THEN <<e>>[i] ELSE history[i - 1]
  BY <1>3, <1>4, ConcatProperties
<1> HIDE DEF u
<1>6. u[1] = e /\ \A i \in 2 .. Len(u) : u[i] = history[i - 1]
  BY <1>3, <1>4, <1>5
<1>7. CASE Len(history) < Capacity
  <2>1. h = u
    BY <1>1, <1>2, <1>3, <1>5, <1>7 DEF History!Kept
  <2> QED
    BY <1>3, <1>5, <1>6, <1>7, <2>1
<1>8. CASE Len(history) = Capacity
  <2>1. h = SubSeq(u, 1, Capacity)
    BY <1>1, <1>2, <1>3, <1>5, <1>8 DEF History!Kept
  <2>2. \A i \in 1 .. Capacity : u[i] \in Entry
    BY <1>3, <1>5, <1>8, ElementOfSeq
  <2>3. /\ SubSeq(u, 1, Capacity) \in Seq(Entry)
        /\ Len(SubSeq(u, 1, Capacity)) = IF 1 <= Capacity THEN Capacity - 1 + 1 ELSE 0
        /\ \A i \in 1 .. Capacity - 1 + 1 : SubSeq(u, 1, Capacity)[i] = u[1 + i - 1]
    BY <1>2, <2>2, SubSeqProperties
  <2>4. Len(h) = Capacity
    BY <1>2, <2>1, <2>3
  <2>5. ASSUME NEW i \in 1 .. Capacity PROVE h[i] = u[i]
    <3>1. i \in 1 .. Capacity - 1 + 1 /\ 1 + i - 1 = i
      BY <1>2
    <3> QED
      BY <2>1, <2>3, <3>1
  <2>6. h[1] = e
    BY <1>2, <1>6, <2>5
  <2>7. ASSUME NEW i \in 2 .. Len(h) PROVE h[i] = history[i - 1]
    BY <1>2, <1>3, <1>5, <1>6, <1>8, <2>4, <2>5
  <2>8. h \in Seq(Entry) /\ ~(Len(history) < Capacity)
    BY <1>2, <1>8, <2>1, <2>3
  <2> QED
    BY <2>4, <2>6, <2>7, <2>8
<1> QED
  BY <1>2, <1>3, <1>7, <1>8

(* What Consume keeps of the history, inductively.                         *)
HistoryInv == HistoryTypeOK /\ KeysAreIDs /\ HistoryIsLatest

(* Consume puts a younger item before the history, with a key it has not   *)
(* yet; the other steps touch neither the history nor what was received.   *)
LEMMA HistoryStep ==
  ASSUME ManagerIInv, HistoryInv, [Next]_vars
  PROVE  HistoryInv'
<1>1. CASE UNCHANGED <<history, received>>
  BY <1>1 DEF HistoryInv, HistoryTypeOK, KeysAreIDs, HistoryIsLatest
<1>2. CASE Consume
  <2> DEFINE it == Head(items)
             e == [key |-> ID(it), value |-> it]
             n == Len(received)
             h == history'
  <2>1. Len(items) > 0 /\ received' = Append(received, it)
    BY <1>2 DEF Consume, Receive
  <2>2. it \in Item /\ \A k \in 1 .. n : received[k].id < it.id
    BY <2>1, TakenIsNewest
  <2>3. it.id \in Nat /\ e \in Entry /\ e.key = it.id /\ e.value = it
    BY <2>2 DEF Entry, ID, Item
  <2>4. /\ history \in Seq(Entry) /\ Len(history) \in Nat /\ n \in Nat
        /\ received \in Seq(Item) /\ Capacity \in Nat \ {0}
    BY CapacityAssumption, LenProperties DEF HistoryInv, HistoryTypeOK, ManagerIInv, ManagerTypeOK
  <2>5. /\ Len(history) = IF n < Capacity THEN n ELSE Capacity
        /\ \A i \in 1 .. Len(history) : history[i].value = received[n + 1 - i]
        /\ \A i \in 1 .. Len(history) : history[i].key = history[i].value.id
    BY DEF HistoryInv, HistoryIsLatest, KeysAreIDs
  <2>6. ~History!Has(history, e.key)
    <3>1. ASSUME NEW i \in 1 .. Len(history) PROVE history[i].key # it.id
      <4>1. n + 1 - i \in 1 .. n
        BY <2>4, <2>5
      <4>2. received[n + 1 - i] \in Item
        BY <2>4, <4>1, ElementOfSeq
      <4>3. received[n + 1 - i].id \in Nat
        BY <4>2 DEF Item
      <4> QED
        BY <2>2, <2>3, <2>5, <4>1, <4>3
    <3> QED
      BY <2>3, <3>1 DEF History!Has
  <2>7. /\ h \in Seq(Entry)
        /\ Len(h) = IF Len(history) < Capacity THEN Len(history) + 1 ELSE Capacity
        /\ h[1] = e
        /\ \A i \in 2 .. Len(h) : h[i] = history[i - 1]
    <3>1. h = History!Kept(History!Used(history, e))
      BY <1>2, <2>3 DEF Consume, Record, History!Added
    <3> HIDE DEF e, h
    <3> QED
      BY <2>3, <2>6, <3>1, AddNew DEF HistoryInv
  <2>8. /\ Len(received') = n + 1 /\ received'[n + 1] = it
        /\ \A k \in 1 .. n : received'[k] = received[k]
    BY <2>1, <2>2, <2>4, AppendProperties
  <2> HIDE DEF it, e, n, h
  <2>9. Len(h) = IF n + 1 < Capacity THEN n + 1 ELSE Capacity
    BY <2>4, <2>5, <2>7
  <2>10. ASSUME NEW i \in 1 .. Len(h)
         PROVE  h[i].value = received'[n + 1 + 1 - i] /\ h[i].key = h[i].value.id
    <3>1. CASE i = 1
      <4>1. n + 1 + 1 - i = n + 1
        BY <2>4, <3>1
      <4> QED
        BY <2>3, <2>7, <2>8, <3>1, <4>1
    <3>2. CASE i > 1
      <4>1. i \in 2 .. Len(h) /\ i - 1 \in 1 .. Len(history)
        BY <2>4, <2>5, <2>7, <2>9, <3>2
      <4>2. n + 1 - (i - 1) = n + 1 + 1 - i /\ n + 1 - (i - 1) \in 1 .. n
        <5>1. Len(history) \in Nat /\ n \in Nat /\ Capacity \in Nat
          BY <2>4
        <5>2. Len(history) = IF n < Capacity THEN n ELSE Capacity
          BY <2>5
        <5>3. Len(history) <= n
          BY <5>1, <5>2
        <5>4. i \in Nat /\ i >= 2 /\ i - 1 <= Len(history)
          BY <4>1, <5>1
        <5> QED
          BY <5>1, <5>3, <5>4
      <4> QED
        BY <2>5, <2>7, <2>8, <4>1, <4>2
    <3> QED
      BY <2>4, <2>9, <3>1, <3>2
  <2>11. Len(h) <= Capacity
    BY <2>4, <2>9
  <2> QED
    BY <2>7, <2>8, <2>9, <2>10, <2>11 DEF HistoryInv, HistoryTypeOK, KeysAreIDs, HistoryIsLatest, h
<1> QED
  BY <1>1, <1>2 DEF Next, vars, nodeOnly, managerOnly, UserCopies, MonitorRuns, AcceptLoop, StopRuns, PeerStep,
     HandlerRuns, RejectMessage, AcceptMessage, WriteText, LoseText, FinishSetText, StartServer,
     MainStartsMonitor, SignalArrives,
     ConsumerEnds, Copy, Poll, Misread, Reports, MonitorSend, MonitorStop,
     SetTextBegin, SetTextWrite, SetTextLost, SetTextFail, SetTextRecord,
     StartMonitor, ManagerCancel, channelVars

-----------------------------------------------------------------------------
(* The handlers and SetText.                                               *)

(* A connection waits for SetText exactly while its handler is in it, and  *)
(* the text on its way to the clipboard is the one the peer sent.          *)
HandlersAreCallers ==
  \A c \in Conn :
    /\ call[c].phase # "idle" <=> conn[c] = "settext"
    /\ call[c].phase # "idle" => call[c].text = sent[c].content

(* Steps that touch neither calls, connections nor messages keep it; one   *)
(* that touches them does so for one connection, in both parts at once.    *)
LEMMA HandlersStep ==
  ASSUME ManagerTypeOK, ServerTypeOK, HandlersAreCallers, [Next]_vars
  PROVE  HandlersAreCallers'
<1>1. call \in [Conn -> Call] /\ conn \in [Conn -> {"none", "backlog", "reset", "decode", "settext", "closed"}]
      /\ sent \in [Conn -> Message \cup {Nothing, Unreadable}]
  BY DEF ManagerTypeOK, ServerTypeOK
<1>2. CASE UNCHANGED <<call, conn, sent>>
  BY <1>2 DEF HandlersAreCallers
<1>3. CASE call' = call /\ sent' = sent
           /\ \A c \in Conn : conn'[c] = "settext" <=> conn[c] = "settext"
  BY <1>3 DEF HandlersAreCallers
<1>4. CASE AcceptLoop
  <2>1. ASSUME NEW c \in Conn, Accept(c), UNCHANGED managerOnly PROVE HandlersAreCallers'
    <3>1. call' = call /\ sent' = sent /\ \A d \in Conn : conn'[d] = "settext" <=> conn[d] = "settext"
      BY <1>1, <2>1 DEF Accept, managerOnly
    <3> QED
      BY <1>3, <3>1
  <2> QED
    BY <1>2, <1>4, <2>1 DEF AcceptLoop, managerOnly, CheckContext, AcceptFails, AfterFailure,
                            stopVars
<1>5. ASSUME NEW p \in Stopper, StopRuns(p) PROVE HandlersAreCallers'
  <2>1. CASE StopFlag(p)
    BY <1>2, <1>5, <2>1 DEF StopRuns, managerOnly, StopFlag
  <2>2. CASE StopClose(p)
    <3>1. call' = call /\ sent' = sent /\ \A c \in Conn : conn'[c] = "settext" <=> conn[c] = "settext"
      BY <1>1, <1>5, <2>2 DEF StopRuns, managerOnly, StopClose
    <3> QED
      BY <1>3, <3>1
  <2> QED
    BY <1>5, <2>1, <2>2 DEF StopRuns, Stop
<1>6. ASSUME NEW c \in Conn, PeerStep(c) PROVE HandlersAreCallers'
  <2>1. CASE Connect(c)
    <3>1. call' = call /\ sent' = sent /\ \A d \in Conn : conn'[d] = "settext" <=> conn[d] = "settext"
      BY <1>1, <1>6, <2>1 DEF PeerStep, managerOnly, Connect
    <3> QED
      BY <1>3, <3>1
  <2>2. ASSUME NEW m \in Message \cup {Unreadable}, Send(c, m) PROVE HandlersAreCallers'
    \* A message comes before its handler calls SetText.
    <3>1. call' = call /\ conn' = conn /\ conn[c] # "settext" /\ \A d \in Conn : d # c => sent'[d] = sent[d]
      BY <1>1, <1>6, <2>2 DEF PeerStep, managerOnly, Send
    <3> QED
      BY <3>1 DEF HandlersAreCallers
  <2> QED
    BY <1>6, <2>1, <2>2 DEF PeerStep
\* One handler moves, the others stay.
<1>7. ASSUME NEW c \in Conn, sent' = sent,
             \A d \in Conn : d # c => call'[d] = call[d] /\ conn'[d] = conn[d],
             call'[c].phase # "idle" <=> conn'[c] = "settext",
             call'[c].phase # "idle" => call'[c].text = sent[c].content
      PROVE  HandlersAreCallers'
  BY <1>7 DEF HandlersAreCallers
<1>8. ASSUME NEW c \in Conn, RejectMessage(c) PROVE HandlersAreCallers'
  <2>1. call' = call /\ sent' = sent /\ \A d \in Conn : conn'[d] = "settext" <=> conn[d] = "settext"
    BY <1>1, <1>8 DEF RejectMessage, managerOnly, HandleMessage
  <2> QED
    BY <1>3, <2>1
<1>9. ASSUME NEW c \in Conn, AcceptMessage(c) PROVE HandlersAreCallers'
  <2>1. sent' = sent /\ conn' = [conn EXCEPT ![c] = "settext"]
        /\ call' = [call EXCEPT ![c] = [phase |-> "write", text |-> sent[c].content]]
    BY <1>9 DEF AcceptMessage, HandleMessage, SetTextBegin
  <2>2. \A d \in Conn : d # c => call'[d] = call[d] /\ conn'[d] = conn[d]
    BY <1>1, <2>1
  <2>3. call'[c] = [phase |-> "write", text |-> sent[c].content] /\ conn'[c] = "settext"
    BY <1>1, <2>1
  <2> QED
    BY <1>7, <2>1, <2>2, <2>3
<1>10. ASSUME NEW c \in Conn, WriteText(c) \/ LoseText(c) PROVE HandlersAreCallers'
  <2>1. sent' = sent /\ conn' = conn /\ call[c].phase = "write"
        /\ call' = [call EXCEPT ![c] = [phase |-> "record", text |-> call[c].text]]
    BY <1>10 DEF WriteText, LoseText, serverOnly, SetTextWrite, SetTextLost
  <2>2. \A d \in Conn : d # c => call'[d] = call[d] /\ conn'[d] = conn[d]
    BY <1>1, <2>1
  <2>3. call'[c] = [phase |-> "record", text |-> call[c].text]
    BY <1>1, <2>1
  <2>4. conn[c] = "settext" /\ call[c].text = sent[c].content
    BY <2>1 DEF HandlersAreCallers
  <2> QED
    BY <1>7, <2>1, <2>2, <2>3, <2>4
<1>11. ASSUME NEW c \in Conn, FinishSetText(c) PROVE HandlersAreCallers'
  <2>1. sent' = sent /\ conn' = [conn EXCEPT ![c] = "closed"] /\ call' = [call EXCEPT ![c] = Idle]
    BY <1>11 DEF FinishSetText, SetTextReturns, SetTextFail, SetTextRecord
  <2>2. \A d \in Conn : d # c => call'[d] = call[d] /\ conn'[d] = conn[d]
    BY <1>1, <2>1
  <2>3. call'[c].phase = "idle" /\ conn'[c] = "closed"
    BY <1>1, <2>1 DEF Idle
  <2> QED
    BY <1>7, <2>1, <2>2, <2>3
<1>12. ASSUME NEW t \in Text, UserCopies(t) PROVE HandlersAreCallers'
  BY <1>2, <1>12 DEF UserCopies, serverOnly, Copy
<1>13. CASE MonitorRuns
  BY <1>2, <1>13 DEF MonitorRuns, serverOnly, Poll, Misread, Reports, MonitorSend, MonitorStop
<1>14. CASE StartServer \/ MainStartsMonitor \/ SignalArrives
  BY <1>2, <1>14 DEF StartServer, MainStartsMonitor, SignalArrives, serverOnly, managerOnly, Start, ServerCancel,
                     StartMonitor, ManagerCancel
<1>15. CASE Consume \/ ConsumerEnds
  BY <1>2, <1>15 DEF Consume, ConsumerEnds, serverOnly, managerOnly, Receive
<1>16. CASE UNCHANGED vars
  BY <1>2, <1>16 DEF vars, serverOnly, managerOnly
<1> QED
  BY <1>4, <1>5, <1>6, <1>8, <1>9, <1>10, <1>11, <1>12, <1>13, <1>14, <1>15, <1>16 DEF Next, HandlerRuns

(* Every item that goes to the peers carries the name of this host, and    *)
(* the node knows of every text on the clipboard who put it there.         *)
OwnTypeOK ==
  /\ consumer \in {"off", "select", "done"}
  /\ forwarded \in Seq(Sent)
  /\ origin \in Seq(SUBSET Conn) /\ Len(origin) = Len(clipboard)

(* A write appends to the clipboard and to origin at once.                 *)
LEMMA OwnTypeStep ==
  ASSUME ManagerIInv, OwnTypeOK, [Next]_vars
  PROVE  OwnTypeOK'
<1> DEFINE Who == SUBSET Conn
<1>1. origin \in Seq(Who) /\ clipboard \in Seq(Text) /\ Len(origin) = Len(clipboard)
      /\ forwarded \in Seq(Sent) /\ call \in [Conn -> Call]
  BY DEF OwnTypeOK, ManagerIInv, ManagerTypeOK
<1> HIDE DEF Who
<1>2. ASSUME NEW t \in Text, NEW w \in Who, clipboard' = Append(clipboard, t), origin' = Append(origin, w)
      PROVE  origin' \in Seq(Who) /\ Len(origin') = Len(clipboard')
  BY <1>1, <1>2, AppendProperties
<1>3. CASE UNCHANGED <<consumer, forwarded, origin, clipboard>>
  BY <1>3 DEF OwnTypeOK
<1>4. ASSUME NEW t \in Text, UserCopies(t) PROVE OwnTypeOK'
  <2>1. {} \in Who
    BY DEF Who
  <2>2. clipboard' = Append(clipboard, t) /\ origin' = Append(origin, {}) /\ UNCHANGED <<consumer, forwarded>>
    BY <1>4 DEF UserCopies, Copy
  <2> QED
    BY <1>2, <2>1, <2>2 DEF OwnTypeOK, Who
<1>5. ASSUME NEW c \in Conn, WriteText(c) PROVE OwnTypeOK'
  <2>1. {c} \in Who /\ call[c].text \in Text
    BY <1>1 DEF Who, Call
  <2>2. clipboard' = Append(clipboard, call[c].text) /\ origin' = Append(origin, {c})
        /\ UNCHANGED <<consumer, forwarded>>
    BY <1>5 DEF WriteText, SetTextWrite
  <2> QED
    BY <1>2, <2>1, <2>2 DEF OwnTypeOK, Who
<1>6. CASE Consume
  <2>1. Head(items) \in Item
    BY <1>6, TakenIsNewest DEF Consume, Receive
  <2>2. Stamped(Head(items)) \in Sent
    BY <2>1 DEF Stamped, Sent, Item
  <2>3. forwarded' \in Seq(Sent)
    BY <1>1, <1>6, <2>2, AppendProperties DEF Consume
  <2>4. UNCHANGED <<consumer, origin, clipboard>>
    BY <1>6 DEF Consume, Receive
  <2> QED
    BY <2>3, <2>4 DEF OwnTypeOK
<1>7. CASE ConsumerEnds \/ MainStartsMonitor
  BY <1>7 DEF OwnTypeOK, ConsumerEnds, MainStartsMonitor, managerOnly, StartMonitor
<1>8. CASE MonitorRuns
  BY <1>3, <1>8 DEF MonitorRuns, nodeOnly, Poll, Misread, Reports, MonitorSend, MonitorStop
<1>9. CASE AcceptLoop \/ StartServer \/ \E p \in Stopper : StopRuns(p)
  BY <1>3, <1>9 DEF AcceptLoop, StartServer, StopRuns, nodeOnly, managerOnly
<1>10. ASSUME NEW c \in Conn, PeerStep(c) \/ RejectMessage(c) \/ AcceptMessage(c) \/ LoseText(c) \/ FinishSetText(c)
       PROVE  OwnTypeOK'
  BY <1>3, <1>10 DEF PeerStep, RejectMessage, AcceptMessage, LoseText, FinishSetText, nodeOnly, managerOnly,
                     SetTextBegin, SetTextLost, SetTextFail, SetTextRecord
<1>11. CASE SignalArrives
  BY <1>3, <1>11 DEF SignalArrives, nodeOnly, ManagerCancel
<1>12. CASE UNCHANGED vars
  BY <1>3, <1>12 DEF vars, nodeOnly, managerOnly
<1> QED
  BY <1>4, <1>5, <1>6, <1>7, <1>8, <1>9, <1>10, <1>11, <1>12 DEF Next, HandlerRuns

(* What came over a connection is the text of a message of another host.    *)
(* Once its handler has written, it only has to record the text: nothing    *)
(* takes it back to a write, and it ends with an entry of applied.          *)
IsApplied(c) == \E k \in 1 .. Len(applied) : applied[k] = c
WrittenInv ==
  \A i \in 1 .. Len(origin) : \A c \in origin[i] :
    /\ Applicable(sent[c]) /\ clipboard[i] = sent[c].content
    /\ \A j \in 1 .. Len(origin) : c \in origin[j] => i = j
    /\ call[c].phase = "record" \/ (conn[c] = "closed" /\ IsApplied(c))

(* Only a handler whose call stands before the write extends it.           *)
LEMMA WrittenStep ==
  ASSUME ManagerTypeOK, ServerTypeOK, AppliedInv, HandlersAreCallers, OwnTypeOK, WrittenInv, [Next]_vars
  PROVE  WrittenInv'
<1>1. /\ call \in [Conn -> Call] /\ conn \in [Conn -> {"none", "backlog", "reset", "decode", "settext", "closed"}]
      /\ sent \in [Conn -> Message \cup {Nothing, Unreadable}]
      /\ origin \in Seq(SUBSET Conn) /\ clipboard \in Seq(Text) /\ Len(origin) = Len(clipboard)
      /\ applied \in Seq(Conn) /\ Len(origin) \in Nat
  BY LenProperties DEF ManagerTypeOK, ServerTypeOK, OwnTypeOK
<1>2. \A i \in 1 .. Len(origin) : origin[i] \subseteq Conn
  BY <1>1, ElementOfSeq
\* A handler that wrote only moves on, and its message stays.
<1> DEFINE MovesOn(c) ==
             /\ Applicable(sent[c]) => sent'[c] = sent[c]
             /\ call[c].phase = "record" => call'[c].phase = "record" \/ (conn'[c] = "closed" /\ IsApplied(c)')
             /\ conn[c] = "closed" => conn'[c] = "closed"
             /\ IsApplied(c) => IsApplied(c)'
<1>3. ASSUME UNCHANGED <<origin, clipboard>>, \A c \in Conn : MovesOn(c) PROVE WrittenInv'
  <2> HIDE DEF IsApplied
  <2>1. ASSUME NEW i \in 1 .. Len(origin), NEW c \in origin[i]
        PROVE  /\ Applicable(sent'[c]) /\ clipboard[i] = sent'[c].content
               /\ \A j \in 1 .. Len(origin) : c \in origin[j] => i = j
               /\ call'[c].phase = "record" \/ (conn'[c] = "closed" /\ IsApplied(c)')
    <3>1. c \in Conn
      BY <1>2, <2>1
    <3>2. MovesOn(c)
      BY <1>3, <3>1
    <3> QED
      BY <3>2 DEF WrittenInv
  <2> QED
    BY <1>3, <2>1 DEF WrittenInv, Applicable
<1>4. ASSUME UNCHANGED <<origin, clipboard, call, conn, sent, applied>> PROVE WrittenInv'
  BY <1>4 DEF WrittenInv, IsApplied, Applicable
<1>5. ASSUME UNCHANGED <<origin, clipboard, call, sent, applied>>,
             \A c \in Conn : conn[c] = "closed" => conn'[c] = "closed"
      PROVE  WrittenInv'
  BY <1>3, <1>5 DEF IsApplied
<1>6. CASE AcceptLoop
  <2>1. ASSUME NEW c \in Conn, Accept(c), UNCHANGED <<managerOnly, nodeOnly>> PROVE WrittenInv'
    BY <1>1, <1>5, <2>1 DEF Accept, managerOnly, nodeOnly
  <2> QED
    BY <1>4, <1>6, <2>1 DEF AcceptLoop, managerOnly, nodeOnly, CheckContext, AcceptFails, AfterFailure
<1>7. ASSUME NEW p \in Stopper, StopRuns(p) PROVE WrittenInv'
  <2>1. CASE StopFlag(p)
    BY <1>4, <1>7, <2>1 DEF StopRuns, managerOnly, nodeOnly, StopFlag
  <2>2. CASE StopClose(p)
    BY <1>1, <1>5, <1>7, <2>2 DEF StopRuns, managerOnly, nodeOnly, StopClose
  <2> QED
    BY <1>7, <2>1, <2>2 DEF StopRuns, Stop
<1>8. ASSUME NEW c \in Conn, PeerStep(c) PROVE WrittenInv'
  <2>1. CASE Connect(c)
    BY <1>1, <1>5, <1>8, <2>1 DEF PeerStep, managerOnly, nodeOnly, Connect
  <2>2. ASSUME NEW m \in Message \cup {Unreadable}, Send(c, m) PROVE WrittenInv'
    <3>1. UNCHANGED <<origin, clipboard, call, conn, applied>> /\ \A d \in Conn : d # c => sent'[d] = sent[d]
      BY <1>1, <1>8, <2>2 DEF PeerStep, managerOnly, nodeOnly, Send
    <3>2. ~Applicable(sent[c])
      BY <2>2, SentAssumption DEF Send, Applicable
    <3> QED
      BY <1>3, <3>1, <3>2 DEF IsApplied
  <2> QED
    BY <1>8, <2>1, <2>2 DEF PeerStep
<1>9. ASSUME NEW c \in Conn, RejectMessage(c) PROVE WrittenInv'
  BY <1>1, <1>5, <1>9 DEF RejectMessage, managerOnly, nodeOnly, HandleMessage
<1>10. ASSUME NEW c \in Conn, AcceptMessage(c) PROVE WrittenInv'
  <2>1. /\ UNCHANGED <<origin, clipboard, sent, applied>>
        /\ call[c].phase = "idle" /\ conn[c] = "decode"
        /\ call' = [call EXCEPT ![c] = [phase |-> "write", text |-> sent[c].content]]
        /\ conn' = [conn EXCEPT ![c] = IF Applicable(sent[c]) THEN "settext" ELSE "closed"]
    BY <1>10 DEF AcceptMessage, nodeOnly, HandleMessage, SetTextBegin
  <2>2. \A d \in Conn : d # c => call'[d] = call[d] /\ conn'[d] = conn[d]
    BY <1>1, <2>1
  <2> QED
    BY <1>3, <2>1, <2>2 DEF IsApplied
<1>11. ASSUME NEW c \in Conn, LoseText(c) PROVE WrittenInv'
  <2>1. /\ UNCHANGED <<origin, clipboard, sent, applied, conn>>
        /\ call' = [call EXCEPT ![c] = [phase |-> "record", text |-> call[c].text]]
    BY <1>11 DEF LoseText, serverOnly, nodeOnly, SetTextLost
  <2>2. \A d \in Conn : call[d].phase = "record" => call'[d].phase = "record"
    BY <1>1, <2>1
  <2> QED
    BY <1>3, <2>1, <2>2 DEF IsApplied
<1>12. ASSUME NEW c \in Conn, FinishSetText(c) PROVE WrittenInv'
  <2>1. /\ UNCHANGED <<origin, clipboard, sent>>
        /\ conn' = [conn EXCEPT ![c] = "closed"] /\ call' = [call EXCEPT ![c] = Idle]
    BY <1>12 DEF FinishSetText, nodeOnly, SetTextReturns, SetTextFail, SetTextRecord
  <2>2. /\ conn'[c] = "closed"
        /\ \A d \in Conn : d # c => call'[d] = call[d] /\ conn'[d] = conn[d]
    BY <1>1, <2>1
  <2>3. CASE SetTextFail(c) /\ SetTextReturns(c, FALSE)
    <3>1. call[c].phase = "write" /\ applied' = applied
      BY <2>3 DEF SetTextFail, SetTextReturns
    <3> QED
      BY <1>3, <2>1, <2>2, <3>1 DEF IsApplied
  <2>4. CASE SetTextRecord(c) /\ SetTextReturns(c, TRUE)
    <3>1. applied' = Append(applied, c)
      BY <2>4 DEF SetTextReturns
    <3>2. /\ Len(applied') = Len(applied) + 1 /\ Len(applied) \in Nat
          /\ applied'[Len(applied) + 1] = c
          /\ \A k \in 1 .. Len(applied) : applied'[k] = applied[k]
      BY <1>1, <3>1, AppendProperties, LenProperties
    <3>3. IsApplied(c)' /\ \A d \in Conn : IsApplied(d) => IsApplied(d)'
      BY <3>2 DEF IsApplied
    <3> QED
      BY <1>3, <2>1, <2>2, <3>3
  <2> QED
    BY <1>12, <2>3, <2>4 DEF FinishSetText
\* A write extends the clipboard and origin at once.
<1>13. ASSUME NEW w \in SUBSET Conn, NEW s \in Text,
              origin' = Append(origin, w), clipboard' = Append(clipboard, s)
       PROVE  /\ Len(origin') = Len(origin) + 1
              /\ origin'[Len(origin) + 1] = w /\ clipboard'[Len(origin) + 1] = s
              /\ \A i \in 1 .. Len(origin) : origin'[i] = origin[i] /\ clipboard'[i] = clipboard[i]
  BY <1>1, <1>13, AppendProperties
<1>14. ASSUME NEW s \in Text, UserCopies(s) PROVE WrittenInv'
  <2>1. /\ origin' = Append(origin, {}) /\ clipboard' = Append(clipboard, s)
        /\ UNCHANGED <<call, conn, sent, applied>>
    BY <1>14 DEF UserCopies, serverOnly, Copy
  <2>2. /\ Len(origin') = Len(origin) + 1 /\ origin'[Len(origin) + 1] = {}
        /\ \A i \in 1 .. Len(origin) : origin'[i] = origin[i] /\ clipboard'[i] = clipboard[i]
    BY <1>13, <2>1
  <2>3. \A i \in 1 .. Len(origin') : i # Len(origin) + 1 => i \in 1 .. Len(origin)
    BY <1>1, <2>2
  <2>4. \A i \in 1 .. Len(origin') : origin'[i] # {} => i \in 1 .. Len(origin)
    BY <2>2, <2>3
  <2>5. ASSUME NEW i \in 1 .. Len(origin'), NEW c \in origin'[i]
        PROVE  /\ Applicable(sent[c]) /\ clipboard'[i] = sent[c].content
               /\ \A j \in 1 .. Len(origin') : c \in origin'[j] => i = j
               /\ call[c].phase = "record" \/ (conn[c] = "closed" /\ IsApplied(c))
    <3>1. i \in 1 .. Len(origin) /\ c \in origin[i]
      BY <2>2, <2>4
    <3>2. \A j \in 1 .. Len(origin') : c \in origin'[j] => j \in 1 .. Len(origin) /\ c \in origin[j]
      BY <2>2, <2>4
    <3> QED
      BY <2>2, <3>1, <3>2 DEF WrittenInv
  <2>9. ASSUME NEW i \in 1 .. Len(origin'), NEW c \in origin'[i]
        PROVE  /\ Applicable(sent'[c]) /\ clipboard'[i] = sent'[c].content
               /\ \A j \in 1 .. Len(origin') : c \in origin'[j] => i = j
               /\ call'[c].phase = "record" \/ (conn'[c] = "closed" /\ IsApplied(c)')
    BY <2>1, <2>5, <2>9 DEF IsApplied
  <2> QED
    BY <2>9 DEF WrittenInv, Applicable
<1>15. ASSUME NEW c \in Conn, WriteText(c) PROVE WrittenInv'
  <2>1. /\ origin' = Append(origin, {c}) /\ clipboard' = Append(clipboard, call[c].text)
        /\ UNCHANGED <<conn, sent, applied>> /\ call[c].phase = "write"
        /\ call' = [call EXCEPT ![c] = [phase |-> "record", text |-> call[c].text]]
    BY <1>15 DEF WriteText, serverOnly, SetTextWrite
  <2>2. call'[c].phase = "record" /\ \A d \in Conn : d # c => call'[d] = call[d]
    BY <1>1, <2>1
  <2>3. call[c].text \in Text
    BY <1>1 DEF Call
  <2>4. /\ Len(origin') = Len(origin) + 1 /\ origin'[Len(origin) + 1] = {c}
        /\ clipboard'[Len(origin) + 1] = call[c].text
        /\ \A i \in 1 .. Len(origin) : origin'[i] = origin[i] /\ clipboard'[i] = clipboard[i]
    BY <1>13, <2>1, <2>3
  <2>5. conn[c] = "settext" /\ Applicable(sent[c]) /\ call[c].text = sent[c].content
    BY <2>1 DEF HandlersAreCallers, AppliedInv
  <2>6. \A i \in 1 .. Len(origin) : c \notin origin[i]
    BY <2>1, <2>5 DEF WrittenInv
  <2>7. \A i \in 1 .. Len(origin') : i = Len(origin) + 1 \/ i \in 1 .. Len(origin)
    BY <1>1, <2>4
  <2>8. ASSUME NEW i \in 1 .. Len(origin'), NEW d \in origin'[i]
        PROVE  /\ Applicable(sent[d]) /\ clipboard'[i] = sent[d].content
               /\ \A j \in 1 .. Len(origin') : d \in origin'[j] => i = j
               /\ call'[d].phase = "record" \/ (conn[d] = "closed" /\ IsApplied(d))
    <3>1. CASE d = c
      <4>1. \A j \in 1 .. Len(origin') : d \in origin'[j] => j = Len(origin) + 1
        BY <2>4, <2>6, <2>7, <3>1
      <4> QED
        BY <2>2, <2>4, <2>5, <3>1, <4>1
    <3>2. CASE d # c
      <4>1. \A j \in 1 .. Len(origin') : d \in origin'[j] => j \in 1 .. Len(origin) /\ d \in origin[j]
        BY <2>4, <2>7, <3>2
      <4>2. i \in 1 .. Len(origin) /\ d \in origin[i] /\ d \in Conn
        BY <1>2, <4>1
      <4> QED
        BY <2>2, <2>4, <3>2, <4>1, <4>2 DEF WrittenInv
    <3> QED
      BY <3>1, <3>2
  <2>9. ASSUME NEW i \in 1 .. Len(origin'), NEW d \in origin'[i]
        PROVE  /\ Applicable(sent'[d]) /\ clipboard'[i] = sent'[d].content
               /\ \A j \in 1 .. Len(origin') : d \in origin'[j] => i = j
               /\ call'[d].phase = "record" \/ (conn'[d] = "closed" /\ IsApplied(d)')
    <3>1. UNCHANGED <<conn, sent, applied>>
      BY <2>1
    <3>2. /\ Applicable(sent[d]) /\ clipboard'[i] = sent[d].content
          /\ \A j \in 1 .. Len(origin') : d \in origin'[j] => i = j
          /\ call'[d].phase = "record" \/ (conn[d] = "closed" /\ IsApplied(d))
      BY <2>8
    <3> QED
      BY <3>1, <3>2 DEF IsApplied
  <2> QED
    BY <2>9 DEF WrittenInv, Applicable
<1>16. CASE MonitorRuns
  BY <1>4, <1>16 DEF MonitorRuns, serverOnly, nodeOnly, Poll, Misread, Reports, MonitorSend, MonitorStop
<1>17. CASE StartServer \/ MainStartsMonitor \/ SignalArrives
  BY <1>4, <1>17 DEF StartServer, MainStartsMonitor, SignalArrives, serverOnly, managerOnly, nodeOnly,
                     Start, ServerCancel, StartMonitor, ManagerCancel
<1>18. CASE Consume \/ ConsumerEnds
  BY <1>4, <1>18 DEF Consume, ConsumerEnds, serverOnly, managerOnly, Receive
<1>19. CASE UNCHANGED vars
  BY <1>4, <1>19 DEF vars, serverOnly, managerOnly, nodeOnly
<1> QED
  BY <1>6, <1>7, <1>8, <1>9, <1>10, <1>11, <1>12, <1>14, <1>15, <1>16, <1>17, <1>18, <1>19
     DEF Next, HandlerRuns

(* All of it together.                                                     *)
NodeInv ==
  /\ ManagerIInv /\ ServerTypeOK /\ AppliedInv
  /\ HistoryInv /\ HandlersAreCallers /\ OwnTypeOK /\ WrittenInv

(* The invariant of the node: those of the parts, the history, the coupling *)
(* of handlers and calls and what became of their texts.                    *)
LEMMA NodeInvariant == Spec => []NodeInv
<1>1. Init => AppliedInv /\ HistoryInv /\ HandlersAreCallers /\ OwnTypeOK /\ WrittenInv
  <2> SUFFICES ASSUME Init PROVE AppliedInv /\ HistoryInv /\ HandlersAreCallers /\ OwnTypeOK /\ WrittenInv
    OBVIOUS
  <2>1. history = <<>> /\ received = <<>> /\ forwarded = <<>>
        /\ Len(<<>>) = 0 /\ <<>> \in Seq(Entry) /\ <<>> \in Seq(Sent)
    BY EmptySeq DEF Init, ManagerInit
  <2>2. Len(history) = 0 /\ Len(received) = 0 /\ Capacity \in Nat /\ 0 < Capacity
    BY <2>1, CapacityAssumption
  <2>3. HistoryInv
    BY <2>1, <2>2 DEF HistoryInv, HistoryTypeOK, KeysAreIDs, HistoryIsLatest
  <2>4. HandlersAreCallers
    BY DEF HandlersAreCallers, Init, ManagerInit, Idle, ServerInit
  <2>5. origin = <<{}>> /\ Len(origin) = 1 /\ Len(clipboard) = 1 /\ origin \in Seq(SUBSET Conn)
    BY DEF Init, ManagerInit
  <2>6. AppliedInv
    BY <2>1 DEF AppliedInv, Init, ServerInit
  <2>7. WrittenInv
    BY <2>5 DEF WrittenInv
  <2> QED
    BY <2>1, <2>3, <2>4, <2>5, <2>6, <2>7 DEF OwnTypeOK, Init
<1>2. Init => ManagerIInv /\ ServerTypeOK
  BY ManagerInitIInv, ServerInitTypeOK DEF Init
<1>3. NodeInv /\ [Next]_vars => NodeInv'
  <2>1. ManagerIInv => ManagerTypeOK
    BY DEF ManagerIInv
  <2> QED
    BY <2>1, NodeSteps, ManagerNextIInv, ServerNextTypeOK, ServerNextAppliedInv, HistoryStep, HandlersStep,
       OwnTypeStep, WrittenStep DEF NodeInv
<1> QED
  BY <1>1, <1>2, <1>3, PTL DEF Spec, NodeInv

(* Type correctness of the node.                                           *)
THEOREM TypeCorrect == Spec => []TypeOK
<1>1. NodeInv => TypeOK
  BY DEF NodeInv, TypeOK, ManagerIInv, HistoryInv, HistoryTypeOK, HandlersAreCallers, OwnTypeOK
<1> QED
  BY <1>1, NodeInvariant, PTL

(* The history holds the last items that were received and no others: no   *)
(* two of them share an ID.                                                *)
THEOREM HistoryKeepsLatest == Spec => []HistoryIsLatest
<1>1. NodeInv => HistoryIsLatest
  BY DEF NodeInv, HistoryInv
<1> QED
  BY <1>1, NodeInvariant, PTL

(* From the peer to the clipboard: a text that came over a connection is the *)
(* text of a message of another host as the peer sent it, comes there once,  *)
(* and ends counted as applied, with any number of handlers in SetText at    *)
(* the same time and whatever else is written meanwhile.                     *)
THEOREM NetworkTextsAreAsSent == Spec => []TextsAsSent
<1>1. NodeInv => TextsAsSent
  <2> SUFFICES ASSUME NodeInv, NEW i \in 1 .. Len(origin), NEW c \in origin[i]
               PROVE  /\ sent[c] \in Message /\ sent[c].type = "text" /\ sent[c].source # LocalHostID
                      /\ clipboard[i] = sent[c].content
                      /\ \A j \in 1 .. Len(origin) : c \in origin[j] => i = j
                      /\ conn[c] = "closed" => \E k \in 1 .. Len(applied) : applied[k] = c
    BY DEF TextsAsSent
  <2>1. /\ Applicable(sent[c]) /\ clipboard[i] = sent[c].content
        /\ \A j \in 1 .. Len(origin) : c \in origin[j] => i = j
        /\ call[c].phase = "record" \/ IsApplied(c)
    BY DEF NodeInv, WrittenInv
  <2>2. c \in Conn
    BY ElementOfSeq DEF NodeInv, OwnTypeOK
  <2>3. call[c].phase = "record" => conn[c] = "settext"
    BY <2>2 DEF NodeInv, HandlersAreCallers
  <2> QED
    BY <2>1, <2>3 DEF Applicable, IsApplied
<1> QED
  BY <1>1, NodeInvariant, PTL

(* What the parts promise on their own they keep in the node.              *)
THEOREM PartsKeepPromises ==
  Spec => [](/\ StreamInOrder /\ NoRepeatedReport /\ NothingLost
             /\ AtMostOneLate /\ QuietShutdown /\ OnlyForeignTexts)
<1>1. NodeInv => StreamInOrder /\ NoRepeatedReport /\ NothingLost /\ ServerTypeOK
  BY DEF NodeInv, ManagerIInv
<1>2. Init => LateInv /\ ShutdownInv /\ QuietShutdown /\ AppliedInv
  <2> SUFFICES ASSUME Init PROVE LateInv /\ ShutdownInv /\ QuietShutdown /\ AppliedInv
    OBVIOUS
  <2>1. ServerInit /\ Len(<<>>) = 0
    BY DEF Init
  <2> QED
    BY <2>1 DEF ServerInit, LateInv, ShutdownInv, QuietShutdown, AppliedInv, Stopper
<1>3. /\ ServerTypeOK /\ [Next]_vars
      /\ LateInv /\ ShutdownInv /\ QuietShutdown /\ AppliedInv
      => LateInv' /\ ShutdownInv' /\ QuietShutdown' /\ AppliedInv'
  BY NodeSteps, ServerNextLateInv, ServerNextShutdownInv, ServerNextQuiet, ServerNextAppliedInv
<1>4. ServerTypeOK /\ LateInv => AtMostOneLate
  BY DEF LateInv, AtMostOneLate, ServerTypeOK
<1>5. AppliedInv => OnlyForeignTexts
  BY DEF AppliedInv, OnlyForeignTexts, Applicable
<1> QED
  BY <1>1, <1>2, <1>3, <1>4, <1>5, NodeInvariant, PTL DEF Spec
=============================================================================
