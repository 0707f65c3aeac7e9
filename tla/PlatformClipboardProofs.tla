----------------------- MODULE PlatformClipboardProofs -----------------------
(***************************************************************************)
(* What the platform managers promise on both builds, for every set of     *)
(* contents, every number of goroutines in SetText, of writes and of reads *)
(* that fail.                                                              *)
(*                                                                         *)
(* The promises are about single moments (an item is sent, SetText returns *)
(* undisturbed), the code takes many steps to them.  The invariant says    *)
(* what is known at each step in between: of the item a poll carries, of   *)
(* the write a SetText has made but not recorded, and, from an undisturbed *)
(* return of SetText until the next write, of everything that could make   *)
(* Monitor take that text for a change.                                    *)
(***************************************************************************)
EXTENDS PlatformClipboard, ChannelLemmas

(* What SetText puts on the clipboard. *)
Plain(t) == [text |-> t, image |-> Empty, file |-> NoFile]

(* The item is what the clipboard held at that time, of its kind. *)
Sampled(it) ==
  /\ it.at \in 1 .. Len(clipboard)
  /\ it.content = clipboard[it.at][it.type]
  /\ platform = "windows" => it.type = "text"

(* The item of a poll was seen after the item sent last, and is forgotten  *)
(* before the next poll.                                                   *)
PollInv ==
  /\ monitor # "found" => item = Nil
  /\ platform = "windows" => monitor \notin {"image", "file"}
  /\ newest.at \in Nat /\ newest.at <= Len(clipboard)
  /\ item \in Item => Sampled(item) /\ newest.at <= item.at

(* A call that has not recorded its hash yet knows its own write, or has   *)
(* silently failed to write.                                               *)
CallInv ==
  \A c \in Caller :
    call[c].phase = "record" /\ call[c].at # 0 =>
      call[c].at \in 1 .. Len(clipboard) /\ clipboard[call[c].at] = Plain(call[c].text)

(* As long as the text t of an undisturbed SetText is on the clipboard,    *)
(* Monitor finds t itself or nothing, and as long as it has not forgotten  *)
(* t it knows the hash.                                                    *)
Settled(t) ==
  /\ clipboard[settled] = Plain(t)
  /\ item \in Item => item.content = t /\ t # Empty
  /\ ~forgotten \/ t = Empty => last.how \in {"own", "baseline"} /\ last.content = t
  /\ ~forgotten /\ t # Empty => lastContentHash = t

SettledInv ==
  /\ settled <= Len(clipboard)
  /\ OnClipboard => Settled(clipboard[settled].text)

-----------------------------------------------------------------------------
(* Types.                                                                  *)

(* Nil and Failed are no items. *)
LEMMA NoItems == Nil \notin Item /\ Failed \notin Item /\ Nil # Failed
  BY DEF Nil, Failed, Item

(* A read that finds something finds bytes. *)
LEMMA HasBytes ==
  ASSUME TypeOK, NEW kind \in {"text", "image", "file"}, Has(kind)
  PROVE  Current[kind] \in Bytes
<1>1. Current \in Clipping
  <2>1. clipboard \in Seq(Clipping) /\ Len(clipboard) \in 1 .. Len(clipboard)
    BY LenProperties DEF TypeOK
  <2> QED
    BY <2>1, ElementOfSeq DEF Current
<1>2. CASE kind = "text" \/ kind = "image"
  BY <1>1, <1>2 DEF Clipping
<1>3. CASE kind = "file"
  BY <1>3 DEF Has
<1> QED
  BY <1>2, <1>3

(* Every variable stays of its type: in particular the channel never holds *)
(* two items.                                                              *)
LEMMA TypeStep ==
  ASSUME TypeOK, [Next]_vars
  PROVE  TypeOK'
<1> USE PlatformAssumption DEF history
<1> DEFINE Record == [phase : {"idle", "write", "record"}, text : Bytes, at : Nat]
           How == [how : {"none", "baseline", "own", "sent", "discarded"}, content : Bytes]
           Point == {"off", "select", "text", "image", "file", "found", "done"}
<1>1. /\ platform \in {"darwin", "windows"}
      /\ clipboard \in Seq(Clipping) /\ Len(clipboard) > 0 /\ Len(clipboard) \in Nat
      /\ failures \in 0 .. MaxFailures
      /\ lastContentHash \in Bytes \cup {NoHash}
      /\ call \in [Caller -> Record]
      /\ ctxDone \in BOOLEAN /\ baseline \in BOOLEAN /\ closed \in BOOLEAN
      /\ monitor \in Point
      /\ item \in Item \cup {Nil, Failed}
      /\ ch \in Seq(Item) /\ Len(ch) <= 1 /\ Len(ch) \in Nat
      /\ newest \in Item \cup {Nil}
      /\ last \in How
      /\ settled \in Nat /\ forgotten \in BOOLEAN
  BY LenProperties DEF TypeOK
<1>2. item \notin {Nil, Failed} => item \in Item /\ item.content \in Bytes
  BY <1>1 DEF Item
<1> HIDE DEF Record, How, Point
<1>3. ASSUME NEW x \in Clipping PROVE Append(clipboard, x) \in Seq(Clipping) /\ Len(Append(clipboard, x)) > 0
  BY <1>1, <1>3, AppendProperties
<1>4. ASSUME NEW c \in Clip, Copy(c) PROVE TypeOK'
  <2>1. c \in Clipping
    OBVIOUS
  <2> QED
    BY <1>1, <1>3, <1>4, <2>1 DEF Copy, loopVars, TypeOK, Record, How, Point
<1>5. CASE Cancel
  BY <1>1, <1>5 DEF Cancel, osVars, loopVars, TypeOK, Record, How, Point
<1>6. CASE Receive
  <2>1. Len(ch) > 0
    BY <1>1, <1>6, EmptySeq, LenProperties DEF Receive
  <2>2. Tail(ch) \in Seq(Item) /\ Len(Tail(ch)) = Len(ch) - 1
    BY <1>1, <2>1, HeadAndTail
  <2>3. ch' \in Seq(Item) /\ Len(ch') <= 1
    BY <1>1, <1>6, <2>2 DEF Receive
  <2> QED
    BY <1>1, <1>6, <2>3 DEF Receive, osVars, TypeOK, Record, How, Point
<1>7. ASSUME NEW c \in Caller, NEW t \in Bytes, SetTextBegin(c, t) PROVE TypeOK'
  <2>1. call' \in [Caller -> Record]
    BY <1>1, <1>7 DEF SetTextBegin, Record
  <2> QED
    BY <1>1, <1>7, <2>1 DEF SetTextBegin, osVars, loopVars, TypeOK, Record, How, Point
<1>8. ASSUME NEW c \in Caller, SetText(c) PROVE TypeOK'
  <2>1. call[c].text \in Bytes /\ call[c].at \in Nat
    BY <1>1 DEF Record
  <2>2. CASE SetTextWrite(c)
    <3>1. Plain(call[c].text) \in Clipping
      BY <2>1 DEF Plain, Clipping
    <3>2. clipboard' = Append(clipboard, Plain(call[c].text))
      BY <2>2 DEF SetTextWrite, Plain
    <3>3. call' \in [Caller -> Record]
      BY <1>1, <2>1, <2>2 DEF SetTextWrite, Record
    <3> QED
      BY <1>1, <1>3, <2>2, <3>1, <3>2, <3>3 DEF SetTextWrite, loopVars, TypeOK, Record, How, Point
  <2>5. CASE SetTextLost(c)
    <3>1. call' \in [Caller -> Record] /\ failures' \in 0 .. MaxFailures
      BY <1>1, <2>5 DEF SetTextLost, Record
    <3> QED
      BY <1>1, <2>5, <3>1 DEF SetTextLost, loopVars, TypeOK, Record, How, Point
  <2>3. CASE SetTextFail(c)
    <3>1. call' \in [Caller -> Record]
      BY <1>1, <2>3 DEF SetTextFail, Idle, Record
    <3> QED
      BY <1>1, <2>3, <3>1 DEF SetTextFail, osVars, loopVars, TypeOK, Record, How, Point
  <2>4. CASE SetTextRecord(c)
    <3>1. call' \in [Caller -> Record]
      BY <1>1, <2>4 DEF SetTextRecord, Idle, Record
    <3>2. lastContentHash' \in Bytes /\ last' \in How /\ settled' \in Nat /\ forgotten' \in BOOLEAN
      BY <2>1, <2>4 DEF SetTextRecord, RecordsHash, How
    <3> QED
      BY <1>1, <2>4, <3>1, <3>2 DEF SetTextRecord, osVars, loopVars, TypeOK, Record, How, Point
  <2> QED
    BY <1>8, <2>2, <2>3, <2>4, <2>5 DEF SetText
<1>9. CASE StartMonitor \/ Tick
  BY <1>1, <1>9 DEF StartMonitor, Tick, Begins, osVars, TypeOK, Record, How, Point
<1>10. CASE GetCurrentContent
  <2>1. ASSUME NEW kind \in {"text", "image", "file"}, Finds(kind) PROVE TypeOK'
    <3>1. Current[kind] \in Bytes
      BY <2>1, HasBytes DEF Finds
    <3>2. item' \in Item
      BY <1>1, <2>1, <3>1 DEF Finds, Found, Item
    <3> QED
      BY <1>1, <2>1, <3>2 DEF Finds, osVars, TypeOK, Record, How, Point
  <2>2. ASSUME NEW kind \in {"text", "image", "file"}, Misses(kind) PROVE TypeOK'
    <3>1. monitor' \in Point
      BY <2>2 DEF Misses, NextRead, Point
    <3>2. failures' \in 0 .. MaxFailures
      BY <1>1, <2>2 DEF Misses
    <3> QED
      BY <1>1, <2>2, <3>1, <3>2 DEF Misses, TypeOK, Record, How, Point
  <2>3. CASE ReadFails
    BY <1>1, <2>3 DEF ReadFails, osVars, TypeOK, Record, How, Point
  <2> QED
    BY <1>10, <2>1, <2>2, <2>3 DEF GetCurrentContent
<1>11. CASE TakeBaseline
  <2>1. lastContentHash' \in Bytes \cup {NoHash} /\ last' \in How /\ forgotten' \in BOOLEAN
    BY <1>1, <1>2, <1>11 DEF TakeBaseline, How, OnClipboard
  <2> QED
    BY <1>1, <1>11, <2>1 DEF TakeBaseline, osVars, TypeOK, Record, How, Point
<1>12. CASE NoChange
  <2>1. lastContentHash' \in Bytes \cup {NoHash} /\ forgotten' \in BOOLEAN
    BY <1>1, <1>12 DEF NoChange, OnClipboard
  <2> QED
    BY <1>1, <1>12, <2>1 DEF NoChange, Continues, osVars, TypeOK, Record, How, Point
<1>13. CASE Send
  <2>1. item \in Item /\ item.content \in Bytes /\ lastContentHash' = item.content
    BY <1>2, <1>13 DEF Send, Changed, HashesItem
  <2>2. ch' \in Seq(Item) /\ Len(ch') <= 1
    BY <1>1, <1>13, <2>1, AppendProperties DEF Send, Room
  <2>3. newest' \in Item /\ last' \in How
    BY <1>13, <2>1 DEF Send, How
  <2> QED
    BY <1>1, <1>13, <2>1, <2>2, <2>3 DEF Send, Continues, osVars, TypeOK, Record, How, Point
<1>14. CASE Discard
  <2>1. lastContentHash' \in Bytes /\ last' \in How
    BY <1>2, <1>14 DEF Discard, Changed, HashesItem, How
  <2> QED
    BY <1>1, <1>14, <2>1 DEF Discard, Continues, osVars, TypeOK, Record, How, Point
<1>15. CASE MonitorStop
  <2>1. lastContentHash' \in Bytes \cup {NoHash}
    BY <1>1, <1>2, <1>15 DEF MonitorStop, Changed, HashesItem
  <2> QED
    BY <1>1, <1>15, <2>1 DEF MonitorStop, Ends, Closes, osVars, TypeOK, Record, How, Point
<1>16. CASE UNCHANGED vars
  BY <1>1, <1>16 DEF vars, osVars, loopVars, TypeOK, Record, How, Point
<1> QED
  BY <1>4, <1>5, <1>6, <1>7, <1>8, <1>9, <1>10, <1>11, <1>12, <1>13, <1>14, <1>15, <1>16 DEF Next, Monitor

(* ... and starts of it. *)
LEMMA InitType == Init => TypeOK
<1> SUFFICES ASSUME Init PROVE TypeOK
  OBVIOUS
<1>1. clipboard \in Seq(Clipping) /\ Len(clipboard) > 0
  BY PlatformAssumption DEF Init
<1>2. call \in [Caller -> [phase : {"idle", "write", "record"}, text : Bytes, at : Nat]]
  BY PlatformAssumption DEF Init, Idle
<1>3. ch \in Seq(Item) /\ Len(ch) <= 1
  BY EmptySeq DEF Init
<1>4. failures \in 0 .. MaxFailures /\ settled \in Nat /\ last.content \in Bytes
  BY PlatformAssumption DEF Init
<1> QED
  BY <1>1, <1>2, <1>3, <1>4, PlatformAssumption DEF Init, TypeOK

-----------------------------------------------------------------------------
(* The clipboard only grows.                                               *)

Extends ==
  /\ platform' = platform
  /\ Len(clipboard) \in Nat /\ Len(clipboard') \in Nat /\ Len(clipboard) <= Len(clipboard')
  /\ \A i \in 1 .. Len(clipboard) : clipboard'[i] = clipboard[i]

(* What it held stays where it is, and no step moves to the other build. *)
LEMMA StepExtends ==
  ASSUME TypeOK, [Next]_vars
  PROVE  Extends
<1>1. clipboard \in Seq(Clipping) /\ Len(clipboard) \in Nat
  BY LenProperties DEF TypeOK
<1>2. ASSUME clipboard' = clipboard, platform' = platform PROVE Extends
  BY <1>1, <1>2 DEF Extends
<1>3. ASSUME NEW x \in Clipping, clipboard' = Append(clipboard, x), platform' = platform PROVE Extends
  BY <1>1, <1>3, AppendProperties DEF Extends
<1>4. ASSUME NEW c \in Clip, Copy(c) PROVE Extends
  BY <1>3, <1>4, PlatformAssumption DEF Copy
<1>5. ASSUME NEW c \in Caller, SetTextWrite(c) PROVE Extends
  <2>1. Plain(call[c].text) \in Clipping
    BY PlatformAssumption DEF TypeOK, Plain, Clipping
  <2> QED
    BY <1>3, <1>5, <2>1 DEF SetTextWrite, Plain
<1>6. ASSUME NEW c \in Caller, SetTextLost(c) \/ SetTextFail(c) \/ SetTextRecord(c) PROVE Extends
  BY <1>2, <1>6 DEF SetTextLost, SetTextFail, SetTextRecord, osVars
<1>7. CASE GetCurrentContent
  BY <1>2, <1>7 DEF GetCurrentContent, Finds, Misses, ReadFails, osVars
<1>8. CASE StartMonitor \/ Tick \/ TakeBaseline
  BY <1>2, <1>8 DEF StartMonitor, Tick, Begins, TakeBaseline, osVars
<1>9. CASE NoChange \/ Send \/ Discard
  BY <1>2, <1>9 DEF NoChange, Send, Discard, Continues, osVars
<1>10. CASE MonitorStop
  BY <1>2, <1>10 DEF MonitorStop, Ends, osVars
<1>11. CASE Cancel \/ Receive \/ \E c \in Caller, t \in Bytes : SetTextBegin(c, t)
  BY <1>2, <1>11 DEF Cancel, Receive, SetTextBegin, osVars
<1>12. CASE UNCHANGED vars
  BY <1>2, <1>12 DEF vars, osVars
<1> QED
  BY <1>4, <1>5, <1>6, <1>7, <1>8, <1>9, <1>10, <1>11, <1>12 DEF Next, Monitor, SetText

-----------------------------------------------------------------------------
(* A poll.                                                                 *)

(* The reads and the end of a poll; nothing else touches its item. *)
LEMMA PollStep ==
  ASSUME TypeOK, PollInv, [Next]_vars
  PROVE  PollInv'
<1>1. Extends /\ Len(clipboard) > 0 /\ (item \in Item => item.at \in Nat)
  BY StepExtends DEF TypeOK, Item
<1>2. CASE UNCHANGED <<monitor, item, newest>>
  <2>1. Sampled(item) => Sampled(item)'
    BY <1>1, <1>2 DEF Sampled, Extends
  <2>2. newest.at \in Nat /\ newest.at <= Len(clipboard')
    BY <1>1 DEF PollInv, Extends
  <2>3. platform' = platform
    BY <1>1 DEF Extends
  <2> QED
    BY <1>2, <2>1, <2>2, <2>3 DEF PollInv
\* A step that leaves no item, on the same clipboard.
<1>3. ASSUME item' = Nil \/ (item' = Failed /\ monitor' = "found"),
             platform' = "windows" => monitor' \notin {"image", "file"},
             newest' = newest
      PROVE  PollInv'
  <2>1. newest.at \in Nat /\ newest.at <= Len(clipboard')
    BY <1>1 DEF PollInv, Extends
  <2> QED
    BY <1>3, <2>1, NoItems DEF PollInv
<1>4. CASE GetCurrentContent
  <2>1. ASSUME NEW kind \in {"text", "image", "file"}, Finds(kind) PROVE PollInv'
    <3>1. item' = [type |-> kind, content |-> Current[kind], at |-> Len(clipboard)]
          /\ monitor' = "found" /\ monitor = kind
          /\ UNCHANGED <<clipboard, platform, newest>>
      BY <2>1 DEF Finds, Found, osVars
    <3>2. Sampled(item)'
      BY <1>1, <3>1 DEF Sampled, Current, Extends, PollInv
    <3>3. newest'.at \in Nat /\ newest'.at <= Len(clipboard') /\ newest'.at <= item'.at
      BY <3>1 DEF PollInv
    <3> QED
      BY <3>1, <3>2, <3>3 DEF PollInv
  <2>2. ASSUME NEW kind \in {"text", "image", "file"}, Misses(kind) PROVE PollInv'
    <3>1. item' = Nil /\ newest' = newest /\ platform' = platform /\ monitor' = NextRead(kind)
      BY <2>2 DEF Misses, PollInv
    <3> QED
      BY <1>3, <3>1 DEF NextRead
  <2>3. CASE ReadFails
    BY <1>3, <2>3 DEF ReadFails
  <2> QED
    BY <1>4, <2>1, <2>2, <2>3 DEF GetCurrentContent
<1>5. CASE StartMonitor \/ Tick \/ TakeBaseline \/ NoChange \/ Discard
  BY <1>3, <1>5 DEF StartMonitor, Tick, Begins, TakeBaseline, NoChange, Discard, Continues
<1>6. CASE MonitorStop
  BY <1>3, <1>6 DEF MonitorStop, Ends
<1>7. CASE Send
  <2>1. item \in Item /\ newest' = item /\ item' = Nil /\ monitor' = "select" /\ clipboard' = clipboard
    BY <1>7 DEF Send, Changed, Continues, osVars, TypeOK
  <2>2. item.at \in Nat /\ item.at <= Len(clipboard)
    BY <1>1, <2>1 DEF PollInv, Sampled, Extends
  <2> QED
    BY <2>1, <2>2, NoItems DEF PollInv
<1>8. CASE Cancel \/ Receive \/ \E c \in Clip : Copy(c)
  BY <1>2, <1>8 DEF Cancel, Receive, Copy, loopVars
<1>9. ASSUME NEW c \in Caller, SetText(c) \/ \E t \in Bytes : SetTextBegin(c, t) PROVE PollInv'
  BY <1>2, <1>9 DEF SetText, SetTextBegin, SetTextWrite, SetTextLost, SetTextFail, SetTextRecord, loopVars
<1>10. CASE UNCHANGED vars
  BY <1>2, <1>10 DEF vars, loopVars
<1> QED
  BY <1>4, <1>5, <1>6, <1>7, <1>8, <1>9, <1>10 DEF Next, Monitor

-----------------------------------------------------------------------------
(* A call of SetText.                                                      *)

(* The write notes where it is; later writes leave it there. *)
LEMMA CallStep ==
  ASSUME TypeOK, CallInv, [Next]_vars
  PROVE  CallInv'
<1> DEFINE Owns(d) == /\ call[d].at \in 1 .. Len(clipboard)
                      /\ clipboard[call[d].at] = Plain(call[d].text)
<1>1. /\ Extends /\ call \in [Caller -> [phase : {"idle", "write", "record"}, text : Bytes, at : Nat]]
      /\ clipboard \in Seq(Clipping)
  BY StepExtends DEF TypeOK
<1>2. ASSUME NEW d \in Caller, call'[d] = call[d], call[d].phase = "record", call[d].at # 0 PROVE Owns(d)'
  BY <1>1, <1>2 DEF CallInv, Extends
<1>3. CASE call' = call
  BY <1>2, <1>3 DEF CallInv
\* One call moves, the others stay.
<1>4. ASSUME NEW c \in Caller, NEW r, call' = [call EXCEPT ![c] = r], r.phase = "record" /\ r.at # 0 => Owns(c)'
      PROVE  CallInv'
  <2>1. call'[c] = r /\ \A d \in Caller : d # c => call'[d] = call[d]
    BY <1>1, <1>4
  <2> QED
    BY <1>2, <1>4, <2>1 DEF CallInv
<1>5. ASSUME NEW c \in Caller, NEW t \in Bytes, SetTextBegin(c, t) PROVE CallInv'
  BY <1>4, <1>5 DEF SetTextBegin
<1>6. ASSUME NEW c \in Caller, SetTextFail(c) \/ SetTextRecord(c) PROVE CallInv'
  BY <1>4, <1>6 DEF SetTextFail, SetTextRecord, Idle
<1>11. ASSUME NEW c \in Caller, SetTextLost(c) PROVE CallInv'
  <2> DEFINE r == [phase |-> "record", text |-> call[c].text, at |-> 0]
  <2>1. call' = [call EXCEPT ![c] = r] /\ r.at = 0
    BY <1>11 DEF SetTextLost
  <2> HIDE DEF r
  <2> QED
    BY <1>4, <2>1
<1>7. ASSUME NEW c \in Caller, SetTextWrite(c) PROVE CallInv'
  <2> DEFINE r == [phase |-> "record", text |-> call[c].text, at |-> Len(clipboard) + 1]
  <2>1. call' = [call EXCEPT ![c] = r] /\ clipboard' = Append(clipboard, Plain(call[c].text))
    BY <1>7 DEF SetTextWrite, Plain
  <2>2. Plain(call[c].text) \in Clipping
    BY <1>1, PlatformAssumption DEF Plain, Clipping
  <2>3. Len(clipboard') = Len(clipboard) + 1 /\ clipboard'[Len(clipboard) + 1] = Plain(call[c].text)
    BY <1>1, <2>1, <2>2, AppendProperties
  <2>4. call'[c] = r /\ Len(clipboard) + 1 \in 1 .. Len(clipboard')
    BY <1>1, <2>1, <2>3 DEF Extends
  <2>5. Owns(c)'
    BY <2>3, <2>4
  <2> HIDE DEF r, Owns
  <2> QED
    BY <1>4, <2>1, <2>5
<1>8. CASE Monitor
  BY <1>3, <1>8 DEF Monitor, StartMonitor, Tick, Begins, GetCurrentContent, Finds, Misses, ReadFails, TakeBaseline,
                    NoChange, Send, Discard, MonitorStop, Continues, Ends
<1>9. CASE Cancel \/ Receive \/ \E c \in Clip : Copy(c)
  BY <1>3, <1>9 DEF Cancel, Receive, Copy
<1>10. CASE UNCHANGED vars
  BY <1>3, <1>10 DEF vars
<1> QED
  BY <1>5, <1>6, <1>7, <1>8, <1>9, <1>10, <1>11 DEF Next, SetText

-----------------------------------------------------------------------------
(* An undisturbed SetText.                                                 *)

(* Only another write or the return of another call ends what is known of  *)
(* it; a poll that finds nothing weakens it.                               *)
LEMMA SettledStep ==
  ASSUME TypeOK, PollInv, CallInv, SettledInv, [Next]_vars
  PROVE  SettledInv'
<1> USE DEF history
<1> DEFINE t == clipboard[settled].text
           Knows == /\ item \in Item => item.content = t /\ t # Empty
                    /\ ~forgotten \/ t = Empty => last.how \in {"own", "baseline"} /\ last.content = t
                    /\ ~forgotten /\ t # Empty => lastContentHash = t
<1>1. /\ settled \in Nat /\ Len(clipboard) \in Nat /\ settled <= Len(clipboard)
      /\ clipboard \in Seq(Clipping)
      /\ call \in [Caller -> [phase : {"idle", "write", "record"}, text : Bytes, at : Nat]]
      /\ item \in Item \cup {Nil, Failed} /\ forgotten \in BOOLEAN
  BY LenProperties DEF TypeOK, SettledInv
\* The next write ends it.
<1>2. ASSUME NEW x \in Clipping, clipboard' = Append(clipboard, x), settled' = settled PROVE SettledInv'
  <2>1. Len(clipboard') = Len(clipboard) + 1
    BY <1>1, <1>2, AppendProperties
  <2> QED
    BY <1>1, <1>2, <2>1 DEF SettledInv, OnClipboard
<1>3. ASSUME clipboard' = clipboard, settled' = 0 PROVE SettledInv'
  BY <1>1, <1>3 DEF SettledInv, OnClipboard
\* Otherwise only what Monitor changes is to be shown.
<1>4. ASSUME clipboard' = clipboard, settled' = settled,
             OnClipboard =>
               /\ item' \in Item => item'.content = t /\ t # Empty
               /\ ~forgotten' \/ t = Empty => last'.how \in {"own", "baseline"} /\ last'.content = t
               /\ ~forgotten' /\ t # Empty => lastContentHash' = t
      PROVE  SettledInv'
  <2>1. OnClipboard' <=> OnClipboard
    BY <1>4 DEF OnClipboard
  <2> QED
    BY <1>1, <1>4, <2>1 DEF SettledInv, Settled
<1>5. OnClipboard => Current = Plain(t) /\ clipboard[settled] = Plain(t) /\ Knows
  BY DEF SettledInv, Settled, OnClipboard, Current
<1> HIDE DEF t
<1>6. CASE UNCHANGED <<clipboard, settled, forgotten, last, item, lastContentHash>>
  BY <1>4, <1>5, <1>6
<1>7. ASSUME NEW c \in Clip, Copy(c) PROVE SettledInv'
  BY <1>2, <1>7, PlatformAssumption DEF Copy
<1>8. ASSUME NEW c \in Caller, SetTextWrite(c) PROVE SettledInv'
  <2>1. Plain(call[c].text) \in Clipping
    BY <1>1, PlatformAssumption DEF Plain, Clipping
  <2> QED
    BY <1>2, <1>8, <2>1 DEF SetTextWrite, Plain
<1>9. CASE Cancel \/ Receive \/ \E c \in Caller, u \in Bytes : SetTextBegin(c, u)
  BY <1>6, <1>9 DEF Cancel, Receive, SetTextBegin, osVars, loopVars
<1>11. ASSUME NEW c \in Caller, SetTextLost(c) \/ SetTextFail(c) PROVE SettledInv'
  BY <1>6, <1>11 DEF SetTextLost, SetTextFail, osVars, loopVars
<1>12. ASSUME NEW c \in Caller, SetTextRecord(c) PROVE SettledInv'
  <2>1. clipboard' = clipboard
    BY <1>12 DEF SetTextRecord, osVars
  <2>2. CASE ~Undisturbed(c)
    BY <1>3, <1>12, <2>1, <2>2 DEF SetTextRecord
  <2>3. CASE Undisturbed(c)
    <3> DEFINE u == call[c].text
    <3>1. settled' = call[c].at /\ call[c].at = Len(clipboard) /\ clipboard[call[c].at] = Plain(u)
      BY <1>12, <2>3 DEF SetTextRecord, Undisturbed, CallInv, TypeOK
    <3>2. clipboard'[settled'] = Plain(u) /\ clipboard'[settled'].text = u /\ settled' <= Len(clipboard')
      BY <1>1, <2>1, <3>1 DEF Plain
    <3>4. last' = [how |-> "own", content |-> u] /\ lastContentHash' = u
      BY <1>12 DEF SetTextRecord, RecordsHash
    <3>5. item' = Nil
      BY <1>12, <2>3 DEF SetTextRecord, Undisturbed, PollInv, loopVars
    <3>6. item' \notin Item
      BY <3>5, NoItems
    <3> HIDE DEF u
    <3> QED
      BY <3>2, <3>4, <3>6 DEF SettledInv, Settled
  <2> QED
    BY <2>2, <2>3
\* Monitor, on a clipboard that does not change.
<1>13. CASE StartMonitor \/ Tick
  <2>1. item' = Nil /\ UNCHANGED <<clipboard, settled, forgotten, last, lastContentHash>>
    BY <1>13 DEF StartMonitor, Tick, Begins, osVars
  <2> QED
    BY <1>4, <1>5, <2>1, NoItems
<1>14. ASSUME NEW kind \in {"text", "image", "file"}, Finds(kind) PROVE SettledInv'
  <2>1. /\ item' = [type |-> kind, content |-> Current[kind], at |-> Len(clipboard)]
        /\ Has(kind) /\ UNCHANGED <<clipboard, settled, forgotten, last, lastContentHash>>
    BY <1>14 DEF Finds, Found, osVars
  <2>4. OnClipboard => Current[kind] = t /\ t # Empty
    BY <1>5, <2>1, PlatformAssumption DEF Has, Plain
  <2> QED
    BY <1>4, <1>5, <2>1, <2>4
<1>15. ASSUME NEW kind \in {"text", "image", "file"}, Misses(kind) PROVE SettledInv'
  BY <1>6, <1>15 DEF Misses
<1>16. CASE ReadFails
  <2>1. item' = Failed /\ UNCHANGED <<clipboard, settled, forgotten, last, lastContentHash>>
    BY <1>16 DEF ReadFails, osVars
  <2> QED
    BY <1>4, <1>5, <2>1, NoItems
<1>17. CASE TakeBaseline
  <2>1. item' = Nil /\ UNCHANGED <<clipboard, settled>>
    BY <1>17 DEF TakeBaseline, osVars
  <2>2. CASE item \in {Nil, Failed}
    <3>1. last' = last /\ (OnClipboard => forgotten')
      BY <1>17, <2>2 DEF TakeBaseline
    <3> QED
      BY <1>1, <1>4, <1>5, <2>1, <3>1, NoItems
  <2>3. CASE item \in Item
    <3>1. lastContentHash' = item.content /\ last' = [how |-> "baseline", content |-> item.content]
      BY <1>17, <2>3, NoItems DEF TakeBaseline
    <3> QED
      BY <1>4, <1>5, <2>1, <2>3, <3>1, NoItems
  <2> QED
    BY <1>1, <2>2, <2>3
<1>18. CASE NoChange
  <2>1. item' = Nil /\ UNCHANGED <<clipboard, settled, last>>
    BY <1>18 DEF NoChange, Returned, Continues, osVars
  <2>2. CASE item = Nil
    <3>1. OnClipboard => forgotten'
      BY <1>18, <2>2, NoItems DEF NoChange
    <3>2. OnClipboard /\ t = Empty => last.how \in {"own", "baseline"} /\ last.content = t
      BY <1>1, <1>5
    <3> QED
      BY <1>1, <1>4, <2>1, <3>1, <3>2, NoItems
  <2>3. CASE item # Nil
    <3>1. lastContentHash' = lastContentHash /\ forgotten' = forgotten
      BY <1>18, <2>3 DEF NoChange
    <3> QED
      BY <1>4, <1>5, <2>1, <3>1, NoItems
  <2> QED
    BY <2>2, <2>3
\* What changes is a text that has been forgotten.
<1>19. Changed /\ OnClipboard => forgotten /\ t # Empty
  BY <1>1, <1>5 DEF Changed
<1>20. CASE Send \/ Discard \/ MonitorStop
  <2>1. /\ item' = Nil /\ UNCHANGED <<clipboard, settled, forgotten>>
        /\ Changed \/ UNCHANGED <<last, lastContentHash>>
    BY <1>20 DEF Send, Discard, MonitorStop, Continues, Ends, osVars
  <2> QED
    BY <1>4, <1>5, <1>19, <2>1, NoItems
<1>22. CASE UNCHANGED vars
  BY <1>6, <1>22 DEF vars, osVars, loopVars
<1> QED
  BY <1>7, <1>8, <1>9, <1>11, <1>12, <1>13, <1>14, <1>15, <1>16, <1>17, <1>18, <1>20, <1>22
     DEF Next, SetText, Monitor, GetCurrentContent

-----------------------------------------------------------------------------
(* The theorems.                                                           *)

IInv == TypeOK /\ PollInv /\ CallInv /\ SettledInv

(* All of it is inductive. *)
LEMMA Invariance == Spec => []IInv
<1>1. Init => PollInv /\ CallInv /\ SettledInv
  <2> SUFFICES ASSUME Init PROVE PollInv /\ CallInv /\ SettledInv
    OBVIOUS
  <2>1. Len(clipboard) = 1 /\ settled = 0 /\ newest.at = 0
    BY DEF Init, Nil
  <2>2. CallInv
    BY DEF Init, CallInv, Idle
  <2> QED
    BY <2>1, <2>2, NoItems DEF Init, PollInv, SettledInv, OnClipboard
<1>2. IInv /\ [Next]_vars => IInv'
  BY TypeStep, PollStep, CallStep, SettledStep DEF IInv
<1> QED
  BY <1>1, <1>2, InitType, PTL DEF Spec, IInv

(* Type correctness: in particular the channel of capacity 1 never holds   *)
(* two items, and every item and hash is of bytes that were read.          *)
THEOREM TypeCorrect == Spec => []TypeOK
<1>1. IInv => TypeOK
  BY DEF IInv
<1> QED
  BY <1>1, Invariance, PTL

(* A text that SetText has put on the clipboard and recorded undisturbed   *)
(* comes back as a change of the user only after somebody else has written *)
(* or another SetText has returned, or after a poll that could not read    *)
(* the text though it was there.                                           *)
THEOREM EchoIsSuppressed == Spec => []EchoSuppressed
<1>1. IInv => EchoSuppressed
  BY DEF IInv, TypeOK, SettledInv, Settled, EchoSuppressed
<1> QED
  BY <1>1, Invariance, PTL

(* Every item that is sent is something the clipboard held, under its own  *)
(* type, no item is older than the one before, and on Windows it is text.  *)
THEOREM SamplesAreFaithful == Spec => FaithfulSample
<1> DEFINE Faithful == newest' # newest =>
             /\ newest'.at \in newest.at .. Len(clipboard)
             /\ newest'.content = clipboard[newest'.at][newest'.type]
             /\ platform = "windows" => newest'.type = "text"
<1>1. IInv /\ [Next]_vars => [Faithful]_newest
  <2> SUFFICES ASSUME IInv, [Next]_vars, newest' # newest PROVE Faithful
    OBVIOUS
  <2>1. Send
    BY DEF Next, Monitor, StartMonitor, Tick, Begins, GetCurrentContent, Finds, Misses, ReadFails, TakeBaseline,
           NoChange, Discard, MonitorStop, Ends, SetText, SetTextBegin, SetTextWrite, SetTextLost, SetTextFail,
           SetTextRecord, Cancel, Receive, Copy, vars, loopVars
  <2>2. newest' = item /\ item \in Item
    BY <2>1 DEF Send, Changed, IInv, TypeOK
  <2>3. Sampled(item) /\ newest.at <= item.at /\ newest.at \in Nat
    BY <2>2 DEF IInv, PollInv
  <2>4. item.at \in newest.at .. Len(clipboard)
    BY <2>3 DEF Sampled
  <2> QED
    BY <2>2, <2>3, <2>4 DEF Sampled
<1> QED
  BY <1>1, Invariance, PTL DEF Spec, FaithfulSample
=============================================================================
