-------------------------- MODULE ClipboardManager --------------------------
(***************************************************************************)
(* The clipboard manager of internal/core/clipboard/clipboard.go: the      *)
(* Monitor goroutine that polls the clipboard of the operating system and  *)
(* reports each change on a channel of capacity 1, and SetText, called by  *)
(* the goroutines of the clipboard server.  No lock orders the two.        *)
(*                                                                         *)
(* The clipboard of the operating system is external; it is kept as the    *)
(* sequence of the texts it held, so that an item can say which of them it *)
(* was read from.  Its library for Windows reports no failure: a read that *)
(* fails is an empty text without an error, and a write that fails looks   *)
(* like one that did not.                                                  *)
(***************************************************************************)
EXTENDS ClipboardShared, FiniteSets

CONSTANTS
  Empty,      \* the empty text ""
  NoSource,   \* the empty Source of an item: the content is local
  MaxWrites,  \* bound: writes to the clipboard stop at this length
  MaxMisreads \* bound: so many reads may fail without an error; none do on darwin

ASSUME TextAssumption == Empty \in Text
ASSUME BoundAssumption == MaxWrites \in Nat /\ MaxMisreads \in Nat

VARIABLES
  clipboard,    \* external: every text the clipboard held, the last is current
  lastContent,  \* clipboardManager.lastContent, written by SetText, read by nobody
  call,         \* call[c]: where the SetText call of c stands
  monitor,      \* program point of the Monitor goroutine
  polled,       \* the variable lastContent of that goroutine
  item,         \* the item it is sending
  items,        \* the channel between Monitor and its reader
  closed,       \* the channel is closed
  stream,       \* history: every item Monitor decided to report
  failed,       \* history: the places in stream of what a failed read looked like
  received      \* history: every item the reader took from the channel

monitorVars == <<monitor, polled, item>>
channelVars == <<items, closed, stream, failed, received>>
managerVars == <<clipboard, lastContent, call, ctxDone, monitorVars, channelVars>>

Item == [id : Nat, content : Text, source : {NoSource}, at : Nat]
Idle == [phase |-> "idle", text |-> Empty]
Call == [phase : {"idle", "write", "record"}, text : Text]

Current == clipboard[Len(clipboard)]
Pending == IF monitor = "send" THEN <<item>> ELSE <<>>

ManagerTypeOK ==
  /\ clipboard \in Seq(Text) /\ Len(clipboard) > 0
  /\ lastContent \in Text
  /\ call \in [Conn -> Call]
  /\ ctxDone \in BOOLEAN
  /\ monitor \in {"off", "select", "send", "done"}
  /\ polled \in Text
  /\ item \in Item
  /\ items \in Seq(Item) /\ Len(items) <= 1
  /\ closed \in BOOLEAN
  /\ stream \in Seq(Item)
  /\ failed \subseteq 1 .. Len(stream)
  /\ received \in Seq(Item)

ManagerInit ==
  /\ \E t \in Text : clipboard = <<t>>
  /\ lastContent = Empty
  /\ call = [c \in Conn |-> Idle]
  /\ ctxDone = FALSE
  /\ monitor = "off"
  /\ polled = Empty
  /\ item = [id |-> 0, content |-> Empty, source |-> NoSource, at |-> 0]
  /\ items = <<>>
  /\ closed = FALSE
  /\ stream = <<>>
  /\ failed = {}
  /\ received = <<>>

-----------------------------------------------------------------------------
(* The environment of the manager.                                         *)

\* Another program of the machine puts a text on the clipboard.
Copy(t) ==
  /\ Len(clipboard) < MaxWrites
  /\ clipboard' = Append(clipboard, t)
  /\ UNCHANGED <<lastContent, call, ctxDone, monitorVars, channelVars>>

\* main cancels the context, which it does only after Monitor has returned.
ManagerCancel ==
  /\ monitor # "off"
  /\ ctxDone' = TRUE
  /\ UNCHANGED <<clipboard, lastContent, call, monitorVars, channelVars>>

\* The reader takes the oldest item from the channel.
Receive ==
  /\ Len(items) > 0
  /\ items' = Tail(items)
  /\ received' = Append(received, Head(items))
  /\ UNCHANGED <<clipboard, lastContent, call, ctxDone, monitorVars, closed, stream, failed>>

-----------------------------------------------------------------------------
(* SetText: the write to the clipboard and the assignment to lastContent   *)
(* are two steps, and calls of different goroutines interleave.            *)

SetTextBegin(c, t) ==
  /\ call[c].phase = "idle"
  /\ Len(clipboard) < MaxWrites
  /\ call' = [call EXCEPT ![c] = [phase |-> "write", text |-> t]]
  /\ UNCHANGED <<clipboard, lastContent, ctxDone, monitorVars, channelVars>>

SetTextWrite(c) ==
  /\ call[c].phase = "write"
  /\ clipboard' = Append(clipboard, call[c].text)
  /\ call' = [call EXCEPT ![c] = [phase |-> "record", text |-> call[c].text]]
  /\ UNCHANGED <<lastContent, ctxDone, monitorVars, channelVars>>

\* The write fails and nothing says so: SetText goes on as if it had not.
SetTextLost(c) ==
  /\ call[c].phase = "write"
  /\ call' = [call EXCEPT ![c] = [phase |-> "record", text |-> call[c].text]]
  /\ UNCHANGED <<clipboard, lastContent, ctxDone, monitorVars, channelVars>>

\* setClipboardText fails: SetText returns the error, lastContent keeps its value.
SetTextFail(c) ==
  /\ call[c].phase = "write"
  /\ call' = [call EXCEPT ![c] = Idle]
  /\ UNCHANGED <<clipboard, lastContent, ctxDone, monitorVars, channelVars>>

SetTextRecord(c) ==
  /\ call[c].phase = "record"
  /\ lastContent' = call[c].text
  /\ call' = [call EXCEPT ![c] = Idle]
  /\ UNCHANGED <<clipboard, ctxDone, monitorVars, channelVars>>

-----------------------------------------------------------------------------
(* The Monitor goroutine.                                                  *)

StartMonitor ==
  /\ monitor = "off"
  /\ monitor' = "select"
  /\ UNCHANGED <<clipboard, lastContent, call, ctxDone, polled, item, channelVars>>

\* NewItemOfPreviousPoll, DiscardWhenFull and BufferOfTwo are variants with a bug
\* a change of the code could bring in.
NewItemOfPreviousPoll(t) ==
  [id |-> Len(stream) + 1, content |-> polled, source |-> NoSource, at |-> Len(clipboard)]

\* The ID is the time of the poll, and a poll follows the last one by the interval
\* of the ticker: it is counted in items here.
NewItem(t) ==
  [id |-> Len(stream) + 1, content |-> t, source |-> NoSource, at |-> Len(clipboard)]

\* A tick, a GetText without an error, and a content that differs from the last
\* one.  A tick whose GetText has an error or finds the same content changes nothing.
\* The select may choose the tick though the context is cancelled.
Reports(t) ==
  /\ monitor = "select"
  /\ t # polled
  /\ polled' = t
  /\ item' = NewItem(t)
  /\ stream' = Append(stream, NewItem(t))
  /\ monitor' = "send"
  /\ UNCHANGED <<clipboard, lastContent, call, ctxDone, items, closed, received>>

Poll == Reports(Current) /\ UNCHANGED failed

\* The read fails without an error.
Misread ==
  /\ Cardinality(failed) < MaxMisreads
  /\ Reports(Empty)
  /\ failed' = failed \cup {Len(stream) + 1}

DiscardWhenFull ==
  /\ monitor = "send"
  /\ items' = IF Len(items) < 1 THEN Append(items, item) ELSE items
  /\ monitor' = "select"
  /\ UNCHANGED <<clipboard, lastContent, call, ctxDone, polled, item, closed, stream, failed, received>>

BufferOfTwo == Len(items) < 2
Room == Len(items) < 1

\* items <- item: blocks while the buffer is full, whatever the context says.
MonitorSend ==
  /\ monitor = "send"
  /\ Room
  /\ items' = Append(items, item)
  /\ monitor' = "select"
  /\ UNCHANGED <<clipboard, lastContent, call, ctxDone, polled, item, closed, stream, failed, received>>

MonitorStop ==
  /\ monitor = "select"
  /\ ctxDone
  /\ monitor' = "done"
  /\ closed' = TRUE
  /\ UNCHANGED <<clipboard, lastContent, call, ctxDone, polled, item, items, stream, failed, received>>

-----------------------------------------------------------------------------
SetTextStep(c) == SetTextWrite(c) \/ SetTextLost(c) \/ SetTextFail(c) \/ SetTextRecord(c)
MonitorStep == StartMonitor \/ Poll \/ Misread \/ MonitorSend \/ MonitorStop

ManagerNext ==
  \/ \E t \in Text : Copy(t)
  \/ \E c \in Conn, t \in Text : SetTextBegin(c, t)
  \/ \E c \in Conn : SetTextStep(c)
  \/ ManagerCancel
  \/ Receive
  \/ MonitorStep

ManagerSpec == ManagerInit /\ [][ManagerNext]_managerVars

-----------------------------------------------------------------------------
(* Properties.                                                             *)

\* Whatever SetText and other programs write between two polls, the items form
\* a sample of the clipboard in order: each content is what the clipboard held at
\* that moment, or empty where the read failed, no item is older than the one before,
\* and a write is reported a second time only around a read that failed.
StreamInOrder ==
  /\ \A i \in 1 .. Len(stream) :
       /\ stream[i].at \in 1 .. Len(clipboard)
       /\ stream[i].content = IF i \in failed THEN Empty ELSE clipboard[stream[i].at]
  /\ \A i \in 1 .. Len(stream) - 1 :
       /\ stream[i].at <= stream[i + 1].at
       /\ stream[i].at = stream[i + 1].at => {i, i + 1} \cap failed # {}

\* A content is reported once per change: the first item is not the empty text
\* and no item repeats the content of the item before it (content != lastContent).
NoRepeatedReport ==
  /\ Len(stream) > 0 => stream[1].content # Empty
  /\ \A i \in 1 .. Len(stream) - 1 : stream[i].content # stream[i + 1].content

\* Every change Monitor decided to report is with the reader, in the buffer or
\* in the blocked send, in order: a slow reader delays items and loses none.
NothingLost == received \o items \o Pending = stream

=============================================================================
