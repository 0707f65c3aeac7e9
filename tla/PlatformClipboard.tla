------------------------- MODULE PlatformClipboard --------------------------
(***************************************************************************)
(* The clipboard managers of clipboard_darwin.go and clipboard_windows.go: *)
(* a Monitor that compares hashes, reads text, image and files one after   *)
(* the other (Windows: text only) and discards a change when its channel   *)
(* of capacity 1 is full, and a SetText that records the hash of what it   *)
(* wrote so that Monitor does not take it for a change.  NewManager does   *)
(* not create these managers yet.                                          *)
(*                                                                         *)
(* A hash is represented by the bytes it was computed from.  The clipboard *)
(* is external and kept as the sequence of what it held.  StaleBytes,      *)
(* NotRecorded, HashesAgain, AnyRoom and LeftOpen are variants with a bug  *)
(* a change could bring in.                                                *)
(***************************************************************************)
EXTENDS Naturals, Sequences

CONSTANTS
  Bytes,        \* contents
  Empty,        \* the empty content
  NoHash,       \* lastContentHash ""
  NoFile,       \* the clipboard holds no file
  Unreadable,   \* the clipboard holds a path that cannot be read
  Clip,         \* what other programs put on the clipboard
  Caller,       \* goroutines that call SetText
  MaxWrites,    \* bound: writes to the clipboard stop at this length
  MaxFailures   \* bound: reads that fail for no reason of the clipboard, and silent writes

Clipping == [text : Bytes, image : Bytes, file : Bytes \cup {NoFile, Unreadable}]

ASSUME PlatformAssumption ==
  /\ Empty \in Bytes /\ NoHash \notin Bytes
  /\ NoFile \notin Bytes /\ Unreadable \notin Bytes
  /\ Clip \subseteq Clipping
  /\ MaxWrites \in Nat /\ MaxFailures \in Nat

VARIABLES
  platform,         \* the build: "darwin" or "windows"
  clipboard,        \* external: everything the clipboard held, the last is current
  failures,         \* external: how many reads, and silently how many writes, have failed
  lastContentHash,  \* written by Monitor and by SetText, without a lock
  call,             \* call[c]: where the SetText call of c stands
  ctxDone,          \* the context is cancelled
  monitor,          \* program point of Monitor and of its goroutine
  baseline,         \* Monitor is in the read it does before its goroutine starts
  item,             \* what GetCurrentContent has found
  ch,               \* the channel
  closed,           \* the channel is closed
  newest,           \* history: the item sent last on the channel
  last,             \* history: the content last learnt, and how
  settled,          \* history: the last write of a SetText that nothing disturbed
  forgotten         \* history: a poll has found nothing though that write is on the clipboard

osVars == <<platform, clipboard, failures>>
loopVars == <<monitor, baseline, item, ch, closed, newest>>
history == <<last, settled, forgotten>>
vars == <<osVars, lastContentHash, call, ctxDone, loopVars, history>>

Nil == [type |-> "nil", content |-> Empty, at |-> 0]
Failed == [type |-> "error", content |-> Empty, at |-> 0]
Item == [type : {"text", "image", "file"}, content : Bytes, at : Nat]
Idle == [phase |-> "idle", text |-> Empty, at |-> 0]
Current == clipboard[Len(clipboard)]

TypeOK ==
  /\ platform \in {"darwin", "windows"}
  /\ clipboard \in Seq(Clipping) /\ Len(clipboard) > 0
  /\ failures \in 0 .. MaxFailures
  /\ lastContentHash \in Bytes \cup {NoHash}
  /\ call \in [Caller -> [phase : {"idle", "write", "record"}, text : Bytes, at : Nat]]
  /\ ctxDone \in BOOLEAN
  /\ monitor \in {"off", "select", "text", "image", "file", "found", "done"}
  /\ baseline \in BOOLEAN
  /\ item \in Item \cup {Nil, Failed}
  /\ ch \in Seq(Item) /\ Len(ch) <= 1
  /\ closed \in BOOLEAN
  /\ newest \in Item \cup {Nil}
  /\ last \in [how : {"none", "baseline", "own", "sent", "discarded"}, content : Bytes]
  /\ settled \in Nat /\ forgotten \in BOOLEAN

Init ==
  /\ platform \in {"darwin", "windows"}
  /\ \E c \in Clip : clipboard = <<c>>
  /\ failures = 0
  /\ lastContentHash = NoHash
  /\ call = [c \in Caller |-> Idle]
  /\ ctxDone = FALSE
  /\ monitor = "off" /\ baseline = FALSE /\ item = Nil
  /\ ch = <<>> /\ closed = FALSE /\ newest = Nil
  /\ last = [how |-> "none", content |-> Empty]
  /\ settled = 0 /\ forgotten = FALSE

-----------------------------------------------------------------------------
(* The environment.                                                        *)

\* Another program puts something on the clipboard.
Copy(c) ==
  /\ Len(clipboard) < MaxWrites
  /\ clipboard' = Append(clipboard, c)
  /\ UNCHANGED <<platform, failures, lastContentHash, call, ctxDone, loopVars, history>>

Cancel ==
  /\ monitor # "off"
  /\ ctxDone' = TRUE
  /\ UNCHANGED <<osVars, lastContentHash, call, loopVars, history>>

Receive ==
  /\ ch # <<>>
  /\ ch' = Tail(ch)
  /\ UNCHANGED <<osVars, lastContentHash, call, ctxDone, monitor, baseline, item, closed,
                 newest, history>>

-----------------------------------------------------------------------------
(* SetText: the write and the assignment to lastContentHash are two steps. *)

SetTextBegin(c, t) ==
  /\ call[c].phase = "idle"
  /\ Len(clipboard) < MaxWrites
  /\ call' = [call EXCEPT ![c] = [phase |-> "write", text |-> t, at |-> 0]]
  /\ UNCHANGED <<osVars, lastContentHash, ctxDone, loopVars, history>>

SetTextWrite(c) ==
  /\ call[c].phase = "write"
  /\ clipboard' = Append(clipboard, [text |-> call[c].text, image |-> Empty, file |-> NoFile])
  /\ call' = [call EXCEPT ![c] = [phase |-> "record", text |-> call[c].text,
                                  at |-> Len(clipboard) + 1]]
  /\ UNCHANGED <<platform, failures, lastContentHash, ctxDone, loopVars, history>>

\* The Windows function returns nil whatever becomes of the write: SetText goes on
\* as if the text were on the clipboard.
SetTextLost(c) ==
  /\ call[c].phase = "write"
  /\ platform = "windows"
  /\ failures < MaxFailures
  /\ failures' = failures + 1
  /\ call' = [call EXCEPT ![c] = [phase |-> "record", text |-> call[c].text, at |-> 0]]
  /\ UNCHANGED <<platform, clipboard, lastContentHash, ctxDone, loopVars, history>>

\* pbcopy fails, and SetText returns its error.
SetTextFail(c) ==
  /\ call[c].phase = "write"
  /\ platform = "darwin"
  /\ call' = [call EXCEPT ![c] = Idle]
  /\ UNCHANGED <<osVars, lastContentHash, ctxDone, loopVars, history>>

NotRecorded(c) == UNCHANGED lastContentHash
RecordsHash(c) == lastContentHash' = call[c].text

\* No poll is under way, nobody has written since, and no other call will record
\* an older hash.
Undisturbed(c) ==
  /\ monitor \in {"off", "select", "done"}
  /\ call[c].at = Len(clipboard)
  /\ \A d \in Caller \ {c} : call[d].phase # "record"

SetTextRecord(c) ==
  /\ call[c].phase = "record"
  /\ RecordsHash(c)
  /\ last' = [how |-> "own", content |-> call[c].text]
  /\ settled' = IF Undisturbed(c) THEN call[c].at ELSE 0
  /\ forgotten' = FALSE
  /\ call' = [call EXCEPT ![c] = Idle]
  /\ UNCHANGED <<osVars, ctxDone, loopVars>>

-----------------------------------------------------------------------------
(* GetCurrentContent: up to three reads at different times.                *)

Begins(isBaseline) ==
  /\ monitor' = "text"
  /\ baseline' = isBaseline
  /\ item' = Nil
  /\ UNCHANGED <<osVars, lastContentHash, call, ctxDone, ch, closed, newest, history>>

StartMonitor == monitor = "off" /\ Begins(TRUE)
Tick == monitor = "select" /\ Begins(FALSE)

\* An empty text or image counts as none; an empty file is content.
Has(kind) ==
  IF kind = "file" THEN Current.file \in Bytes ELSE Current[kind] # Empty

StaleBytes(kind) == clipboard[1][kind]
Found(kind) == Current[kind]

Finds(kind) ==
  /\ monitor = kind
  /\ Has(kind)
  /\ item' = [type |-> kind, content |-> Found(kind), at |-> Len(clipboard)]
  /\ monitor' = "found"
  /\ UNCHANGED <<osVars, lastContentHash, call, ctxDone, baseline, ch, closed, newest,
                 history>>

NextRead(kind) ==
  IF platform = "windows" \/ kind = "file" THEN "found"
  ELSE IF kind = "text" THEN "image" ELSE "file"

\* There is nothing of this kind, or the command fails: the error is dropped and
\* the next kind is tried.
Misses(kind) ==
  /\ monitor = kind
  /\ \/ /\ ~Has(kind) /\ (kind = "file" => Current.file = NoFile)
        /\ UNCHANGED failures
     \/ /\ kind # "text" => ~ctxDone
        /\ failures < MaxFailures
        /\ failures' = failures + 1
  /\ monitor' = NextRead(kind)
  /\ UNCHANGED <<platform, clipboard, lastContentHash, call, ctxDone, baseline, item, ch,
                 closed, newest, history>>

\* The context ends the command that reads an image or the paths, or the file
\* behind the first path cannot be read: GetCurrentContent returns an error.
ReadFails ==
  /\ \/ monitor \in {"image", "file"} /\ ctxDone
     \/ monitor = "file" /\ Current.file = Unreadable
  /\ item' = Failed
  /\ monitor' = "found"
  /\ UNCHANGED <<osVars, lastContentHash, call, ctxDone, baseline, ch, closed, newest,
                 history>>

-----------------------------------------------------------------------------
(* Monitor.                                                                *)

\* The last undisturbed write of a SetText is still on the clipboard.
OnClipboard == settled # 0 /\ settled = Len(clipboard)

Returned == monitor = "found" /\ ~baseline
Continues ==
  /\ monitor' = "select" /\ item' = Nil
  /\ UNCHANGED <<osVars, call, ctxDone, baseline, closed, settled>>
LeftOpen == UNCHANGED closed
Closes == closed' = TRUE
Ends ==
  /\ monitor' = "done" /\ item' = Nil
  /\ Closes
  /\ UNCHANGED <<osVars, call, ctxDone, baseline, ch, newest, settled, forgotten>>

\* Before the goroutine starts the content becomes the one to compare with.
TakeBaseline ==
  /\ monitor = "found" /\ baseline
  /\ lastContentHash' = IF item \in {Nil, Failed} THEN NoHash ELSE item.content
  /\ last' = IF item \in {Nil, Failed} THEN last
             ELSE [how |-> "baseline", content |-> item.content]
  /\ forgotten' = (OnClipboard /\ (forgotten \/ item \in {Nil, Failed}))
  /\ monitor' = "select" /\ item' = Nil
  /\ baseline' = FALSE
  /\ UNCHANGED <<osVars, call, ctxDone, ch, closed, newest, settled>>

\* After an error the hash stays, and an item with the same hash is no change.  When
\* nothing was found, because the clipboard is empty or because a read failed, the
\* hash is cleared: what the clipboard holds is new to the next poll that reads it.
NoChange ==
  /\ Returned
  /\ \/ item = Failed /\ UNCHANGED <<lastContentHash, forgotten>>
     \/ item = Nil /\ lastContentHash' = NoHash /\ forgotten' = OnClipboard
     \/ /\ item \notin {Nil, Failed} /\ item.content = lastContentHash
        /\ UNCHANGED <<lastContentHash, forgotten>>
  /\ Continues
  /\ UNCHANGED <<ch, newest, last>>

HashesAgain == lastContentHash' = Current.text
HashesItem == lastContentHash' = item.content

\* The hash is recorded before it is known whether the channel takes the item.
Changed ==
  /\ Returned /\ item \notin {Nil, Failed} /\ item.content # lastContentHash
  /\ HashesItem

AnyRoom == Len(ch) <= 1
Room == Len(ch) < 1

Send ==
  /\ Changed /\ Room
  /\ ch' = Append(ch, item)
  /\ newest' = item
  /\ last' = [how |-> "sent", content |-> item.content]
  /\ Continues
  /\ UNCHANGED forgotten

Discard ==
  /\ Changed /\ ~Room /\ ~ctxDone
  /\ last' = [how |-> "discarded", content |-> item.content]
  /\ Continues
  /\ UNCHANGED <<ch, newest, forgotten>>

MonitorStop ==
  /\ ctxDone
  /\ \/ monitor = "select" /\ UNCHANGED lastContentHash
     \/ Changed
  /\ Ends
  /\ UNCHANGED last

-----------------------------------------------------------------------------
GetCurrentContent ==
  \/ \E kind \in {"text", "image", "file"} : Finds(kind) \/ Misses(kind)
  \/ ReadFails
Monitor ==
  StartMonitor \/ Tick \/ GetCurrentContent \/ TakeBaseline \/ NoChange \/ Send \/ Discard
    \/ MonitorStop
SetText(c) == SetTextWrite(c) \/ SetTextLost(c) \/ SetTextFail(c) \/ SetTextRecord(c)

Next ==
  \/ \E c \in Clip : Copy(c)
  \/ Cancel
  \/ Receive
  \/ \E c \in Caller, t \in Bytes : SetTextBegin(c, t)
  \/ \E c \in Caller : SetText(c)
  \/ Monitor

\* The goroutine runs, its ticker ticks and the commands that read the clipboard
\* end.  The select must see a context that stays cancelled.  Nothing makes the
\* reader read, callers call or users copy.
Fairness == WF_vars(Monitor) /\ SF_vars(MonitorStop)

Spec == Init /\ [][Next]_vars /\ Fairness
-----------------------------------------------------------------------------
(* Properties.                                                             *)

\* Whatever is written between the reads of one poll, every item sent is something
\* the clipboard held, under its own type, and no item is older than the one before.
FaithfulSample ==
  [][newest' # newest =>
       /\ newest'.at \in newest.at .. Len(clipboard)
       /\ newest'.content = clipboard[newest'.at][newest'.type]
       /\ platform = "windows" => newest'.type = "text"]_newest

\* A text of a peer that SetText recorded between two polls, before anybody else
\* wrote, does not come back as a change of the user as long as it is on the
\* clipboard and no other SetText returns, unless a poll has found nothing in
\* between: a read that fails clears the hash, and then the text does come back.
EchoSuppressed ==
  OnClipboard =>
    \/ last.how \in {"own", "baseline"} /\ last.content = clipboard[settled].text
    \/ forgotten /\ clipboard[settled].text # Empty

\* What a poll that nothing disturbs finds on the clipboard.
Visible(clip) ==
  IF clip.text # Empty THEN clip.text
  ELSE IF platform = "windows" THEN NoHash
  ELSE IF clip.image # Empty THEN clip.image
  ELSE clip.file

AtRest(b) ==
  /\ Visible(Current) = b
  /\ monitor # "off" /\ ~ctxDone
  /\ \A c \in Caller : call[c].phase = "idle"

\* Neither the race of SetText with Monitor nor a read that fails leaves Monitor
\* content with the wrong hash: a clipboard at rest is the last thing it has
\* reported, discarded for want of room, or learnt from SetText or at its start.
CatchesUp ==
  \A b \in Bytes : <>[]AtRest(b) => <>[](last.content = b)

\* The goroutine ends and closes the channel after the cancellation though nobody
\* reads, because the send does not block.
MonitorEndsAlone == ctxDone ~> closed
=============================================================================
