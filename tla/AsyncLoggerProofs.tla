-------------------------- MODULE AsyncLoggerProofs -------------------------
(***************************************************************************)
(* What AsyncLogger promises for any number of callers and closers and for *)
(* every capacity of the channel.                                          *)
(***************************************************************************)
EXTENDS AsyncLogger, ChannelLemmas

(* Who holds the lock, read off the program points.                        *)
LockInv ==
  /\ \A c \in Caller : caller[c] \in {"check", "send"} => c \in readers
  /\ \A k \in Closer : closer[k] = "mark" => k \in writer
  /\ \A k, l \in writer : k = l
  /\ writer # {} => readers = {}

(* What the flag, the channel and the printer say of the program points.   *)
ClosedInv ==
  /\ \A c \in Caller : caller[c] = "send" => ~closed
  /\ chanClosed => closed
  /\ \A k \in Closer : closer[k] = "close" => closed /\ ~chanClosed
  /\ \A k \in Closer : closer[k] \in {"wait", "returned"} => chanClosed
  /\ \A k, l \in Closer : closer[k] = "close" /\ closer[l] = "close" => k = l
  /\ \A k \in Closer : closer[k] = "returned" => printer = "done"
  /\ printer = "done" => chanClosed /\ Len(logChan) = 0

IInv == TypeOK /\ LockInv /\ ClosedInv /\ NoPanic /\ PrintedInOrder

-----------------------------------------------------------------------------
LEMMA InitTypeOK == Init => TypeOK
<1> SUFFICES ASSUME Init PROVE TypeOK
  OBVIOUS
<1>1. Len(logChan) <= Capacity
  BY BoundAssumption DEF Init
<1>2. logs \in [Caller -> 0 .. MaxLogs]
  BY BoundAssumption DEF Init
<1>3. message \in [Caller -> Message \cup {NoMessage}]
  BY DEF Init
<1>4. /\ \A c \in Caller : caller[c] = "idle"
      /\ caller \in [Caller -> {"idle", "lock", "check", "send"}]
  BY DEF Init
<1>5. closer \in [Closer -> {"idle", "lock", "mark", "close", "wait", "returned", "skipped"}]
  BY DEF Init
<1>6. logChan \in Seq(Message) /\ accepted \in Seq(Message) /\ printed \in Seq(Message)
  BY DEF Init
<1> QED
  BY <1>1, <1>2, <1>3, <1>4, <1>5, <1>6 DEF Init, TypeOK

(* A message on its way in is a message of its caller.                     *)
LEMMA CallLogTypes ==
  ASSUME TypeOK, NEW c \in Caller, NEW level \in Level, CallLog(c, level)
  PROVE  TypeOK'
<1> DEFINE m == [by |-> c, n |-> logs[c] + 1, level |-> level]
<1>1. logs[c] \in 0 .. MaxLogs /\ logs[c] < MaxLogs
  BY DEF TypeOK, CallLog
<1>2. m \in Message
  BY <1>1, BoundAssumption DEF Message
<1> HIDE DEF m
<1>3. /\ message' = [message EXCEPT ![c] = m]
      /\ caller' = [caller EXCEPT ![c] = "lock"]
      /\ logs' = [logs EXCEPT ![c] = logs[c] + 1]
  BY DEF CallLog, m
<1>4. message' \in [Caller -> Message \cup {NoMessage}]
  BY <1>2, <1>3 DEF TypeOK
<1>5. \A d \in Caller : caller'[d] # "idle" => message'[d] \in Message
  BY <1>2, <1>3 DEF TypeOK
<1>6. caller' \in [Caller -> {"idle", "lock", "check", "send"}]
  BY <1>3 DEF TypeOK
<1>7. logs' \in [Caller -> 0 .. MaxLogs]
  BY <1>1, <1>3, BoundAssumption DEF TypeOK
<1> QED
  BY <1>4, <1>5, <1>6, <1>7 DEF TypeOK, CallLog, lockVars, chanVars, printVars

(* A caller that returns from log leaves every variable it writes well typed. *)
LEMMA ReturnTypes ==
  ASSUME TypeOK, NEW c \in Caller, Return(c)
  PROVE  /\ readers' \subseteq Caller
         /\ caller' \in [Caller -> {"idle", "lock", "check", "send"}]
         /\ message' \in [Caller -> Message \cup {NoMessage}]
         /\ \A d \in Caller : caller'[d] # "idle" => message'[d] \in Message
  BY DEF TypeOK, Return, RUnlock

LEMMA SendTypes ==
  ASSUME TypeOK, NEW c \in Caller, Send(c)
  PROVE  TypeOK'
<1>1. message[c] \in Message
  BY DEF TypeOK, Send
<1>2. Return(c)
  BY DEF Send
<1>3. logChan' \in Seq(Message) /\ Len(logChan') <= Capacity /\ accepted' \in Seq(Message)
  <2>1. CASE chanClosed
    BY <2>1 DEF TypeOK, Send
  <2>2. CASE ~chanClosed
    <3>1. logChan \in Seq(Message) /\ accepted \in Seq(Message) /\ Len(logChan) < Capacity
      BY <2>2 DEF TypeOK, Send, Room
    <3>2. logChan' = Append(logChan, message[c]) /\ accepted' = Append(accepted, message[c])
      BY <2>2 DEF Send
    <3> QED
      BY <1>1, <3>1, <3>2, AppendProperties, LenProperties, BoundAssumption
  <2> QED
    BY <2>1, <2>2
<1>4. panicked' \in BOOLEAN
  BY DEF TypeOK, Send
<1> QED
  BY <1>2, <1>3, <1>4, ReturnTypes DEF TypeOK, Send, printVars

LEMMA PrintOneTypes ==
  ASSUME TypeOK, PrintOne
  PROVE  TypeOK'
<1>1. logChan \in Seq(Message) /\ Len(logChan) > 0 /\ Len(logChan) <= Capacity
  BY DEF TypeOK, PrintOne
<1>2. Head(logChan) \in Message /\ Tail(logChan) \in Seq(Message) /\ Len(Tail(logChan)) = Len(logChan) - 1
  BY <1>1, HeadAndTail
<1>3. logChan' \in Seq(Message) /\ Len(logChan') <= Capacity
  BY <1>1, <1>2, LenProperties, BoundAssumption DEF PrintOne
<1>4. printed' \in Seq(Message)
  BY <1>2, AppendProperties DEF TypeOK, PrintOne
<1> QED
  BY <1>3, <1>4 DEF TypeOK, PrintOne, lockVars, callVars

LEMMA NextTypeOK == TypeOK /\ [Next]_vars => TypeOK'
<1> SUFFICES ASSUME TypeOK, [Next]_vars PROVE TypeOK'
  OBVIOUS
<1> USE DEF lockVars, chanVars, callVars, printVars
<1>1. ASSUME NEW c \in Caller, NEW level \in Level, CallLog(c, level) PROVE TypeOK'
  BY <1>1, CallLogTypes
<1>2. ASSUME NEW c \in Caller, RLock(c) PROVE TypeOK'
  BY <1>2 DEF TypeOK, RLock
<1>3. ASSUME NEW c \in Caller, Check(c) PROVE TypeOK'
  <2>1. CASE Wanted(message[c])
    BY <1>3, <2>1 DEF TypeOK, Check
  <2>2. CASE ~Wanted(message[c])
    <3>1. Return(c)
      BY <1>3, <2>2 DEF Check
    <3> QED
      BY <1>3, <3>1, ReturnTypes DEF TypeOK, Check
  <2> QED
    BY <2>1, <2>2
<1>4. ASSUME NEW c \in Caller, Send(c) PROVE TypeOK'
  BY <1>4, SendTypes
<1>6. ASSUME NEW c \in Caller, Drop(c) PROVE TypeOK'
  <2>1. Return(c) /\ message[c] \in Message
    BY <1>6 DEF TypeOK, Drop
  <2>2. dropped' \subseteq Message
    BY <1>6, <2>1 DEF TypeOK, Drop
  <2> QED
    BY <1>6, <2>1, <2>2, ReturnTypes DEF TypeOK, Drop
<1>7. ASSUME NEW k \in Closer, CallClose(k) PROVE TypeOK'
  BY <1>7 DEF TypeOK, CallClose
<1>8. ASSUME NEW k \in Closer, Lock(k) PROVE TypeOK'
  BY <1>8 DEF TypeOK, Lock
<1>9. ASSUME NEW k \in Closer, Mark(k) PROVE TypeOK'
  BY <1>9 DEF TypeOK, Mark, AfterMark
<1>10. ASSUME NEW k \in Closer, CloseChan(k) PROVE TypeOK'
  BY <1>10 DEF TypeOK, CloseChan, AfterClose
<1>11. ASSUME NEW k \in Closer, Wait(k) PROVE TypeOK'
  BY <1>11 DEF TypeOK, Wait
<1>12. CASE PrintOne
  BY <1>12, PrintOneTypes
<1>13. CASE PrinterEnds
  BY <1>13 DEF TypeOK, PrinterEnds
<1>14. CASE UNCHANGED vars
  BY <1>14 DEF TypeOK, vars
<1> QED
  BY <1>1, <1>2, <1>3, <1>4, <1>6, <1>7, <1>8, <1>9, <1>10, <1>11,
     <1>12, <1>13, <1>14
     DEF Next, Log, Close

(* Type correctness of the logger: the channel never holds more than its    *)
(* capacity.                                                                *)
THEOREM TypeCorrect == Spec => []TypeOK
  BY InitTypeOK, NextTypeOK, PTL DEF Spec

-----------------------------------------------------------------------------
LEMMA InitIInv == Init => IInv
<1> SUFFICES ASSUME Init PROVE IInv
  OBVIOUS
<1>1. TypeOK
  BY InitTypeOK
<1>2. LockInv /\ ClosedInv /\ NoPanic
  BY DEF Init, LockInv, ClosedInv, NoPanic
<1>3. PrintedInOrder
  <2>1. <<>> \in Seq(Message)
    BY EmptySeq
  <2>2. <<>> \o <<>> = <<>>
    BY <2>1, ConcatEmptySeq
  <2> QED
    BY <2>2 DEF Init, PrintedInOrder
<1> QED
  BY <1>1, <1>2, <1>3 DEF IInv

(* The read-write lock excludes: while a closer sets closed no caller is    *)
(* between its check and its send.                                          *)
LEMMA NextLockInv == TypeOK /\ LockInv /\ [Next]_vars => LockInv'
<1> SUFFICES ASSUME TypeOK, LockInv, [Next]_vars PROVE LockInv'
  OBVIOUS
<1> USE DEF TypeOK, LockInv, lockVars, chanVars, callVars, printVars
<1>1. ASSUME NEW c \in Caller, NEW level \in Level, CallLog(c, level) PROVE LockInv'
  BY <1>1 DEF CallLog
<1>2. ASSUME NEW c \in Caller, RLock(c) PROVE LockInv'
  BY <1>2 DEF RLock
<1>3. ASSUME NEW c \in Caller, Check(c) PROVE LockInv'
  BY <1>3 DEF Check, Return, RUnlock
<1>4. ASSUME NEW c \in Caller, Send(c) PROVE LockInv'
  BY <1>4 DEF Send, Return, RUnlock
<1>6. ASSUME NEW c \in Caller, Drop(c) PROVE LockInv'
  BY <1>6 DEF Drop, Return, RUnlock
<1>7. ASSUME NEW k \in Closer, CallClose(k) PROVE LockInv'
  BY <1>7 DEF CallClose
<1>8. ASSUME NEW k \in Closer, Lock(k) PROVE LockInv'
  BY <1>8 DEF Lock
<1>9. ASSUME NEW k \in Closer, Mark(k) PROVE LockInv'
  BY <1>9 DEF Mark, AfterMark
<1>10. ASSUME NEW k \in Closer, CloseChan(k) PROVE LockInv'
  BY <1>10 DEF CloseChan, AfterClose
<1>11. ASSUME NEW k \in Closer, Wait(k) PROVE LockInv'
  BY <1>11 DEF Wait
<1>12. CASE PrintOne
  BY <1>12 DEF PrintOne
<1>13. CASE PrinterEnds
  BY <1>13 DEF PrinterEnds
<1>14. CASE UNCHANGED vars
  BY <1>14 DEF vars
<1> QED
  BY <1>1, <1>2, <1>3, <1>4, <1>6, <1>7, <1>8, <1>9, <1>10, <1>11,
     <1>12, <1>13, <1>14
     DEF Next, Log, Close

(* Only the closer that set closed closes the channel, no caller is then in  *)
(* its send, and the printer leaves an empty channel behind.                 *)
LEMMA NextClosedInv == TypeOK /\ LockInv /\ ClosedInv /\ [Next]_vars => ClosedInv'
<1> SUFFICES ASSUME TypeOK, LockInv, ClosedInv, [Next]_vars PROVE ClosedInv'
  OBVIOUS
<1> USE DEF TypeOK, ClosedInv, lockVars, chanVars, callVars, printVars
<1>1. ASSUME NEW c \in Caller, NEW level \in Level, CallLog(c, level) PROVE ClosedInv'
  BY <1>1 DEF CallLog
<1>2. ASSUME NEW c \in Caller, RLock(c) PROVE ClosedInv'
  BY <1>2 DEF RLock
<1>3. ASSUME NEW c \in Caller, Check(c) PROVE ClosedInv'
  BY <1>3 DEF Check, Return, RUnlock, Wanted
<1>4. ASSUME NEW c \in Caller, Send(c) PROVE ClosedInv'
  BY <1>4 DEF Send, Return, RUnlock
<1>6. ASSUME NEW c \in Caller, Drop(c) PROVE ClosedInv'
  BY <1>6 DEF Drop, Return, RUnlock
<1>7. ASSUME NEW k \in Closer, CallClose(k) PROVE ClosedInv'
  BY <1>7 DEF CallClose
<1>8. ASSUME NEW k \in Closer, Lock(k) PROVE ClosedInv'
  BY <1>8 DEF Lock
<1>9. ASSUME NEW k \in Closer, Mark(k) PROVE ClosedInv'
  <2>1. \A c \in Caller : caller[c] # "send"
    BY <1>9 DEF Mark, LockInv
  <2>2. \A l \in Closer : closer[l] = "close" => closed
    OBVIOUS
  <2> QED
    BY <1>9, <2>1, <2>2 DEF Mark, AfterMark
<1>10. ASSUME NEW k \in Closer, CloseChan(k) PROVE ClosedInv'
  <2>1. \A l \in Closer : l # k => closer[l] # "close"
    BY <1>10 DEF CloseChan
  <2> QED
    BY <1>10, <2>1 DEF CloseChan, AfterClose
<1>11. ASSUME NEW k \in Closer, Wait(k) PROVE ClosedInv'
  BY <1>11 DEF Wait
<1>12. CASE PrintOne
  BY <1>12 DEF PrintOne
<1>13. CASE PrinterEnds
  BY <1>13 DEF PrinterEnds, Drained
<1>14. CASE UNCHANGED vars
  BY <1>14 DEF vars
<1> QED
  BY <1>1, <1>2, <1>3, <1>4, <1>6, <1>7, <1>8, <1>9, <1>10, <1>11,
     <1>12, <1>13, <1>14
     DEF Next, Log, Close

LEMMA NextNoPanic == ClosedInv /\ NoPanic /\ [Next]_vars => NoPanic'
<1> SUFFICES ASSUME ClosedInv, NoPanic, [Next]_vars PROVE NoPanic'
  OBVIOUS
<1>1. ASSUME NEW c \in Caller, Send(c) PROVE ~panicked'
  BY <1>1 DEF ClosedInv, Send, NoPanic
<1>2. ASSUME NEW k \in Closer, CloseChan(k) PROVE ~panicked'
  BY <1>2 DEF ClosedInv, CloseChan, NoPanic
<1>3. CASE UNCHANGED panicked
  BY <1>3 DEF NoPanic
<1> QED
  BY <1>1, <1>2, <1>3
     DEF Next, Log, Close, CallLog, RLock, Check, Drop, CallClose, Lock,
         Mark, Wait, PrintOne, PrinterEnds, vars, NoPanic

LEMMA NextPrintedInOrder == TypeOK /\ PrintedInOrder /\ [Next]_vars => PrintedInOrder'
<1> SUFFICES ASSUME TypeOK, PrintedInOrder, [Next]_vars PROVE PrintedInOrder'
  OBVIOUS
<1>1. logChan \in Seq(Message) /\ printed \in Seq(Message) /\ printed \o logChan = accepted
  BY DEF TypeOK, PrintedInOrder
<1>2. ASSUME NEW c \in Caller, Send(c), ~chanClosed PROVE PrintedInOrder'
  <2>1. message[c] \in Message
    BY <1>2 DEF TypeOK, Send
  <2>2. /\ logChan' = Append(logChan, message[c])
        /\ accepted' = Append(accepted, message[c])
        /\ printed' = printed
    BY <1>2 DEF Send, printVars
  <2>3. printed \o Append(logChan, message[c]) = Append(printed \o logChan, message[c])
    BY <1>1, <2>1, SendExtendsConcat
  <2> QED
    BY <1>1, <2>2, <2>3 DEF PrintedInOrder
<1>3. CASE PrintOne
  <2>1. Append(printed, Head(logChan)) \o Tail(logChan) = printed \o logChan
    BY <1>1, <1>3, ReceiveKeepsConcat DEF PrintOne
  <2> QED
    BY <1>1, <1>3, <2>1 DEF PrintOne, PrintedInOrder
<1>4. CASE UNCHANGED <<printed, logChan, accepted>>
  BY <1>4 DEF PrintedInOrder
<1>5. ASSUME NEW c \in Caller, Send(c), chanClosed PROVE UNCHANGED <<printed, logChan, accepted>>
  BY <1>5 DEF Send, printVars
<1> QED
  BY <1>2, <1>3, <1>4, <1>5
     DEF Next, Log, Close, CallLog, RLock, Check, Drop, CallClose, Lock,
         Mark, CloseChan, Wait, PrinterEnds, vars, chanVars, printVars

LEMMA NextIInv == IInv /\ [Next]_vars => IInv'
  BY NextTypeOK, NextLockInv, NextClosedInv, NextNoPanic, NextPrintedInOrder DEF IInv

LEMMA Invariant == Spec => []IInv
  BY InitIInv, NextIInv, PTL DEF Spec

(* No interleaving of any number of callers and closers sends on the closed  *)
(* channel or closes it twice.                                               *)
THEOREM NeverPanics == Spec => []NoPanic
<1>1. IInv => NoPanic
  BY DEF IInv
<1> QED
  BY Invariant, <1>1, PTL

(* What is printed, followed by what is in the channel, is what was accepted. *)
THEOREM PrintsInOrder == Spec => []PrintedInOrder
<1>1. IInv => PrintedInOrder
  BY DEF IInv
<1> QED
  BY Invariant, <1>1, PTL

(* The Close that closed the channel returns after everything is printed.    *)
THEOREM CloseFlushes == Spec => []FlushedOnReturn
<1>1. IInv => FlushedOnReturn
  <2> SUFFICES ASSUME IInv, NEW k \in Closer, closer[k] = "returned"
               PROVE  printed = accepted /\ \A c \in Caller : caller[c] # "send"
    BY DEF FlushedOnReturn
  <2>1. chanClosed /\ closed /\ Len(logChan) = 0
    BY DEF IInv, ClosedInv
  <2>2. logChan \in Seq(Message) /\ printed \in Seq(Message) /\ printed \o logChan = accepted
    BY DEF IInv, TypeOK, PrintedInOrder
  <2>3. logChan = <<>>
    BY <2>1, <2>2, EmptySeq
  <2>4. printed \o <<>> = printed
    BY <2>2, ConcatEmptySeq
  <2> QED
    BY <2>1, <2>2, <2>3, <2>4 DEF IInv, ClosedInv
<1> QED
  BY Invariant, <1>1, PTL
=============================================================================
