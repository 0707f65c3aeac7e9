---------------------------- MODULE AsyncLogger -----------------------------
(***************************************************************************)
(* The asynchronous logger of internal/logger/async_logger.go: callers of  *)
(* log hold a read lock while they send on a bounded channel and give up   *)
(* after 50 ms; Close takes the write lock, marks the logger closed,       *)
(* closes the channel and waits for the goroutine that prints.             *)
(*                                                                         *)
(* sync.RWMutex is external: a waiting writer keeps new readers out.  The  *)
(* channel has Capacity 100 in the code.  NoClosedCheck, OneTooMany,       *)
(* LockKept and NoWait are variants with a bug a change could bring in.    *)
(***************************************************************************)
EXTENDS Naturals, Sequences

CONSTANTS
  Caller,    \* goroutines that log
  Closer,    \* goroutines that call Close
  Level,     \* levels of the messages, numbers as in the code
  LogLevel,  \* AsyncLogger.logLevel
  Capacity,  \* of logChan
  MaxLogs,   \* bound: calls of log per caller
  NoMessage  \* a caller outside log

ASSUME LevelAssumption == Level \subseteq Nat /\ LogLevel \in Nat
ASSUME BoundAssumption == Capacity \in Nat \ {0} /\ MaxLogs \in Nat

VARIABLES
  readers,     \* callers that hold the read lock
  writer,      \* closers that hold the write lock
  closed,      \* AsyncLogger.closed
  logChan,     \* the channel
  chanClosed,  \* the channel is closed
  caller,      \* caller[c]: program point of c in log
  message,     \* message[c]: what c is logging
  logs,        \* logs[c]: how many calls c has made
  closer,      \* program point of each Close
  printer,     \* program point of processLogs
  panicked,    \* a send on, or a second close of, a closed channel
  accepted,    \* history: messages sent on the channel
  dropped,     \* history: messages dropped by the timeout
  printed      \* history: messages processLogs printed

lockVars == <<readers, writer>>
chanVars == <<logChan, chanClosed, accepted>>
callVars == <<caller, message, logs>>
printVars == <<printer, printed>>
vars == <<lockVars, closed, chanVars, callVars, closer, printVars,
          panicked, dropped>>

Message == [by : Caller, n : 1 .. MaxLogs, level : Level]

TypeOK ==
  /\ readers \subseteq Caller
  /\ writer \subseteq Closer
  /\ closed \in BOOLEAN /\ chanClosed \in BOOLEAN /\ panicked \in BOOLEAN
  /\ logChan \in Seq(Message) /\ Len(logChan) <= Capacity
  /\ caller \in [Caller -> {"idle", "lock", "check", "send"}]
  /\ message \in [Caller -> Message \cup {NoMessage}]
  /\ \A c \in Caller : caller[c] # "idle" => message[c] \in Message
  /\ logs \in [Caller -> 0 .. MaxLogs]
  /\ closer \in [Closer -> {"idle", "lock", "mark", "close", "wait", "returned", "skipped"}]
  /\ printer \in {"running", "done"}
  /\ accepted \in Seq(Message)
  /\ dropped \subseteq Message
  /\ printed \in Seq(Message)

Init ==
  /\ readers = {} /\ writer = {}
  /\ closed = FALSE /\ chanClosed = FALSE /\ panicked = FALSE
  /\ logChan = <<>> /\ accepted = <<>> /\ dropped = {} /\ printed = <<>>
  /\ caller = [c \in Caller |-> "idle"]
  /\ message = [c \in Caller |-> NoMessage]
  /\ logs = [c \in Caller |-> 0]
  /\ closer = [k \in Closer |-> "idle"]
  /\ printer = "running"

-----------------------------------------------------------------------------
(* log, called by Debugf, Infof, Printf, Warnf and Errorf.                 *)

CallLog(c, level) ==
  /\ caller[c] = "idle"
  /\ logs[c] < MaxLogs
  /\ logs' = [logs EXCEPT ![c] = logs[c] + 1]
  /\ caller' = [caller EXCEPT ![c] = "lock"]
  /\ message' = [message EXCEPT ![c] = [by |-> c, n |-> logs[c] + 1, level |-> level]]
  /\ UNCHANGED <<lockVars, closed, chanVars, closer, printVars, panicked, dropped>>

WriterWaits == \E k \in Closer : closer[k] = "lock"

RLock(c) ==
  /\ caller[c] = "lock"
  /\ writer = {} /\ ~WriterWaits
  /\ readers' = readers \cup {c}
  /\ caller' = [caller EXCEPT ![c] = "check"]
  /\ UNCHANGED <<writer, closed, chanVars, message, logs, closer, printVars, panicked, dropped>>

LockKept(c) == UNCHANGED readers
RUnlock(c) == readers' = readers \ {c}

\* log returns and its deferred RUnlock runs.
Return(c) ==
  /\ RUnlock(c)
  /\ caller' = [caller EXCEPT ![c] = "idle"]
  /\ message' = [message EXCEPT ![c] = NoMessage]

NoClosedCheck(m) == m.level >= LogLevel
Wanted(m) == ~closed /\ m.level >= LogLevel

Check(c) ==
  /\ caller[c] = "check"
  /\ \/ /\ Wanted(message[c])
        /\ caller' = [caller EXCEPT ![c] = "send"]
        /\ UNCHANGED <<readers, message>>
     \/ /\ ~Wanted(message[c])
        /\ Return(c)
  /\ UNCHANGED <<writer, closed, chanVars, logs, closer, printVars, panicked, dropped>>

OneTooMany == Len(logChan) <= Capacity
Room == Len(logChan) < Capacity

\* Waits for room in the channel; a send on a closed channel panics.
Send(c) ==
  /\ caller[c] = "send"
  /\ chanClosed \/ Room
  /\ IF chanClosed
     THEN panicked' = TRUE /\ UNCHANGED <<logChan, accepted>>
     ELSE /\ logChan' = Append(logChan, message[c])
          /\ accepted' = Append(accepted, message[c])
          /\ UNCHANGED panicked
  /\ Return(c)
  /\ UNCHANGED <<writer, closed, chanClosed, logs, closer, printVars, dropped>>

\* The 50 ms are over, mostly because the channel is full: a select in which both
\* arms are ready takes either.  The message goes to standard output with a
\* warning, and is not logged.
Drop(c) ==
  /\ caller[c] = "send"
  /\ dropped' = dropped \cup {message[c]}
  /\ Return(c)
  /\ UNCHANGED <<writer, closed, chanVars, logs, closer, printVars, panicked>>

-----------------------------------------------------------------------------
(* Close.                                                                  *)

CallClose(k) ==
  /\ closer[k] = "idle"
  /\ closer' = [closer EXCEPT ![k] = "lock"]
  /\ UNCHANGED <<lockVars, closed, chanVars, callVars, printVars, panicked, dropped>>

Lock(k) ==
  /\ closer[k] = "lock"
  /\ readers = {} /\ writer = {}
  /\ writer' = {k}
  /\ closer' = [closer EXCEPT ![k] = "mark"]
  /\ UNCHANGED <<readers, closed, chanVars, callVars, printVars, panicked, dropped>>

AfterMark == IF closed THEN "skipped" ELSE "close"

\* Under the write lock: a logger that is closed already is left alone.
Mark(k) ==
  /\ closer[k] = "mark"
  /\ closed' = TRUE
  /\ closer' = [closer EXCEPT ![k] = AfterMark]
  /\ writer' = {}
  /\ UNCHANGED <<readers, chanVars, callVars, printVars, panicked, dropped>>

NoWait == "returned"
AfterClose == "wait"

CloseChan(k) ==
  /\ closer[k] = "close"
  /\ panicked' = (panicked \/ chanClosed)
  /\ chanClosed' = TRUE
  /\ closer' = [closer EXCEPT ![k] = AfterClose]
  /\ UNCHANGED <<lockVars, closed, logChan, accepted, callVars, printVars, dropped>>

Wait(k) ==
  /\ closer[k] = "wait"
  /\ printer = "done"
  /\ closer' = [closer EXCEPT ![k] = "returned"]
  /\ UNCHANGED <<lockVars, closed, chanVars, callVars, printVars, panicked, dropped>>

-----------------------------------------------------------------------------
(* processLogs.                                                            *)

PrintOne ==
  /\ printer = "running"
  /\ Len(logChan) > 0
  /\ printed' = Append(printed, Head(logChan))
  /\ logChan' = Tail(logChan)
  /\ UNCHANGED <<lockVars, closed, chanClosed, accepted, callVars, closer, printer, panicked, dropped>>

\* The range over the channel ends when it is closed and drained.
Drained == Len(logChan) = 0

PrinterEnds ==
  /\ printer = "running"
  /\ chanClosed
  /\ Drained
  /\ printer' = "done"
  /\ UNCHANGED <<lockVars, closed, chanVars, callVars, closer, printed, panicked, dropped>>

-----------------------------------------------------------------------------
Log(c) == RLock(c) \/ Check(c) \/ Send(c) \/ Drop(c)
Close(k) == Lock(k) \/ Mark(k) \/ CloseChan(k) \/ Wait(k)

Next ==
  \/ \E c \in Caller, level \in Level : CallLog(c, level)
  \/ \E c \in Caller : Log(c)
  \/ \E k \in Closer : CallClose(k) \/ Close(k)
  \/ PrintOne
  \/ PrinterEnds

\* Goroutines that can run do run, and standard output, which takes the messages
\* and the warnings of Drop, does not block for ever.  Nobody has to log or to close.
Fairness ==
  /\ WF_vars(PrintOne) /\ WF_vars(PrinterEnds)
  /\ \A c \in Caller : WF_vars(Log(c))
  /\ \A k \in Closer : WF_vars(Close(k))

Spec == Init /\ [][Next]_vars /\ Fairness

-----------------------------------------------------------------------------
(* Properties.                                                             *)

\* No interleaving of log and Close sends on a closed channel or closes it twice:
\* the read lock is held from the check of closed to the end of the send.
NoPanic == ~panicked

\* Messages are printed once and in the order in which the channel took them.
PrintedInOrder == printed \o logChan = accepted

\* When the Close that closed the channel returns, everything accepted has been
\* printed and no caller is about to send.  (A second Close returns at once.)
FlushedOnReturn ==
  (\E k \in Closer : closer[k] = "returned")
     => printed = accepted /\ \A c \in Caller : caller[c] # "send"

\* Every call of log and every Close returns: log waits for a closer that waits
\* for the calls before it and for room in the channel, Close for the printer
\* while callers keep arriving and a second Close runs.
CallsReturn ==
  /\ \A c \in Caller : (caller[c] # "idle") ~> (caller[c] = "idle")
  /\ \A k \in Closer : (closer[k] = "lock") ~> (closer[k] \in {"returned", "skipped"})
=============================================================================
