-------------------------- MODULE ClipboardServer ---------------------------
(***************************************************************************)
(* The clipboard server of internal/network/clipboard_handler.go: the      *)
(* accept loop, one goroutine per accepted connection, and Stop, which is  *)
(* called both by main and by the accept loop.                             *)
(*                                                                         *)
(* The listener is the one mdns.RegisterService opened: main always passes *)
(* it, so Start never opens one of its own and never fails.  The kernel,   *)
(* the peers and SetText of the clipboard manager are external.            *)
(* UncheckedTop, LoopServes, RunningKept, DecodeErrorIgnored and           *)
(* OwnTextsToo are variants with a bug a change could bring in.            *)
(***************************************************************************)
EXTENDS ClipboardShared

CONSTANTS
  ItemType,     \* types of clipboard content, "text" among them
  Host,         \* values of the Source field, the empty one included
  LocalHostID,  \* the host this server runs on
  Nothing,      \* the peer has not sent anything yet
  Unreadable    \* the peer closed the connection or sent what does not decode

ASSUME MessageAssumption == "text" \in ItemType /\ LocalHostID \in Host

Message == [type : ItemType, content : Text, source : Host]

ASSUME SentAssumption == Nothing \notin Message /\ Unreadable \notin Message /\ Nothing # Unreadable

VARIABLES
  listener,  \* external: the socket, "open" or "closed"
  running,   \* ClipboardServer.running, written by Stop and read by the accept loop without a lock
  acceptor,  \* program point of acceptConnections
  stop,      \* stop[p]: how far the call of Stop by p has come
  conn,      \* conn[c]: where connection c stands
  sent,      \* external: what the peer put on connection c
  failure,   \* the error of Accept the loop is handling
  logged,    \* history: a failure caused by closing the listener was logged
  late,      \* history: connections accepted after the context was cancelled
  applied    \* history: connections whose text went into the clipboard, in order

loopVars == <<acceptor, failure, logged, late>>
stopVars == <<listener, running, stop>>
serverVars == <<loopVars, stopVars, ctxDone, conn, sent, applied>>

Stopper == {"main", "acceptor"}

ServerTypeOK ==
  /\ listener \in {"open", "closed"}
  /\ running \in BOOLEAN
  /\ ctxDone \in BOOLEAN
  /\ acceptor \in {"off", "check", "accept", "failed", "stopping", "done"}
  /\ stop \in [Stopper -> {"no", "flagged", "yes"}]
  /\ conn \in [Conn -> {"none", "backlog", "reset", "decode", "settext", "closed"}]
  /\ sent \in [Conn -> Message \cup {Nothing, Unreadable}]
  /\ \A c \in Conn : conn[c] = "settext" => sent[c] \in Message
  /\ failure \in {"none", "closed", "transient"}
  /\ acceptor = "failed" => failure # "none"
  /\ logged \in BOOLEAN
  /\ late \in Nat
  /\ applied \in Seq(Conn)

ServerInit ==
  /\ listener = "open"
  /\ running = FALSE
  /\ ctxDone = FALSE
  /\ acceptor = "off"
  /\ stop = [p \in Stopper |-> "no"]
  /\ conn = [c \in Conn |-> "none"]
  /\ sent = [c \in Conn |-> Nothing]
  /\ failure = "none"
  /\ logged = FALSE
  /\ late = 0
  /\ applied = <<>>

-----------------------------------------------------------------------------
(* The peers and the kernel.                                               *)

\* The kernel completes the handshake, whether or not anyone accepts.
Connect(c) ==
  /\ listener = "open"
  /\ conn[c] = "none"
  /\ conn' = [conn EXCEPT ![c] = "backlog"]
  /\ UNCHANGED <<loopVars, stopVars, ctxDone, sent, applied>>

\* The peer writes one object, or something else, or closes.  A peer may also
\* never do any of it: the connection then stays silent.
Send(c, m) ==
  /\ conn[c] \in {"backlog", "decode"}
  /\ sent[c] = Nothing
  /\ sent' = [sent EXCEPT ![c] = m]
  /\ UNCHANGED <<loopVars, stopVars, ctxDone, conn, applied>>

-----------------------------------------------------------------------------
(* main: Start, cancelMonitor, and Stop among the deferred calls.          *)

Start ==
  /\ acceptor = "off"
  /\ running' = TRUE
  /\ acceptor' = "check"
  /\ UNCHANGED <<listener, stop, failure, logged, late, ctxDone, conn, sent, applied>>

ServerCancel ==
  /\ acceptor # "off"
  /\ ~ctxDone
  /\ ctxDone' = TRUE
  /\ UNCHANGED <<loopVars, stopVars, conn, sent, applied>>

\* main stops the server after it cancelled the context, the accept loop when
\* it sees the context cancelled.
CallsStop(p) == IF p = "main" THEN ctxDone ELSE acceptor = "stopping"

RunningKept == UNCHANGED running
RunningCleared == running' = FALSE

StopFlag(p) ==
  /\ CallsStop(p) /\ stop[p] = "no"
  /\ RunningCleared
  /\ stop' = [stop EXCEPT ![p] = "flagged"]
  /\ UNCHANGED <<listener, loopVars, ctxDone, conn, sent, applied>>

\* The kernel resets the connections nobody accepted.
\* A second close is an error that Stop ignores.  The accept loop returns after
\* its call.
StopClose(p) ==
  /\ stop[p] = "flagged"
  /\ listener' = "closed"
  /\ conn' = [c \in Conn |-> IF conn[c] = "backlog" THEN "reset" ELSE conn[c]]
  /\ stop' = [stop EXCEPT ![p] = "yes"]
  /\ acceptor' = IF p = "acceptor" THEN "done" ELSE acceptor
  /\ UNCHANGED <<running, failure, logged, late, ctxDone, sent, applied>>

-----------------------------------------------------------------------------
(* The accept loop.  A cancelled context is only seen at its top: an       *)
(* Accept that is blocked is not interrupted by it.                        *)

UncheckedTop == "accept"
TopOfLoop == IF ctxDone THEN "stopping" ELSE "accept"

CheckContext ==
  /\ acceptor = "check"
  /\ acceptor' = TopOfLoop
  /\ UNCHANGED <<failure, logged, late, stopVars, ctxDone, conn, sent, applied>>

\* "go s.handleConnection": the loop does not wait for the handlers.  In the
\* variant it runs them itself.
LoopServes == \A d \in Conn : conn[d] \notin {"decode", "settext"}
LoopIsFree == TRUE

Accept(c) ==
  /\ acceptor = "accept"
  /\ listener = "open"
  /\ conn[c] = "backlog"
  /\ LoopIsFree
  /\ conn' = [conn EXCEPT ![c] = "decode"]
  /\ late' = IF ctxDone THEN late + 1 ELSE late
  /\ acceptor' = "check"
  /\ UNCHANGED <<failure, logged, stopVars, ctxDone, sent, applied>>

\* Accept fails when the listener is closed, and may fail for want of resources.
AcceptFails ==
  /\ acceptor = "accept"
  /\ failure' = IF listener = "closed" THEN "closed" ELSE "transient"
  /\ acceptor' = "failed"
  /\ UNCHANGED <<logged, late, stopVars, ctxDone, conn, sent, applied>>

\* Logs the failure if the server is running; both arms of the inner select
\* lead back to the top of the loop, one of them after 100 ms.
\* Closing the listener and the failure of the Accept it ends are ordered by the
\* socket's own lock: such a failure sees what Stop wrote to running before.
AfterFailure ==
  /\ acceptor = "failed"
  /\ logged' = IF running /\ failure = "closed" THEN TRUE ELSE logged
  /\ failure' = "none"
  /\ acceptor' = "check"
  /\ UNCHANGED <<late, stopVars, ctxDone, conn, sent, applied>>

-----------------------------------------------------------------------------
(* handleConnection, one goroutine per connection.                         *)

\* Variants: a failed Decode does not return, texts of this machine are kept.
DecodeErrorIgnored(m) == m # Nothing /\ (m \in Message => m.source # LocalHostID /\ m.type = "text")
OwnTextsToo(m) == m \in Message /\ m.type = "text"

\* Decodes, does not come from this machine, and is of the type that is handled.
Applicable(m) == m \in Message /\ m.source # LocalHostID /\ m.type = "text"

\* Decode returns once the peer has sent something or closed.
HandleMessage(c) ==
  /\ conn[c] = "decode"
  /\ sent[c] # Nothing
  /\ conn' = [conn EXCEPT ![c] = IF Applicable(sent[c]) THEN "settext" ELSE "closed"]
  /\ UNCHANGED <<loopVars, stopVars, ctxDone, sent, applied>>

\* SetText returns; whether it succeeded is only logged.
SetTextReturns(c, success) ==
  /\ conn[c] = "settext"
  /\ applied' = IF success THEN Append(applied, c) ELSE applied
  /\ conn' = [conn EXCEPT ![c] = "closed"]
  /\ UNCHANGED <<loopVars, stopVars, ctxDone, sent>>

-----------------------------------------------------------------------------
Handler(c) == HandleMessage(c) \/ \E success \in BOOLEAN : SetTextReturns(c, success)
Stop(p) == StopFlag(p) \/ StopClose(p)

ServerNext ==
  \/ \E c \in Conn : Connect(c)
  \/ \E c \in Conn, m \in Message \cup {Unreadable} : Send(c, m)
  \/ Start
  \/ ServerCancel
  \/ \E p \in Stopper : Stop(p)
  \/ CheckContext
  \/ \E c \in Conn : Accept(c)
  \/ AcceptFails
  \/ AfterFailure
  \/ \E c \in Conn : Handler(c)

\* Goroutines that can run do run, Accept on a closed listener returns, and the
\* kernel does not refuse a waiting connection for ever: that leaves out so many
\* silent peers that no descriptor is left, since a handler waits for its peer
\* without a deadline.  Peers owe nothing, and main is not forced to cancel.
ServerFairness ==
  /\ WF_serverVars(Start) /\ WF_serverVars(CheckContext) /\ WF_serverVars(AfterFailure)
  /\ WF_serverVars(AcceptFails /\ listener = "closed")
  /\ \A p \in Stopper : WF_serverVars(Stop(p))
  /\ \A c \in Conn : SF_serverVars(Accept(c)) /\ WF_serverVars(Handler(c))

ServerSpec == ServerInit /\ [][ServerNext]_serverVars /\ ServerFairness

-----------------------------------------------------------------------------
(* Properties.                                                             *)

\* A cancelled context lets at most the one Accept that was already under way
\* succeed, although nothing interrupts it.
AtMostOneLate == late <= 1

\* The shutdown is silent: the failure Stop causes by closing the listener under
\* a blocked Accept is never logged ("Avoid logging errors if server was
\* intentionally stopped"), because Stop clears running before it closes.
QuietShutdown == ~logged

\* What reaches the clipboard are texts of other hosts, each once.
OnlyForeignTexts ==
  /\ \A i \in 1 .. Len(applied) :
       /\ sent[applied[i]] \in Message
       /\ sent[applied[i]].type = "text"
       /\ sent[applied[i]].source # LocalHostID
  /\ \A i, j \in 1 .. Len(applied) : applied[i] = applied[j] => i = j

\* A peer that connects and then sends or closes is served to the end or reset
\* by the shutdown; silent peers do not hold it up.
PeersAreServed ==
  \A c \in Conn :
    (conn[c] = "backlog" /\ sent[c] # Nothing) ~> (conn[c] \in {"closed", "reset"})
=============================================================================
