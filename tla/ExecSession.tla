----------------------------- MODULE ExecSession -----------------------------
(***************************************************************************)
(* One established exec session: Handler.session from the moment its       *)
(* goroutines start, with readLoop, pingLoop, the idle timer's callback,   *)
(* the frame-writing goroutine of reportAndEnd, the executor's stdout      *)
(* writer and awaitStream.                                                 *)
(*                                                                         *)
(* The goroutines share the browser's socket, writeMu (one writer at a     *)
(* time, held for the whole of a write), the atomic flag ending (claimed   *)
(* by compare-and-swap by whoever tears the session down) and sessionCtx.  *)
(* Payloads are left out: of the frames only those that say how the        *)
(* session ended are kept ("outcome" is the exit frame, with or without a  *)
(* code, or the error frame built from the stream's error).  The stdin     *)
(* queue, its pump and the pipe are StdinQueue's subject.                  *)
(*                                                                         *)
(* Time is left out: a timer may expire at any moment after it is started. *)
(* quiet only steers logging and is left out too.                          *)
(***************************************************************************)
EXTENDS Naturals, Sequences

VARIABLES
    client,      \* the browser: "reading", "stalled" (reads nothing), "gone"
    healthy,     \* history: the browser has read all along
    open,        \* the server has not closed the socket
    mu,          \* who holds writeMu, or "free"
    sent,        \* the exit and error frames the socket accepted, in order
    ending,      \* the atomic flag
    claimer,     \* history: who claimed it first
    cancelled,   \* sessionCtx is done
    main,        \* session(): see Mains
    stream,      \* StreamWithContext: "idle", "run", "over"
    stdout,      \* the executor's stdout copy: "idle", "lock", "write", "dead"
    reader,      \* readLoop: "read", "got", "overflow", "report", "exit"
    refused,     \* history: the queue refused a frame
    pinger,      \* pingLoop: "loop", "end", "exit"
    timer,       \* the idle timer: "armed", "off"
    idle,        \* its callback: "none", "fired", "report"
    report,      \* reportAndEnd's writer: "none", "lock", "write", "done"
    late         \* history: idleFrameTimeout expired before the frame was out

socket == <<client, healthy>>
teardown == <<ending, claimer, cancelled>>
upstream == <<stream, stdout>>
timers == <<timer, idle>>
vars == <<client, healthy, open, mu, sent, ending, claimer, cancelled, main,
          stream, stdout, reader, refused, pinger, timer, idle, report, late>>

Mains == {"ready", "readyWrite", "await", "drain", "waitDone", "claim",
          "final", "finalWrite", "close", "defers", "done"}
Verdict == {"outcome", "idle", "overflow"}

TypeOK ==
    /\ client \in {"reading", "stalled", "gone"} /\ healthy \in BOOLEAN
    /\ open \in BOOLEAN
    /\ mu \in {"free", "main", "stdout", "report"}
    /\ sent \in Seq(Verdict)
    /\ ending \in BOOLEAN /\ cancelled \in BOOLEAN
    /\ claimer \in {"nobody", "main", "idle", "overflow", "ping"}
    /\ main \in Mains
    /\ stream \in {"idle", "run", "over"}
    /\ stdout \in {"idle", "lock", "write", "dead"}
    /\ reader \in {"read", "got", "overflow", "report", "exit"}
    /\ refused \in BOOLEAN
    /\ pinger \in {"loop", "end", "exit"}
    /\ timer \in {"armed", "off"} /\ idle \in {"none", "fired", "report"}
    /\ report \in {"none", "lock", "write", "done"} /\ late \in BOOLEAN

Init ==
    /\ client = "reading" /\ healthy = TRUE
    /\ open = TRUE /\ mu = "free" /\ sent = <<>>
    /\ ending = FALSE /\ claimer = "nobody" /\ cancelled = FALSE
    /\ main = "ready" /\ stream = "idle" /\ stdout = "idle"
    /\ reader = "read" /\ refused = FALSE
    /\ pinger = "loop" /\ timer = "armed" /\ idle = "none"
    /\ report = "none" /\ late = FALSE

-----------------------------------------------------------------------------
(* The browser.                                                            *)

ClientStalls ==
    /\ client = "reading"
    /\ client' = "stalled" /\ healthy' = FALSE
    /\ UNCHANGED <<open, mu, sent, teardown, main, upstream, reader, refused,
                   pinger, timers, report, late>>

ClientResumes ==
    /\ client = "stalled"
    /\ client' = "reading"
    /\ UNCHANGED <<healthy, open, mu, sent, teardown, main, upstream, reader,
                   refused, pinger, timers, report, late>>

(* The browser's connection breaks off.  So it does after a frame over the *)
(* read limit: the library closes the connection and the read fails.       *)
ClientLeaves ==
    /\ client # "gone"
    /\ client' = "gone" /\ healthy' = FALSE
    /\ UNCHANGED <<open, mu, sent, teardown, main, upstream, reader, refused,
                   pinger, timers, report, late>>

(* conn.Write: it blocks while the browser reads nothing, unless the       *)
(* socket is closed or gone or the context given to it is done.            *)
WriteSucceeds == open /\ client = "reading"
WriteFails(ctxDone) == ~open \/ client = "gone" \/ ctxDone

(* ending.CompareAndSwap(false, true), for claimants that won it.          *)
Claim(who) == ~ending /\ ending' = TRUE /\ claimer' = who

(* end(): ending.Store(true); quiet; cancel().                             *)
End(who) ==
    /\ ending' = TRUE
    /\ claimer' = IF ending THEN claimer ELSE who
    /\ cancelled' = TRUE

-----------------------------------------------------------------------------
(* session() itself.                                                       *)

MainLock ==
    /\ main \in {"ready", "final"} /\ mu = "free"
    /\ mu' = "main"
    /\ main' = IF main = "ready" THEN "readyWrite" ELSE "finalWrite"
    /\ UNCHANGED <<socket, open, sent, teardown, upstream, reader, refused,
                   pinger, timers, report, late>>

(* The ready frame goes out and the stream starts ...                      *)
ReadySent ==
    /\ main = "readyWrite" /\ WriteSucceeds
    /\ mu' = "free"
    /\ stream' = "run"
    /\ main' = "await"
    /\ UNCHANGED <<socket, open, sent, teardown, stdout, reader, refused,
                   pinger, timers, report, late>>

(* ... or the write fails and the session is over before it began.         *)
ReadyFails ==
    /\ main = "readyWrite" /\ WriteFails(cancelled)
    /\ mu' = "free" /\ open' = FALSE
    /\ main' = "defers"
    /\ UNCHANGED <<socket, sent, teardown, upstream, reader, refused, pinger,
                   timers, report, late>>

(* awaitStream: the stream ended, before or after the browser left ...     *)
StreamDone ==
    /\ main \in {"await", "drain", "waitDone"} /\ stream = "over"
    /\ main' = "claim"
    /\ UNCHANGED <<socket, open, mu, sent, teardown, upstream, reader, refused,
                   pinger, timers, report, late>>

(* ... clientGone was closed first: start the grace period ...             *)
ClientGone ==
    /\ main = "await" /\ reader = "exit"
    /\ main' = "drain"
    /\ UNCHANGED <<socket, open, mu, sent, teardown, upstream, reader, refused,
                   pinger, timers, report, late>>

(* Variants named Slip... are what a plausible mistake in the same place   *)
(* would do; they are not part of the specification.                       *)

SlipDrainGivesUp ==
    /\ main = "drain"
    /\ cancelled' = TRUE
    /\ main' = "claim"
    /\ UNCHANGED <<socket, open, mu, sent, ending, claimer, upstream, reader,
                   refused, pinger, timers, report, late>>

(* ... and cancel when it has passed.  drainTimeout is twice               *)
(* idleFrameTimeout: a report still unwritten then has had its time.       *)
DrainTimeout ==
    /\ main = "drain"
    /\ cancelled' = TRUE
    /\ late' = (late \/ report \in {"lock", "write"})
    /\ main' = "waitDone"
    /\ UNCHANGED <<socket, open, mu, sent, ending, claimer, upstream, reader,
                   refused, pinger, timers, report>>

SlipMainIgnoresClaim ==
    /\ main = "claim"
    /\ main' = "final"
    /\ ending' = TRUE
    /\ claimer' = IF ending THEN claimer ELSE "main"
    /\ UNCHANGED <<socket, open, mu, sent, cancelled, upstream, reader, refused,
                   pinger, timers, report, late>>

SlipMainClaimInverted ==
    /\ main = "claim"
    /\ \/ Claim("main") /\ main' = "close"
       \/ ending /\ main' = "final" /\ UNCHANGED <<ending, claimer>>
    /\ UNCHANGED <<socket, open, mu, sent, cancelled, upstream, reader, refused,
                   pinger, timers, report, late>>

MainClaims ==
    /\ main = "claim"
    /\ \/ Claim("main") /\ main' = "final"
       \/ ending /\ main' = "close" /\ UNCHANGED <<ending, claimer>>
    /\ UNCHANGED <<socket, open, mu, sent, cancelled, upstream, reader, refused,
                   pinger, timers, report, late>>

(* The exit or error frame, under the request's context.                   *)
FinalSent ==
    /\ main = "finalWrite" /\ WriteSucceeds
    /\ sent' = Append(sent, "outcome")
    /\ mu' = "free"
    /\ main' = "close"
    /\ UNCHANGED <<socket, open, teardown, upstream, reader, refused, pinger,
                   timers, report, late>>

FinalFails ==
    /\ main = "finalWrite" /\ WriteFails(FALSE)
    /\ mu' = "free"
    /\ main' = "close"
    /\ UNCHANGED <<socket, open, sent, teardown, upstream, reader, refused,
                   pinger, timers, report, late>>

(* conn.Close: a close handshake bounded by the library's own timeout.     *)
MainCloses ==
    /\ main = "close"
    /\ open' = FALSE
    /\ main' = "defers"
    /\ UNCHANGED <<socket, mu, sent, teardown, upstream, reader, refused, pinger,
                   timers, report, late>>

(* The deferred calls: stdinReader.Close, idle.Stop, cancel, <-h.sessions. *)
Defers ==
    /\ main = "defers"
    /\ timer' = "off"
    /\ cancelled' = TRUE
    /\ main' = "done"
    /\ UNCHANGED <<socket, open, mu, sent, ending, claimer, upstream, reader,
                   refused, pinger, idle, report,
                   late>>

-----------------------------------------------------------------------------
(* The executor (client-go).  It may end on its own once its stdout copy   *)
(* is not in the middle of a write; when the context is done it returns    *)
(* at once and leaves that copy behind.                                    *)

StreamEnds ==
    /\ stream = "run" /\ stdout \in {"idle", "dead"}
    /\ stream' = "over"
    /\ UNCHANGED <<socket, open, mu, sent, teardown, main, stdout, reader,
                   refused, pinger, timers, report, late>>

StreamCancelled ==
    /\ stream = "run" /\ cancelled
    /\ stream' = "over"
    /\ UNCHANGED <<socket, open, mu, sent, teardown, main, stdout, reader,
                   refused, pinger, timers, report, late>>

StdoutBegins ==
    /\ stream = "run" /\ stdout = "idle"
    /\ stdout' = "lock"
    /\ UNCHANGED <<socket, open, mu, sent, teardown, main, stream,
                   reader, refused, pinger, timers, report, late>>

(* wsWriter.Write                                                          *)
StdoutLock ==
    /\ stdout = "lock" /\ mu = "free"
    /\ mu' = "stdout" /\ stdout' = "write"
    /\ UNCHANGED <<socket, open, sent, teardown, main, stream, reader,
                   refused, pinger, timers, report, late>>

StdoutWrites ==
    /\ stdout = "write" /\ WriteSucceeds
    /\ mu' = "free" /\ stdout' = "idle"
    /\ timer' = "armed"
    /\ UNCHANGED <<socket, open, sent, teardown, main, stream, reader,
                   refused, pinger, idle, report, late>>

SlipStdoutKeepsLock ==
    /\ stdout = "write" /\ WriteFails(cancelled)
    /\ stdout' = "dead"
    /\ open' = (open /\ ~cancelled)
    /\ UNCHANGED <<socket, mu, sent, teardown, main, stream, reader, refused,
                   pinger, timers, report, late>>

(* A write whose context is done closes the socket behind it.              *)
StdoutFails ==
    /\ stdout = "write" /\ WriteFails(cancelled)
    /\ mu' = "free" /\ stdout' = "dead"
    /\ open' = (open /\ ~cancelled)
    /\ UNCHANGED <<socket, sent, teardown, main, stream, reader, refused,
                   pinger, timers, report, late>>

-----------------------------------------------------------------------------
(* readLoop.  Any binary frame may be the one the stdin queue refuses      *)
(* (StdinQueue says when that is).                                         *)

ReadFrame ==
    /\ reader = "read" /\ open /\ client # "gone" /\ ~cancelled
    /\ reader' = "got"
    /\ UNCHANGED <<socket, open, mu, sent, teardown, main, upstream, refused,
                   pinger, timers, report, late>>

(* A frame counts as activity whatever it holds; a resize and a binary     *)
(* frame that the stdin queue takes leave the loop where it was.           *)
HandleFrame ==
    /\ reader = "got"
    /\ timer' = "armed"
    /\ reader' = "read"
    /\ UNCHANGED <<socket, open, mu, sent, teardown, main, upstream, refused,
                   pinger, idle, report, late>>

RefuseStdin ==
    /\ reader = "got"
    /\ refused' = TRUE
    /\ timer' = "armed"
    /\ reader' = "overflow"
    /\ UNCHANGED <<socket, open, mu, sent, teardown, main, upstream, pinger, idle, report, late>>

(* overflow(): only the claimant reports; either way the loop returns, its *)
(* deferred calls close the queue, and clientGone is closed.               *)
OverflowClaims ==
    /\ reader = "overflow" /\ Claim("overflow")
    /\ report' = "lock"
    /\ reader' = "report"
    /\ UNCHANGED <<socket, open, mu, sent, cancelled, main, upstream, refused,
                   pinger, timers, late>>

OverflowLoses ==
    /\ reader = "overflow" /\ ending
    /\ reader' = "exit"
    /\ UNCHANGED <<socket, open, mu, sent, teardown, main, upstream, refused, pinger, timers, report, late>>

(* The second half of reportAndEnd: the frame is out or the timer fired.   *)
ReportReturns ==
    /\ late' = (late \/ report # "done")
    /\ End("overflow")

OverflowEnds ==
    /\ reader = "report" /\ ReportReturns
    /\ reader' = "exit"
    /\ UNCHANGED <<socket, open, mu, sent, main, upstream, refused, pinger, timers, report>>

(* conn.Read fails; if the context did it, the socket is closed as well.   *)
ReadFails ==
    /\ reader = "read" /\ (~open \/ client = "gone" \/ cancelled)
    /\ open' = (open /\ ~cancelled)
    /\ reader' = "exit"
    /\ UNCHANGED <<socket, mu, sent, teardown, main, upstream, refused, pinger, timers, report, late>>

-----------------------------------------------------------------------------
(* pingLoop.  A ping that is answered changes nothing.                     *)

PingStops ==
    /\ pinger = "loop" /\ (cancelled \/ reader = "exit")
    /\ pinger' = "exit"
    /\ UNCHANGED <<socket, open, mu, sent, teardown, main, upstream, reader,
                   refused, timers, report, late>>

SlipPingGivesUp ==
    /\ pinger = "loop" /\ (client # "reading" \/ ~open \/ cancelled)
    /\ pinger' = "exit"
    /\ UNCHANGED <<socket, open, mu, sent, teardown, main, upstream, reader,
                   refused, timers, report, late>>

PingFails ==
    /\ pinger = "loop" /\ (client # "reading" \/ ~open \/ cancelled)
    /\ pinger' = IF reader = "exit" THEN "exit" ELSE "end"
    /\ UNCHANGED <<socket, open, mu, sent, teardown, main, upstream, reader,
                   refused, timers, report, late>>

PingEnds ==
    /\ pinger = "end" /\ End("ping")
    /\ pinger' = "exit"
    /\ UNCHANGED <<socket, open, mu, sent, main, upstream, reader, refused,
                   timers, report, late>>

-----------------------------------------------------------------------------
(* The idle timer.  Stop cannot recall a callback that has started, and    *)
(* activity re-arms the timer even after Stop.  A second firing while the  *)
(* first callback is reporting loses the claim and does nothing.           *)

IdleFires ==
    /\ timer = "armed" /\ idle = "none"
    /\ timer' = "off" /\ idle' = "fired"
    /\ UNCHANGED <<socket, open, mu, sent, teardown, main, upstream, reader,
                   refused, pinger, report, late>>

SlipIdleCancelsFirst ==
    /\ idle = "fired" /\ Claim("idle")
    /\ cancelled' = TRUE
    /\ report' = "lock"
    /\ idle' = "report"
    /\ UNCHANGED <<socket, open, mu, sent, main, upstream, reader,
                   refused, pinger, timer, late>>

(* idleFired                                                               *)
IdleClaims ==
    /\ idle = "fired" /\ Claim("idle")
    /\ report' = "lock"
    /\ idle' = "report"
    /\ UNCHANGED <<socket, open, mu, sent, cancelled, main, upstream, reader,
                   refused, pinger, timer, late>>

IdleLoses ==
    /\ idle = "fired" /\ ending
    /\ idle' = "none"
    /\ UNCHANGED <<socket, open, mu, sent, teardown, main, upstream, reader,
                   refused, pinger, timer, report, late>>

IdleEnds ==
    /\ idle = "report" /\ ReportReturns
    /\ idle' = "none"
    /\ UNCHANGED <<socket, open, mu, sent, main, upstream, reader, refused,
                   pinger, timer, report>>

(* reportAndEnd's goroutine: writeControl under the request's context.     *)
ReportLock ==
    /\ report = "lock" /\ mu = "free"
    /\ mu' = "report" /\ report' = "write"
    /\ UNCHANGED <<socket, open, sent, teardown, main, upstream, reader, refused,
                   pinger, timers, late>>

ReportWrites ==
    /\ report = "write"
    /\ \/ WriteSucceeds /\ sent' = Append(sent, claimer)
       \/ WriteFails(FALSE) /\ UNCHANGED sent
    /\ mu' = "free" /\ report' = "done"
    /\ UNCHANGED <<socket, open, teardown, main, upstream, reader, refused,
                   pinger, timers, late>>

-----------------------------------------------------------------------------
AllExited ==
    /\ main = "done" /\ reader = "exit" /\ pinger = "exit"
    /\ stdout \in {"idle", "dead"} /\ stream # "run"
    /\ idle = "none" /\ report \in {"none", "done"} /\ mu = "free"

Terminated == AllExited /\ UNCHANGED vars

MainStep ==
    \/ MainLock \/ ReadySent \/ ReadyFails \/ StreamDone \/ ClientGone
    \/ DrainTimeout \/ MainClaims \/ FinalSent \/ FinalFails \/ MainCloses
    \/ Defers
StdoutStep == StdoutLock \/ StdoutWrites \/ StdoutFails
ReaderStep ==
    \/ HandleFrame \/ RefuseStdin \/ OverflowClaims
    \/ OverflowLoses \/ OverflowEnds \/ ReadFails
PingStep == PingStops \/ PingEnds
IdleStep == IdleClaims \/ IdleLoses \/ IdleEnds
ReportStep == ReportLock \/ ReportWrites

Next ==
    \/ ClientStalls \/ ClientResumes \/ ClientLeaves
    \/ MainStep
    \/ StreamEnds \/ StreamCancelled \/ StdoutBegins \/ StdoutStep
    \/ ReadFrame \/ ReaderStep
    \/ PingFails \/ PingStep
    \/ IdleFires \/ IdleStep
    \/ ReportStep
    \/ Terminated

Spec == Init /\ [][Next]_vars

(* The scheduler runs what can run, timers that were started expire, and   *)
(* sync.Mutex hands the lock to a waiter that is starved of it.  Nothing   *)
(* is assumed of the browser, of the command (it need neither end, write   *)
(* nor read its input), of pings or of the idle deadline.                  *)
Fairness ==
    /\ WF_vars(MainStep) /\ SF_vars(MainLock)
    /\ WF_vars(StreamCancelled) /\ WF_vars(StdoutStep)
    /\ WF_vars(ReaderStep) /\ WF_vars(PingStep)
    /\ WF_vars(IdleStep) /\ WF_vars(ReportStep) /\ SF_vars(ReportLock)

FairSpec == Spec /\ Fairness

(* With the keepalive and the idle deadline: a browser that stays silent   *)
(* fails a ping sooner or later, and an armed timer fires.                 *)
LiveSpec == FairSpec /\ WF_vars(PingFails) /\ WF_vars(IdleFires)

-----------------------------------------------------------------------------
(* The browser is never told two things about how its session ended (an    *)
(* exit frame chased by an idle-timeout error, or the reverse).            *)
AtMostOneVerdict == Len(sent) <= 1

(* The reason goes out before the session is cancelled: a browser that     *)
(* reads has the frame by the time sessionCtx is done, unless the frame    *)
(* timeout passed or session() closed the socket under it.                 *)
ReasonBeforeCancel ==
    (/\ claimer \in {"idle", "overflow"} /\ healthy /\ cancelled /\ ~late
     /\ main \notin {"defers", "done"}) => Len(sent) = 1

(* A browser that reads is told the outcome of a command that ended on its *)
(* own: session() does not return before the frame is out.                 *)
OutcomeReported ==
    (main = "done" /\ claimer = "main" /\ healthy) => Len(sent) = 1

(* The session slot outlives the upstream stream, so the session limit     *)
(* bounds the exec streams open against the clusters.                      *)
SlotCoversStream == main = "done" => stream # "run"

(* A teardown that was begun is carried through: input the queue refused   *)
(* always ends its session, so the command cannot go on reading a stream   *)
(* with a hole in it; a session claimed by the idle deadline or by the     *)
(* overflow is cancelled even while a browser that reads nothing pins      *)
(* writeMu; and once session() has returned no goroutine of it is left.    *)
TeardownCompletes ==
    /\ refused ~> ending
    /\ (claimer \in {"idle", "overflow"}) ~> cancelled
    /\ (main = "done") ~> AllExited

(* The session slot comes back from a browser that left, whatever the      *)
(* command does, and, if pings go on, from one that reads nothing - as     *)
(* long as its stdin was never refused (see IdleEndsSession).              *)
ClientReclaimed ==
    /\ (client = "gone") ~> (main = "done")
    /\ WF_vars(PingFails) =>
          ((client = "stalled") ~> (main = "done" \/ client # "stalled" \/ refused))

(* "Idle timeout: no traffic in either direction ends the session"         *)
(* (session.go): once the deadline has fired on a running session whose   *)
(* browser reads nothing, the session ends.                                *)
IdleEndsSession ==
    (idle = "fired" /\ stream # "idle" /\ client = "stalled")
        ~> (main = "done" \/ client # "stalled")
=============================================================================
