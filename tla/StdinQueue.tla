------------------------------ MODULE StdinQueue ------------------------------
(***************************************************************************)
(* The stdin path of an exec session: readLoop stages binary frames in     *)
(* stdinQueue, stdinPump takes them out and writes them into the io.Pipe   *)
(* the executor reads.  readLoop must never block, so the queue is bounded *)
(* by bytes and refuses a frame instead; the pump blocks on the condition  *)
(* variable while the queue is empty and on the pipe until the executor    *)
(* has read.                                                               *)
(*                                                                         *)
(* The n-th binary frame of the session is the number n and Length[n] is   *)
(* its payload's size.                                                     *)
(***************************************************************************)
EXTENDS Integers, Sequences

CONSTANTS
    MaxFrames,                 \* frames the browser may send in a session
    Length,                    \* their sizes
    stdinFrameOverheadBytes,   \* charged per staged frame
    stdinBufferLimit           \* cap on what is staged

ASSUME StdinAssumption ==
    /\ MaxFrames \in Nat
    /\ Length \in [1..MaxFrames -> Nat]
    /\ stdinFrameOverheadBytes \in Nat \ {0}
    /\ stdinBufferLimit \in Nat

VARIABLES
    received,    \* number of binary frames conn.Read has returned
    refused,     \* the last of them did not fit
    reader,      \* readLoop: "read", "signal" (queue.close has unlocked), "exit"
    frames,      \* stdinQueue.frames
    staged,      \* stdinQueue.staged
    closed,      \* stdinQueue.closed
    pump,        \* stdinPump: "next", "wait" (in cond.Wait), "write", "exit"
    hand,        \* the frame the pump writes, 0 for none
    delivered,   \* frames the executor has read, in order
    eof,         \* the pump closed the write half: the executor sees EOF
    torn         \* session() closed the read half

stdinVars == <<received, refused, reader, frames, staged, closed, pump, hand,
               delivered, eof, torn>>

Charge(n) == Length[n] + stdinFrameOverheadBytes

Frame == 1..MaxFrames

StdinTypeOK ==
    /\ received \in 0..MaxFrames /\ refused \in BOOLEAN
    /\ reader \in {"read", "signal", "exit"}
    /\ frames \in Seq(Frame)
    /\ staged \in 0..stdinBufferLimit
    /\ closed \in BOOLEAN
    /\ pump \in {"next", "wait", "write", "exit"}
    /\ hand \in Frame \cup {0}
    /\ delivered \in Seq(Frame)
    /\ eof \in BOOLEAN /\ torn \in BOOLEAN

StdinInit ==
    /\ received = 0 /\ refused = FALSE
    /\ reader = "read"
    /\ frames = <<>> /\ staged = 0 /\ closed = FALSE
    /\ pump = "next" /\ hand = 0
    /\ delivered = <<>>
    /\ eof = FALSE /\ torn = FALSE

(* cond.Signal wakes the pump if it waits.                                 *)
Signalled == IF pump = "wait" THEN "next" ELSE pump

(* Variants named Slip... are what a plausible mistake in the same place   *)
(* would do; they are not part of the specification.                       *)

Fits(n) == staged + Charge(n) <= stdinBufferLimit

(* push                                                                    *)
Push ==
    /\ reader = "read" /\ received < MaxFrames
    /\ Fits(received + 1)
    /\ received' = received + 1
    /\ frames' = Append(frames, received + 1)
    /\ staged' = staged + Charge(received + 1)
    /\ pump' = Signalled
    /\ UNCHANGED <<refused, reader, closed, hand, delivered, eof, torn>>

SlipRefuseDropsFrame ==
    /\ reader = "read" /\ received < MaxFrames
    /\ ~Fits(received + 1)
    /\ received' = received + 1
    /\ UNCHANGED <<refused, reader, frames, staged, closed, pump, hand,
                   delivered, eof, torn>>

(* push returns false: overflow() ends the session and readLoop returns;   *)
(* its deferred queue.close marks the end of input under the lock ...      *)
Refuse ==
    /\ reader = "read" /\ received < MaxFrames
    /\ ~Fits(received + 1)
    /\ received' = received + 1
    /\ refused' = TRUE
    /\ closed' = TRUE
    /\ reader' = "signal"
    /\ UNCHANGED <<frames, staged, pump, hand, delivered, eof, torn>>

(* conn.Read fails: the browser left or the session was cancelled.         *)
ReadFails ==
    /\ reader = "read"
    /\ closed' = TRUE
    /\ reader' = "signal"
    /\ UNCHANGED <<received, refused, frames, staged, pump, hand, delivered,
                   eof, torn>>

SlipCloseNoSignal ==
    /\ reader = "signal"
    /\ reader' = "exit"
    /\ UNCHANGED <<received, refused, frames, staged, closed, pump, hand,
                   delivered, eof, torn>>

(* ... and signals after unlocking.                                        *)
CloseSignals ==
    /\ reader = "signal"
    /\ pump' = Signalled
    /\ reader' = "exit"
    /\ UNCHANGED <<received, refused, frames, staged, closed, hand, delivered,
                   eof, torn>>

SlipTakeForgetsOverhead ==
    /\ pump = "next" /\ frames # <<>>
    /\ hand' = Head(frames)
    /\ frames' = Tail(frames)
    /\ staged' = staged - Length[Head(frames)]
    /\ pump' = "write"
    /\ UNCHANGED <<received, refused, reader, closed, delivered, eof, torn>>

(* next: a frame is there ...                                              *)
Take ==
    /\ pump = "next" /\ frames # <<>>
    /\ hand' = Head(frames)
    /\ frames' = Tail(frames)
    /\ staged' = staged - Charge(Head(frames))
    /\ pump' = "write"
    /\ UNCHANGED <<received, refused, reader, closed, delivered, eof, torn>>

(* ... or nothing yet ...                                                  *)
Wait ==
    /\ pump = "next" /\ frames = <<>> /\ ~closed
    /\ pump' = "wait"
    /\ UNCHANGED <<received, refused, reader, frames, staged, closed, hand,
                   delivered, eof, torn>>

SlipDrainedEarly ==
    /\ pump = "next" /\ closed
    /\ pump' = "exit" /\ eof' = TRUE
    /\ UNCHANGED <<received, refused, reader, frames, staged, closed, hand,
                   delivered, torn>>

(* ... or nothing any more: the pump closes the pipe.                      *)
Drained ==
    /\ pump = "next" /\ frames = <<>> /\ closed
    /\ pump' = "exit" /\ eof' = TRUE
    /\ UNCHANGED <<received, refused, reader, frames, staged, closed, hand,
                   delivered, torn>>

(* The executor reads what the pump is writing.                            *)
ExecutorReads ==
    /\ pump = "write" /\ ~torn
    /\ delivered' = Append(delivered, hand)
    /\ hand' = 0
    /\ pump' = "next"
    /\ UNCHANGED <<received, refused, reader, frames, staged, closed, eof, torn>>

(* stdin.Write fails with ErrClosedPipe.                                   *)
WriteFails ==
    /\ pump = "write" /\ torn
    /\ pump' = "exit" /\ eof' = TRUE
    /\ UNCHANGED <<received, refused, reader, frames, staged, closed, hand,
                   delivered, torn>>

(* defer stdinReader.Close() at the end of session().                      *)
Teardown ==
    /\ ~torn
    /\ torn' = TRUE
    /\ UNCHANGED <<received, refused, reader, frames, staged, closed, pump,
                   hand, delivered, eof>>

Terminated ==
    /\ reader = "exit" /\ pump = "exit" /\ torn
    /\ UNCHANGED stdinVars

PumpStep == Take \/ Wait \/ Drained \/ WriteFails

StdinNext ==
    \/ Push \/ Refuse \/ ReadFails \/ CloseSignals
    \/ PumpStep \/ ExecutorReads
    \/ Teardown
    \/ Terminated

StdinSpec == StdinInit /\ [][StdinNext]_stdinVars

(* The pump and the deferred signal run when they can; a torn-down session *)
(* has closed its socket, so the read fails.  The executor need not read.  *)
StdinFairness ==
    WF_stdinVars(PumpStep) /\ WF_stdinVars(CloseSignals) /\ WF_stdinVars(torn /\ ReadFails)

-----------------------------------------------------------------------------
InHand == IF pump = "write" THEN <<hand>> ELSE <<>>
Accepted == IF refused THEN received - 1 ELSE received

(* What the executor has read, what the pump holds and what is staged are  *)
(* together exactly the frames that arrived, in order and without a gap:   *)
(* only the frame whose refusal ended the session is missing (and what     *)
(* the pump held when the session was torn down under it).                 *)
StdinIntact ==
    /\ \A i \in 1..Len(delivered) : delivered[i] = i
    /\ pump # "exit" =>
         delivered \o InHand \o frames = [i \in 1..Accepted |-> i]

(* The account is exact: staged is what the frames in the queue are        *)
(* charged, so a drained queue is charged nothing and the cap is the cap.  *)
StagedExact ==
    LET Sum[i \in 0..Len(frames)] ==
            IF i = 0 THEN 0 ELSE Sum[i - 1] + Charge(frames[i])
    IN  staged = Sum[Len(frames)] /\ staged <= stdinBufferLimit

(* Input typed just before the browser left still reaches the command: EOF *)
(* comes after the last accepted frame, unless the session was torn down.  *)
EOFAfterInput == (eof /\ ~torn) => Len(delivered) = Accepted

(* The pump does not outlive the session it belongs to, wherever it was    *)
(* blocked (no wake-up is lost between close and signal).                  *)
PumpEnds == torn ~> (pump = "exit")
=============================================================================
