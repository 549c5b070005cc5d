-------------------------- MODULE ExecSessionProofs --------------------------
(***************************************************************************)
(* Proofs about ExecSession: what the browser is told, in which order, and *)
(* what the session slot covers.                                           *)
(*                                                                         *)
(* None of the four properties is inductive alone.  SessionInv adds what   *)
(* the code relies on without saying it: who may hold writeMu, which phase *)
(* the winner of the flag ending is in, and that for a browser which has   *)
(* read all along nothing but the claimed teardown closes the socket or    *)
(* cancels sessionCtx.                                                     *)
(***************************************************************************)
EXTENDS ExecSession, TLAPS

(* writeMu is held exactly by the goroutine that is in its write.          *)
MutexInv ==
    /\ mu = "main" <=> main \in {"readyWrite", "finalWrite"}
    /\ mu = "stdout" <=> stdout = "write"
    /\ mu = "report" <=> report = "write"

(* Who won the compare-and-swap, and how far each claimant has come.       *)
ClaimInv ==
    /\ ending <=> claimer # "nobody"
    /\ report = "none" <=> claimer \notin {"idle", "overflow"}
    /\ reader = "report" => claimer = "overflow"
    /\ idle = "report" => claimer = "idle"
    /\ main \in {"final", "finalWrite"} => claimer = "main"
    /\ claimer = "main" => main \in {"final", "finalWrite", "close", "defers", "done"}
    /\ main = "close" => ending

(* A verdict is out only after its writer has finished.                    *)
SentInv ==
    /\ Len(sent) <= 1
    /\ claimer \in {"nobody", "ping"} => Len(sent) = 0
    /\ main \in {"final", "finalWrite"} => Len(sent) = 0
    /\ report \in {"lock", "write"} => Len(sent) = 0

(* The stream runs only while session() is inside awaitStream.             *)
StreamInv == stream = "run" => main \in {"await", "drain", "waitDone"}

(* The browser has read all along and neither the idle deadline nor the    *)
(* overflow nor a failed ping has claimed the session: until session()     *)
(* closes the socket itself nothing has touched it or sessionCtx, and the  *)
(* exit frame, once its turn has come, is out.                             *)
UndisturbedInv ==
    (healthy /\ claimer \in {"nobody", "main"}) =>
        /\ client = "reading"
        /\ main \notin {"defers", "done"} => open /\ ~cancelled /\ pinger # "end"
        /\ claimer = "nobody" =>
              main \in {"ready", "readyWrite", "await", "claim"} /\ reader # "exit"
        /\ (claimer = "main" /\ main \in {"close", "defers", "done"}) => Len(sent) = 1

(* The same while the claimant's reason is being written: it is out before *)
(* anything is cancelled, unless it is late or session() has closed.       *)
ReasonInv ==
    (/\ healthy /\ claimer \in {"idle", "overflow"} /\ ~late
     /\ main \notin {"defers", "done"}) =>
        /\ client = "reading"
        /\ report = "done" => Len(sent) = 1
        /\ report # "done" => open /\ ~cancelled /\ pinger # "end"

SessionInv ==
    /\ TypeOK
    /\ MutexInv
    /\ ClaimInv
    /\ SentInv
    /\ StreamInv
    /\ UndisturbedInv
    /\ ReasonInv

(* A frame more is still a sequence of frames.                             *)
LEMMA AppendVerdict ==
    ASSUME NEW s \in Seq(Verdict), NEW v \in Verdict
    PROVE  Append(s, v) \in Seq(Verdict)
  OBVIOUS

(* A session that has just been promoted satisfies the invariant.          *)
LEMMA SessionInit == Init => SessionInv
  <1> SUFFICES ASSUME Init PROVE SessionInv
    OBVIOUS
  <1>1. TypeOK
    <2>1. /\ healthy \in BOOLEAN /\ open \in BOOLEAN /\ ending \in BOOLEAN /\ cancelled \in BOOLEAN
          /\ refused \in BOOLEAN /\ late \in BOOLEAN
      BY Zenon DEF Init
    <2>2. sent \in Seq(Verdict)
      BY DEF Init
    <2>3. QED
      BY <2>1, <2>2 DEF Init, TypeOK, Mains
  <1>2. MutexInv /\ ClaimInv /\ SentInv /\ StreamInv
    BY DEF Init, MutexInv, ClaimInv, SentInv, StreamInv
  <1>3. UndisturbedInv /\ ReasonInv
    BY DEF Init, UndisturbedInv, ReasonInv
  <1>4. QED
    BY <1>1, <1>2, <1>3 DEF SessionInv

(* No step of any goroutine breaks it.                                     *)
LEMMA SessionStep ==
    ASSUME SessionInv, [Next]_vars
    PROVE  SessionInv'
  <1> USE DEF SessionInv, TypeOK, MutexInv, ClaimInv, SentInv, StreamInv, UndisturbedInv, ReasonInv,
              Mains, Verdict, socket, teardown, upstream, timers
  <1>1. CASE ClientStalls
    <2>1. TypeOK'
      <3>1. healthy' \in BOOLEAN
        BY <1>1, Zenon DEF ClientStalls
      <3>2. QED
        BY <1>1, <3>1 DEF ClientStalls
    <2>2. MutexInv' /\ ClaimInv'
      BY <1>1 DEF ClientStalls
    <2>3. SentInv' /\ StreamInv'
      BY <1>1 DEF ClientStalls
    <2>4. UndisturbedInv'
      BY <1>1 DEF ClientStalls
    <2>5. ReasonInv'
      BY <1>1 DEF ClientStalls
    <2>6. QED
      BY <2>1, <2>2, <2>3, <2>4, <2>5
  <1>2. CASE ClientResumes
    BY <1>2 DEF ClientResumes
  <1>3. CASE ClientLeaves
    <2>1. TypeOK'
      <3>1. healthy' \in BOOLEAN
        BY <1>3, Zenon DEF ClientLeaves
      <3>2. QED
        BY <1>3, <3>1 DEF ClientLeaves
    <2>2. MutexInv' /\ ClaimInv'
      BY <1>3 DEF ClientLeaves
    <2>3. SentInv' /\ StreamInv'
      BY <1>3 DEF ClientLeaves
    <2>4. UndisturbedInv'
      BY <1>3 DEF ClientLeaves
    <2>5. ReasonInv'
      BY <1>3 DEF ClientLeaves
    <2>6. QED
      BY <2>1, <2>2, <2>3, <2>4, <2>5
  <1>4. CASE MainLock
    BY <1>4 DEF MainLock
  <1>5. CASE ReadySent
    BY <1>5 DEF ReadySent, WriteSucceeds
  <1>6. CASE ReadyFails
    <2>1. TypeOK'
      <3>1. open' \in BOOLEAN
        BY <1>6, Zenon DEF ReadyFails, WriteFails
      <3>2. QED
        BY <1>6, <3>1 DEF ReadyFails, WriteFails
    <2>2. MutexInv' /\ ClaimInv'
      BY <1>6 DEF ReadyFails, WriteFails
    <2>3. SentInv' /\ StreamInv'
      BY <1>6 DEF ReadyFails, WriteFails
    <2>4. UndisturbedInv'
      BY <1>6 DEF ReadyFails, WriteFails
    <2>5. ReasonInv'
      BY <1>6 DEF ReadyFails, WriteFails
    <2>6. QED
      BY <2>1, <2>2, <2>3, <2>4, <2>5
  <1>7. CASE StreamDone
    BY <1>7 DEF StreamDone
  <1>8. CASE ClientGone
    BY <1>8 DEF ClientGone
  <1>9. CASE DrainTimeout
    BY <1>9 DEF DrainTimeout
  <1>10. CASE MainClaims
    <2>1. TypeOK'
      <3>1. ending' \in BOOLEAN
        BY <1>10, Zenon DEF MainClaims, Claim
      <3>2. QED
        BY <1>10, <3>1 DEF MainClaims, Claim
    <2>2. MutexInv' /\ ClaimInv'
      BY <1>10 DEF MainClaims, Claim
    <2>3. SentInv' /\ StreamInv'
      BY <1>10 DEF MainClaims, Claim
    <2>4. UndisturbedInv'
      BY <1>10 DEF MainClaims, Claim
    <2>5. ReasonInv'
      BY <1>10 DEF MainClaims, Claim
    <2>6. QED
      BY <2>1, <2>2, <2>3, <2>4, <2>5
  <1>11. CASE FinalSent
    BY <1>11 DEF FinalSent, WriteSucceeds
  <1>12. CASE FinalFails
    BY <1>12 DEF FinalFails, WriteFails
  <1>13. CASE MainCloses
    <2>1. TypeOK'
      <3>1. open' \in BOOLEAN
        BY <1>13, Zenon DEF MainCloses
      <3>2. QED
        BY <1>13, <3>1 DEF MainCloses
    <2>2. MutexInv' /\ ClaimInv'
      BY <1>13 DEF MainCloses
    <2>3. SentInv' /\ StreamInv'
      BY <1>13 DEF MainCloses
    <2>4. UndisturbedInv'
      BY <1>13 DEF MainCloses
    <2>5. ReasonInv'
      BY <1>13 DEF MainCloses
    <2>6. QED
      BY <2>1, <2>2, <2>3, <2>4, <2>5
  <1>14. CASE Defers
    BY <1>14 DEF Defers
  <1>15. CASE StreamEnds
    BY <1>15 DEF StreamEnds
  <1>16. CASE StreamCancelled
    BY <1>16 DEF StreamCancelled
  <1>17. CASE StdoutBegins
    BY <1>17 DEF StdoutBegins
  <1>18. CASE StdoutLock
    BY <1>18 DEF StdoutLock
  <1>19. CASE StdoutWrites
    BY <1>19 DEF StdoutWrites, WriteSucceeds
  <1>20. CASE StdoutFails
    BY <1>20 DEF StdoutFails, WriteFails
  <1>21. CASE ReadFrame
    BY <1>21 DEF ReadFrame
  <1>22. CASE HandleFrame
    BY <1>22 DEF HandleFrame
  <1>23. CASE RefuseStdin
    BY <1>23 DEF RefuseStdin
  <1>24. CASE OverflowClaims
    BY <1>24 DEF OverflowClaims, Claim
  <1>25. CASE OverflowLoses
    BY <1>25 DEF OverflowLoses
  <1>26. CASE OverflowEnds
    BY <1>26 DEF OverflowEnds, ReportReturns, End
  <1>27. CASE ReadFails
    BY <1>27 DEF ReadFails
  <1>28. CASE PingStops
    BY <1>28 DEF PingStops
  <1>29. CASE PingFails
    BY <1>29 DEF PingFails
  <1>30. CASE PingEnds
    BY <1>30 DEF PingEnds, End
  <1>31. CASE IdleFires
    BY <1>31 DEF IdleFires
  <1>32. CASE IdleClaims
    BY <1>32 DEF IdleClaims, Claim
  <1>33. CASE IdleLoses
    BY <1>33 DEF IdleLoses
  <1>34. CASE IdleEnds
    BY <1>34 DEF IdleEnds, ReportReturns, End
  <1>35. CASE ReportLock
    BY <1>35 DEF ReportLock
  <1>36. CASE ReportWrites
    <2>1. TypeOK'
      <3>1. claimer \in Verdict
        BY <1>36 DEF ReportWrites
      <3>2. sent' \in Seq(Verdict)
        BY <1>36, <3>1, AppendVerdict, Zenon DEF ReportWrites
      <3>3. QED
        BY <1>36, <3>2 DEF ReportWrites
    <2>2. MutexInv' /\ ClaimInv'
      BY <1>36 DEF ReportWrites, WriteSucceeds, WriteFails
    <2>3. SentInv' /\ StreamInv'
      BY <1>36 DEF ReportWrites, WriteSucceeds, WriteFails
    <2>4. UndisturbedInv'
      BY <1>36 DEF ReportWrites, WriteSucceeds, WriteFails
    <2>5. ReasonInv'
      BY <1>36 DEF ReportWrites, WriteSucceeds, WriteFails
    <2>6. QED
      BY <2>1, <2>2, <2>3, <2>4, <2>5
  <1>37. CASE UNCHANGED vars
    BY <1>37 DEF vars
  <1>38. QED
    BY <1>1, <1>2, <1>3, <1>4, <1>5, <1>6, <1>7, <1>8, <1>9, <1>10, <1>11, <1>12, <1>13, <1>14, <1>15, <1>16, <1>17, <1>18, <1>19, <1>20, <1>21, <1>22, <1>23, <1>24, <1>25, <1>26, <1>27, <1>28, <1>29, <1>30, <1>31, <1>32, <1>33, <1>34, <1>35, <1>36, <1>37
       DEF Next, MainStep, StdoutStep, ReaderStep, PingStep, IdleStep, ReportStep, Terminated

(* It holds throughout.                                                    *)
LEMMA SessionInvariant == Spec => []SessionInv
  BY SessionInit, SessionStep, PTL DEF Spec

(* Every reachable state has the declared types.                           *)
THEOREM SessionTypeCorrect == Spec => []TypeOK
  <1>1. SessionInv => TypeOK
    BY DEF SessionInv
  <1>2. QED
    BY <1>1, SessionInvariant, PTL

(* Whatever races for the end of the session - the command's exit, the     *)
(* idle deadline, the overflow, a failed ping, a browser that leaves or    *)
(* stalls - the browser is sent at most one frame that says how it ended.  *)
THEOREM OneVerdict == Spec => []AtMostOneVerdict
  <1>1. SessionInv => AtMostOneVerdict
    BY DEF SessionInv, SentInv, AtMostOneVerdict
  <1>2. QED
    BY <1>1, SessionInvariant, PTL

(* reportAndEnd keeps its order: while the browser reads, its reason is on *)
(* the wire before sessionCtx is done.                                     *)
THEOREM ReasonPrecedesCancel == Spec => []ReasonBeforeCancel
  <1>1. SessionInv => ReasonBeforeCancel
    BY DEF SessionInv, ReasonInv, ReasonBeforeCancel
  <1>2. QED
    BY <1>1, SessionInvariant, PTL

(* A session that session() itself claimed returns to a browser that reads *)
(* only after the exit or error frame is out.                              *)
THEOREM OutcomeIsReported == Spec => []OutcomeReported
  <1>1. SessionInv => OutcomeReported
    BY DEF SessionInv, UndisturbedInv, OutcomeReported
  <1>2. QED
    BY <1>1, SessionInvariant, PTL

(* The session slot is given back only after the upstream stream is over.  *)
THEOREM SlotOutlivesStream == Spec => []SlotCoversStream
  <1>1. SessionInv => SlotCoversStream
    BY DEF SessionInv, StreamInv, SlotCoversStream
  <1>2. QED
    BY <1>1, SessionInvariant, PTL
=============================================================================
