--------------------------- MODULE StdinQueueProofs ---------------------------
(***************************************************************************)
(* Proofs about StdinQueue, for any number of frames, any sizes (empty     *)
(* frames included), any overhead and any cap: no input is lost, repeated  *)
(* or reordered on its way to the command, end of input comes after it,    *)
(* and the byte account of the queue is exact.                             *)
(***************************************************************************)
EXTENDS StdinQueue, WellFoundedInduction, TLAPS

(* Induction over the naturals, as a fact about sets: a set that contains  *)
(* 0 and the successor of each of its numbers contains every number.       *)
LEMMA NatSetInduction ==
    ASSUME NEW S, 0 \in S, \A n \in Nat : n \in S => n + 1 \in S
    PROVE  Nat \subseteq S
  <1> DEFINE R == OpToRel(<, Nat)
             T == Nat \ S
  <1>1. \A x, y \in Nat : y < x => <<y, x>> \in R
    BY DEF OpToRel
  <1>2. ASSUME T # {} PROVE FALSE
    <2>1. IsWellFoundedOn(R, Nat) /\ T \subseteq Nat
      BY NatLessThanWellFounded, Zenon
    <2> HIDE DEF R
    <2>2. PICK x \in T : \A y \in T : ~(<<y, x>> \in R)
      BY <1>2, <2>1, WFMin, Zenon
    <2>3. x # 0 /\ x \in Nat
      OBVIOUS
    <2>4. x - 1 \in Nat /\ x - 1 < x
      BY <2>3
    <2>5. x - 1 \in S
      BY <1>1, <2>2, <2>3, <2>4
    <2>6. x - 1 + 1 \in S
      BY <2>4, <2>5
    <2>7. QED
      BY <2>3, <2>6
  <1>3. QED
    BY <1>2

(* Two runs of consecutive numbers, one after the other, are one run.      *)
LEMMA ConcatRun ==
    ASSUME NEW s \in Seq(Nat), NEW t \in Seq(Nat),
           \A i \in 1..Len(s) : s[i] = i,
           \A i \in 1..Len(t) : t[i] = Len(s) + i
    PROVE  /\ s \o t \in Seq(Nat) /\ Len(s \o t) = Len(s) + Len(t)
           /\ \A i \in 1..(Len(s) + Len(t)) : (s \o t)[i] = i
  <1>1. /\ s \o t \in Seq(Nat) /\ Len(s \o t) = Len(s) + Len(t)
        /\ Len(s) \in Nat /\ Len(t) \in Nat
    OBVIOUS
  <1>2. ASSUME NEW i \in 1..(Len(s) + Len(t)) PROVE (s \o t)[i] = i
    <2>1. CASE i <= Len(s)
      BY <1>1, <2>1
    <2>2. CASE i > Len(s)
      <3>1. (s \o t)[i] = t[i - Len(s)]
        BY <1>1, <2>2
      <3>2. i - Len(s) \in 1..Len(t)
        BY <1>1, <2>2
      <3>3. t[i - Len(s)] = Len(s) + (i - Len(s))
        BY <3>2
      <3>4. QED
        BY <1>1, <3>1, <3>3
    <2>3. QED
      BY <1>1, <2>1, <2>2
  <1>3. QED
    BY <1>1, <1>2

-----------------------------------------------------------------------------
(* The account: what a queue holding the sequence s is charged.            *)

IsCharge(f, s) ==
    f = [i \in 0..Len(s) |-> IF i = 0 THEN 0 ELSE f[i - 1] + Charge(s[i])]

QueueCharge(s) ==
    LET Sum[i \in 0..Len(s)] ==
            IF i = 0 THEN 0 ELSE Sum[i - 1] + Charge(s[i])
    IN  Sum[Len(s)]

(* A frame is charged something.                                           *)
LEMMA ChargeType == \A n \in Frame : Charge(n) \in Nat /\ Charge(n) > 0
  BY StdinAssumption DEF Charge, Frame

(* There is a running total of any queue.                                  *)
LEMMA ChargeExists ==
    ASSUME NEW s \in Seq(Frame)
    PROVE  \E f \in [0..Len(s) -> Nat] : IsCharge(f, s)
  <1> DEFINE S == {n \in Nat : \A t \in Seq(Frame) :
                      Len(t) = n => \E f \in [0..n -> Nat] : IsCharge(f, t)}
  <1>1. 0 \in S
    <2> SUFFICES ASSUME NEW t \in Seq(Frame), Len(t) = 0
                 PROVE  \E f \in [0..0 -> Nat] : IsCharge(f, t)
      OBVIOUS
    <2>1. [i \in 0..0 |-> 0] \in [0..0 -> Nat] /\ IsCharge([i \in 0..0 |-> 0], t)
      BY DEF IsCharge
    <2>2. QED
      BY <2>1
  <1>2. ASSUME NEW n \in Nat, n \in S PROVE n + 1 \in S
    <2> SUFFICES ASSUME NEW t \in Seq(Frame), Len(t) = n + 1
                 PROVE  \E f \in [0..(n + 1) -> Nat] : IsCharge(f, t)
      OBVIOUS
    <2> DEFINE u == [i \in 1..n |-> t[i]]
    <2>1. u \in Seq(Frame) /\ Len(u) = n
      OBVIOUS
    <2>2. PICK f \in [0..n -> Nat] : IsCharge(f, u)
      BY <1>2, <2>1
    <2> DEFINE g == [i \in 0..(n + 1) |-> IF i = n + 1 THEN f[n] + Charge(t[n + 1]) ELSE f[i]]
    <2>3. t[n + 1] \in Frame
      OBVIOUS
    <2>4. g \in [0..(n + 1) -> Nat]
      BY <2>3, ChargeType
    <2>5. \A i \in 0..n : f[i] = IF i = 0 THEN 0 ELSE f[i - 1] + Charge(t[i])
      <3>1. \A i \in 0..n : f[i] = IF i = 0 THEN 0 ELSE f[i - 1] + Charge(u[i])
        <4> HIDE DEF u
        <4> QED
          BY <2>1, <2>2 DEF IsCharge
      <3>2. \A i \in 1..n : u[i] = t[i]
        OBVIOUS
      <3> HIDE DEF u
      <3>3. QED
        BY <3>1, <3>2
    <2>6. \A i \in 0..(n + 1) : g[i] = IF i = 0 THEN 0 ELSE g[i - 1] + Charge(t[i])
      BY <2>5
    <2>7. IsCharge(g, t)
      BY <2>6 DEF IsCharge
    <2>8. QED
      BY <2>4, <2>7
  <1>3. Nat \subseteq S
    <2> HIDE DEF S
    <2> QED
      BY <1>1, <1>2, NatSetInduction
  <1>4. QED
    BY <1>3

(* And only one.                                                           *)
LEMMA ChargeUnique ==
    ASSUME NEW s \in Seq(Frame), NEW f, IsCharge(f, s), NEW g, IsCharge(g, s)
    PROVE  f = g
  <1> DEFINE S == {n \in Nat : n <= Len(s) => f[n] = g[n]}
  <1>1. /\ \A i \in 0..Len(s) : f[i] = IF i = 0 THEN 0 ELSE f[i - 1] + Charge(s[i])
        /\ \A i \in 0..Len(s) : g[i] = IF i = 0 THEN 0 ELSE g[i - 1] + Charge(s[i])
    BY DEF IsCharge
  <1>2. 0 \in S
    BY <1>1
  <1>3. ASSUME NEW n \in Nat, n \in S PROVE n + 1 \in S
    <2> SUFFICES ASSUME n + 1 <= Len(s) PROVE f[n + 1] = g[n + 1]
      OBVIOUS
    <2>1. f[n] = g[n] /\ n + 1 \in 0..Len(s) /\ n + 1 # 0 /\ n + 1 - 1 = n
      BY <1>3
    <2>2. QED
      BY <1>1, <2>1
  <1>4. Nat \subseteq S
    <2> HIDE DEF S
    <2> QED
      BY <1>2, <1>3, NatSetInduction
  <1>5. \A i \in 0..Len(s) : f[i] = g[i]
    BY <1>4
  <1>6. QED
    BY <1>5 DEF IsCharge

(* The charge of a queue is the last entry of any running total of it.     *)
LEMMA ChargeIs ==
    ASSUME NEW s \in Seq(Frame), NEW f, IsCharge(f, s)
    PROVE  QueueCharge(s) = f[Len(s)]
  <1> DEFINE c == CHOOSE h : IsCharge(h, s)
  <1>1. IsCharge(c, s)
    BY Zenon
  <1>2. QueueCharge(s) = c[Len(s)]
    BY Zenon DEF QueueCharge, IsCharge
  <1>3. QED
    BY <1>1, <1>2, ChargeUnique, Zenon

(* Nothing is charged for an empty queue.                                  *)
LEMMA ChargeEmpty == QueueCharge(<<>>) = 0
  <1>1. PICK f \in [0..0 -> Nat] : IsCharge(f, <<>>)
    <2>1. <<>> \in Seq(Frame) /\ Len(<<>>) = 0
      OBVIOUS
    <2>2. QED
      BY <2>1, ChargeExists
  <1>2. f[0] = 0
    BY <1>1 DEF IsCharge
  <1>3. QED
    BY <1>1, <1>2, ChargeIs

(* A charge is a number.                                                   *)
LEMMA ChargeNat ==
    ASSUME NEW s \in Seq(Frame)
    PROVE  QueueCharge(s) \in Nat
  <1>1. PICK f \in [0..Len(s) -> Nat] : IsCharge(f, s)
    BY ChargeExists
  <1>2. QED
    BY <1>1, ChargeIs

(* push adds the charge of the frame it appends ...                        *)
LEMMA ChargeAppend ==
    ASSUME NEW s \in Seq(Frame), NEW n \in Frame
    PROVE  QueueCharge(Append(s, n)) = QueueCharge(s) + Charge(n)
  <1>1. PICK f \in [0..Len(s) -> Nat] : IsCharge(f, s)
    BY ChargeExists
  <1> DEFINE t == Append(s, n)
             L == Len(s)
             g == [i \in 0..(L + 1) |-> IF i = L + 1 THEN f[L] + Charge(n) ELSE f[i]]
  <1>2. /\ t \in Seq(Frame) /\ Len(t) = L + 1 /\ t[L + 1] = n
        /\ \A i \in 1..L : t[i] = s[i]
    OBVIOUS
  <1>3. \A i \in 0..L : f[i] = IF i = 0 THEN 0 ELSE f[i - 1] + Charge(s[i])
    BY <1>1 DEF IsCharge
  <1>4. \A i \in 0..(L + 1) : g[i] = IF i = 0 THEN 0 ELSE g[i - 1] + Charge(t[i])
    BY <1>2, <1>3
  <1>5. IsCharge(g, t)
    BY <1>2, <1>4 DEF IsCharge
  <1>6. QueueCharge(s) = f[L] /\ QueueCharge(t) = g[L + 1]
    BY <1>1, <1>2, <1>5, ChargeIs
  <1>7. QED
    BY <1>6

(* ... and next takes off the charge of the frame it removes.              *)
LEMMA ChargeTail ==
    ASSUME NEW s \in Seq(Frame), s # <<>>
    PROVE  QueueCharge(Tail(s)) = QueueCharge(s) - Charge(Head(s))
  <1>1. PICK f \in [0..Len(s) -> Nat] : IsCharge(f, s)
    BY ChargeExists
  <1> DEFINE t == Tail(s)
             L == Len(s)
             g == [i \in 0..(L - 1) |-> f[i + 1] - f[1]]
  <1>2. /\ L \in Nat /\ L >= 1
        /\ t \in Seq(Frame) /\ Len(t) = L - 1 /\ Head(s) = s[1] /\ s[1] \in Frame
        /\ \A i \in 1..(L - 1) : t[i] = s[i + 1] /\ s[i + 1] \in Frame
    OBVIOUS
  <1>3. \A i \in 0..L : f[i] = IF i = 0 THEN 0 ELSE f[i - 1] + Charge(s[i])
    BY <1>1 DEF IsCharge
  <1>4. \A i \in 0..(L - 1) : g[i] = IF i = 0 THEN 0 ELSE g[i - 1] + Charge(t[i])
    <2> SUFFICES ASSUME NEW i \in 0..(L - 1)
                 PROVE  g[i] = IF i = 0 THEN 0 ELSE g[i - 1] + Charge(t[i])
      OBVIOUS
    <2>1. CASE i = 0
      BY <1>1, <1>2, <2>1
    <2>2. CASE i # 0
      <3>1. f[i + 1] = f[i] + Charge(s[i + 1])
        BY <1>2, <1>3, <2>2
      <3>2. g[i] = f[i + 1] - f[1] /\ g[i - 1] = f[i] - f[1] /\ t[i] = s[i + 1]
        BY <1>2, <2>2
      <3>3. f[i] \in Nat /\ f[1] \in Nat /\ Charge(s[i + 1]) \in Nat
        BY <1>1, <1>2, <2>2, ChargeType
      <3>4. QED
        BY <2>2, <3>1, <3>2, <3>3
    <2>3. QED
      BY <2>1, <2>2
  <1>5. IsCharge(g, t)
    BY <1>2, <1>4 DEF IsCharge
  <1>6. QueueCharge(s) = f[L] /\ QueueCharge(t) = g[L - 1]
    BY <1>1, <1>2, <1>5, ChargeIs
  <1>7. f[1] = Charge(s[1]) /\ f[L] \in Nat
    <2>1. f[1] = f[0] + Charge(s[1]) /\ f[0] = 0
      BY <1>2, <1>3
    <2>2. QED
      BY <1>1, <1>2, <2>1, ChargeType
  <1>8. QED
    BY <1>2, <1>6, <1>7

-----------------------------------------------------------------------------
(* The inductive invariant.                                                *)

(* End of input is marked exactly when readLoop has left its loop, and the *)
(* pump closes the pipe exactly when it returns.                           *)
EndInv ==
    /\ closed <=> reader # "read"
    /\ refused => closed /\ received > 0
    /\ eof <=> pump = "exit"

(* Frames are numbered consecutively from the first one delivered, through *)
(* the one in the pump's hands, to the last one staged.                    *)
OrderInv ==
    LET D == Len(delivered)
        H == IF pump = "write" THEN 1 ELSE 0
    IN  /\ \A i \in 1..D : delivered[i] = i
        /\ pump = "write" => hand = D + 1
        /\ pump # "exit" => /\ \A i \in 1..Len(frames) : frames[i] = D + H + i
                            /\ D + H + Len(frames) = Accepted
        /\ (pump = "exit" /\ ~torn) => closed /\ D = Accepted

ChargeInv == staged = QueueCharge(frames)

StdinInv ==
    /\ StdinTypeOK
    /\ EndInv
    /\ OrderInv
    /\ ChargeInv

(* An empty queue satisfies the invariant.                                 *)
LEMMA StdinInitially == StdinInit => StdinInv
  <1> SUFFICES ASSUME StdinInit PROVE StdinInv
    OBVIOUS
  <1>1. StdinTypeOK
    <2>1. refused \in BOOLEAN /\ closed \in BOOLEAN /\ eof \in BOOLEAN /\ torn \in BOOLEAN
      BY Zenon DEF StdinInit
    <2>2. QED
      BY <2>1, StdinAssumption DEF StdinInit, StdinTypeOK
  <1>2. EndInv
    BY DEF StdinInit, EndInv
  <1>3. OrderInv
    BY DEF StdinInit, OrderInv, Accepted
  <1>4. ChargeInv
    BY ChargeEmpty DEF StdinInit, ChargeInv
  <1>5. QED
    BY <1>1, <1>2, <1>3, <1>4 DEF StdinInv

(* Pushing a frame.                                                        *)
LEMMA PushStep ==
    ASSUME StdinInv, Push
    PROVE  StdinInv'
  <1> USE DEF StdinInv
  <1>1. /\ received + 1 \in Frame /\ received' = received + 1
        /\ frames' = Append(frames, received + 1) /\ frames \in Seq(Frame)
        /\ ~closed /\ ~refused
    BY StdinAssumption DEF Push, StdinTypeOK, EndInv, Frame
  <1>2. ChargeInv'
    BY <1>1, ChargeAppend DEF ChargeInv, Push
  <1>3. staged' \in 0..stdinBufferLimit
    BY <1>1, ChargeType, StdinAssumption DEF Push, Fits, StdinTypeOK
  <1>4. frames' \in Seq(Frame)
    BY <1>1
  <1>5. StdinTypeOK'
    BY <1>1, <1>3, <1>4, StdinAssumption DEF Push, StdinTypeOK, Signalled, Frame
  <1>6. EndInv'
    BY <1>1 DEF Push, EndInv, Signalled, StdinTypeOK
  <1>7. OrderInv'
    <2>1. Len(frames') = Len(frames) + 1 /\ frames'[Len(frames) + 1] = received + 1
          /\ \A i \in 1..Len(frames) : frames'[i] = frames[i]
      BY <1>1
    <2>2. pump' = "write" <=> pump = "write"
      BY DEF Push, Signalled
    <2>3. pump' = "exit" <=> pump = "exit"
      BY DEF Push, Signalled
    <2>4. Accepted' = Accepted + 1 /\ Accepted = received
      BY <1>1 DEF Push, Accepted, StdinTypeOK
    <2>5. Len(frames) \in Nat /\ Len(delivered) \in Nat /\ received \in Nat
      BY <1>1 DEF StdinTypeOK
    <2>6. UNCHANGED <<delivered, hand, torn, closed>>
      BY DEF Push
    <2>7. ASSUME pump # "exit", NEW H \in {0, 1}, H = IF pump = "write" THEN 1 ELSE 0
          PROVE  /\ \A i \in 1..Len(frames') : frames'[i] = Len(delivered) + H + i
                 /\ Len(delivered) + H + Len(frames') = Accepted'
      <3>1. /\ \A i \in 1..Len(frames) : frames[i] = Len(delivered) + H + i
            /\ Len(delivered) + H + Len(frames) = Accepted
        BY <2>7 DEF OrderInv
      <3>2. QED
        BY <2>1, <2>4, <2>5, <3>1
    <2>8. ~(pump = "exit" /\ ~torn)
      BY <1>1 DEF OrderInv
    <2>9. QED
      BY <2>2, <2>3, <2>5, <2>6, <2>7, <2>8 DEF OrderInv
  <1>8. QED
    BY <1>2, <1>5, <1>6, <1>7

(* Taking one.                                                             *)
LEMMA TakeStep ==
    ASSUME StdinInv, Take
    PROVE  StdinInv'
  <1> USE DEF StdinInv
  <1>1. /\ frames \in Seq(Frame) /\ frames # <<>> /\ frames' = Tail(frames)
        /\ pump = "next" /\ pump' = "write" /\ hand' = Head(frames)
        /\ Head(frames) \in Frame /\ frames' \in Seq(Frame)
    BY DEF Take, StdinTypeOK
  <1>2. ChargeInv'
    BY <1>1, ChargeTail DEF ChargeInv, Take
  <1>3. staged' \in 0..stdinBufferLimit
    <2>1. staged' \in Nat
      BY <1>1, <1>2, ChargeNat DEF ChargeInv
    <2>2. staged' = staged - Charge(Head(frames)) /\ Charge(Head(frames)) \in Nat
      BY <1>1, ChargeType DEF Take
    <2>3. QED
      BY <2>1, <2>2, StdinAssumption DEF StdinTypeOK
  <1>4. StdinTypeOK'
    BY <1>1, <1>3 DEF Take, StdinTypeOK
  <1>5. EndInv'
    BY <1>1 DEF Take, EndInv
  <1>6. OrderInv'
    <2>1. /\ Len(frames) \in Nat /\ Len(frames) > 0 /\ Len(frames') = Len(frames) - 1
          /\ \A i \in 1..Len(frames') : frames'[i] = frames[i + 1]
          /\ hand' = frames[1] /\ Len(delivered) \in Nat
      BY <1>1 DEF StdinTypeOK
    <2>2. UNCHANGED <<delivered, torn, closed>> /\ Accepted' = Accepted
      BY DEF Take, Accepted
    <2>3. QED
      BY <1>1, <2>1, <2>2 DEF OrderInv
  <1>7. QED
    BY <1>2, <1>4, <1>5, <1>6

(* The command reading from the pipe.                                      *)
LEMMA ReadsStep ==
    ASSUME StdinInv, ExecutorReads
    PROVE  StdinInv'
  <1> USE DEF StdinInv
  <1>1. /\ delivered \in Seq(Frame) /\ delivered' = Append(delivered, hand)
        /\ pump = "write" /\ pump' = "next" /\ hand' = 0
        /\ Len(delivered) \in Nat /\ hand = Len(delivered) + 1
    BY DEF ExecutorReads, StdinTypeOK, OrderInv
  <1>2. hand \in Frame
    BY <1>1 DEF StdinTypeOK
  <1>3. delivered' \in Seq(Frame)
    BY <1>1, <1>2
  <1>4. StdinTypeOK'
    BY <1>1, <1>3 DEF ExecutorReads, StdinTypeOK
  <1>5. EndInv' /\ ChargeInv'
    BY <1>1 DEF ExecutorReads, EndInv, ChargeInv
  <1>6. OrderInv'
    <2>1. /\ Len(delivered') = Len(delivered) + 1 /\ delivered'[Len(delivered) + 1] = hand
          /\ \A i \in 1..Len(delivered) : delivered'[i] = delivered[i]
      BY <1>1, <1>2
    <2>2. UNCHANGED <<frames, torn, closed>> /\ Accepted' = Accepted /\ Len(frames) \in Nat
      BY DEF ExecutorReads, Accepted, StdinTypeOK
    <2>3. QED
      BY <1>1, <2>1, <2>2 DEF OrderInv
  <1>7. QED
    BY <1>4, <1>5, <1>6

(* No step breaks the invariant.                                           *)
LEMMA StdinStep ==
    ASSUME StdinInv, [StdinNext]_stdinVars
    PROVE  StdinInv'
  <1> USE DEF StdinInv
  <1>1. CASE Refuse
    <2>1. StdinTypeOK'
      <3>1. refused' \in BOOLEAN /\ closed' \in BOOLEAN
        BY <1>1, Zenon DEF Refuse
      <3>2. QED
        BY <1>1, <3>1, StdinAssumption DEF Refuse, StdinTypeOK
    <2>2. EndInv' /\ ChargeInv'
      BY <1>1 DEF Refuse, EndInv, ChargeInv, StdinTypeOK
    <2>3. OrderInv'
      <3>1. Accepted' = Accepted
        BY <1>1 DEF Refuse, Accepted, EndInv, StdinTypeOK
      <3>2. QED
        BY <1>1, <3>1 DEF Refuse, OrderInv
    <2>4. QED
      BY <2>1, <2>2, <2>3
  <1>2. CASE ReadFails
    <2>1. StdinTypeOK'
      <3>1. closed' \in BOOLEAN
        BY <1>2, Zenon DEF ReadFails
      <3>2. QED
        BY <1>2, <3>1 DEF ReadFails, StdinTypeOK
    <2>2. EndInv' /\ ChargeInv'
      BY <1>2 DEF ReadFails, EndInv, ChargeInv, StdinTypeOK
    <2>3. OrderInv'
      BY <1>2 DEF ReadFails, OrderInv, Accepted
    <2>4. QED
      BY <2>1, <2>2, <2>3
  <1>3. CASE CloseSignals
    <2>1. StdinTypeOK' /\ EndInv' /\ ChargeInv'
      BY <1>3 DEF CloseSignals, Signalled, StdinTypeOK, EndInv, ChargeInv
    <2>2. OrderInv'
      BY <1>3 DEF CloseSignals, Signalled, OrderInv, Accepted
    <2>3. QED
      BY <2>1, <2>2
  <1>4. CASE Wait
    <2>1. StdinTypeOK' /\ EndInv' /\ ChargeInv'
      BY <1>4 DEF Wait, StdinTypeOK, EndInv, ChargeInv
    <2>2. OrderInv'
      BY <1>4 DEF Wait, OrderInv, Accepted
    <2>3. QED
      BY <2>1, <2>2
  <1>5. CASE Drained \/ WriteFails
    <2>1. StdinTypeOK'
      <3>1. eof' \in BOOLEAN
        BY <1>5, Zenon DEF Drained, WriteFails
      <3>2. QED
        BY <1>5, <3>1 DEF Drained, WriteFails, StdinTypeOK
    <2>2. EndInv' /\ ChargeInv'
      BY <1>5 DEF Drained, WriteFails, EndInv, ChargeInv
    <2>3. OrderInv'
      BY <1>5 DEF Drained, WriteFails, OrderInv, Accepted, StdinTypeOK
    <2>4. QED
      BY <2>1, <2>2, <2>3
  <1>6. CASE Teardown
    <2>1. StdinTypeOK'
      <3>1. torn' \in BOOLEAN
        BY <1>6, Zenon DEF Teardown
      <3>2. QED
        BY <1>6, <3>1 DEF Teardown, StdinTypeOK
    <2>2. EndInv' /\ ChargeInv'
      BY <1>6 DEF Teardown, EndInv, ChargeInv
    <2>3. OrderInv'
      BY <1>6 DEF Teardown, OrderInv, Accepted
    <2>4. QED
      BY <2>1, <2>2, <2>3
  <1>7. CASE UNCHANGED stdinVars
    BY <1>7 DEF stdinVars, StdinTypeOK, EndInv, ChargeInv, OrderInv, Accepted
  <1>8. QED
    BY <1>1, <1>2, <1>3, <1>4, <1>5, <1>6, <1>7, PushStep, TakeStep, ReadsStep
       DEF StdinNext, PumpStep, Terminated

(* It holds throughout.                                                    *)
LEMMA StdinInvariant == StdinSpec => []StdinInv
  BY StdinInitially, StdinStep, PTL DEF StdinSpec

(* Every reachable state has the declared types: what is staged never      *)
(* exceeds the cap and never falls below zero.                             *)
THEOREM StdinTypeCorrect == StdinSpec => []StdinTypeOK
  <1>1. StdinInv => StdinTypeOK
    BY DEF StdinInv
  <1>2. QED
    BY <1>1, StdinInvariant, PTL

(* Input reaches the command whole and in order, for any frames.           *)
THEOREM InputIntact == StdinSpec => []StdinIntact
  <1>1. ASSUME StdinInv PROVE StdinIntact
    <2>1. \A i \in 1..Len(delivered) : delivered[i] = i
      BY <1>1 DEF StdinInv, OrderInv
    <2>2. ASSUME pump # "exit"
          PROVE  delivered \o InHand \o frames = [i \in 1..Accepted |-> i]
      <3> DEFINE d == delivered \o InHand
                 D == Len(delivered)
                 H == IF pump = "write" THEN 1 ELSE 0
      <3>1. /\ delivered \in Seq(Nat) /\ frames \in Seq(Nat) /\ hand \in Nat
            /\ D \in Nat /\ Len(frames) \in Nat
        BY <1>1, StdinAssumption DEF StdinInv, StdinTypeOK, Frame
      <3>2. InHand \in Seq(Nat) /\ Len(InHand) = H /\ (pump = "write" => InHand[1] = D + 1)
        BY <1>1, <3>1 DEF InHand, StdinInv, OrderInv
      <3>3. \A i \in 1..Len(InHand) : InHand[i] = D + i
        BY <3>1, <3>2
      <3>4. /\ d \in Seq(Nat) /\ Len(d) = D + H
            /\ \A i \in 1..(D + H) : d[i] = i
        BY <2>1, <3>1, <3>2, <3>3, ConcatRun
      <3>5. /\ \A i \in 1..Len(frames) : frames[i] = D + H + i
            /\ D + H + Len(frames) = Accepted
        BY <1>1, <2>2 DEF StdinInv, OrderInv
      <3> HIDE DEF d, H
      <3>6. /\ d \o frames \in Seq(Nat) /\ Len(d \o frames) = Accepted
            /\ \A i \in 1..Accepted : (d \o frames)[i] = i
        BY <3>1, <3>4, <3>5, ConcatRun
      <3> DEFINE e == d \o frames
      <3>7. e = [i \in 1..Accepted |-> i]
        <4>1. e \in Seq(Nat) /\ Len(e) = Accepted /\ \A i \in 1..Accepted : e[i] = i
          BY <3>6
        <4> HIDE DEF e
        <4>2. e = [i \in 1..Len(e) |-> e[i]]
          BY <4>1
        <4>3. QED
          BY <4>1, <4>2
      <3>8. QED
        BY <3>7 DEF d
    <2>3. QED
      BY <2>1, <2>2 DEF StdinIntact
  <1>2. QED
    BY <1>1, StdinInvariant, PTL

(* The byte account is exact: no sequence of pushes, takes and refusals    *)
(* makes staged drift from what the staged frames are charged.             *)
THEOREM AccountExact == StdinSpec => []StagedExact
  <1>1. ASSUME StdinInv PROVE StagedExact
    <2>1. staged <= stdinBufferLimit
      BY <1>1, StdinAssumption DEF StdinInv, StdinTypeOK
    <2>2. staged = QueueCharge(frames)
      BY <1>1 DEF StdinInv, ChargeInv
    <2>3. QED
      BY <2>1, <2>2, Zenon DEF StagedExact, QueueCharge
  <1>2. QED
    BY <1>1, StdinInvariant, PTL

(* The executor sees end of input only after every accepted frame, unless  *)
(* the session was torn down.                                              *)
THEOREM InputBeforeEOF == StdinSpec => []EOFAfterInput
  <1>1. StdinInv => EOFAfterInput
    BY DEF StdinInv, EndInv, OrderInv, EOFAfterInput
  <1>2. QED
    BY <1>1, StdinInvariant, PTL
===============================================================================
