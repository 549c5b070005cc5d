------------------------- MODULE ExecAdmissionProofs -------------------------
(***************************************************************************)
(* Proofs about ExecAdmission, for any finite set of connections, any set  *)
(* of addresses and any limits.                                            *)
(***************************************************************************)
EXTENDS ExecAdmission, FiniteSetTheorems, TLAPS

(* releaseHandshake has not run before the promotion and has run after it. *)
OnceInv ==
    \A c \in Conns :
        /\ pc[c] \in {"gated", "shed"} \cup PendingPhases => ~once[c]
        /\ pc[c] \in {"regate", "running", "ending", "ungate"} => once[c]

(* A connection that starts to hold a slot adds one to the count ...       *)
LEMMA CountAdd ==
    ASSUME NEW S, NEW x, x \notin S, IsFiniteSet(S)
    PROVE  Cardinality(S \cup {x}) = Cardinality(S) + 1
  BY FS_AddElement

(* ... and one that stops takes one away.                                  *)
LEMMA CountRemove ==
    ASSUME NEW S, NEW x, x \in S, IsFiniteSet(S)
    PROVE  Cardinality(S \ {x}) = Cardinality(S) - 1
  BY FS_RemoveElement

(* All sets of holders are finite, with a natural number of members.       *)
LEMMA HoldersFinite ==
    /\ IsFiniteSet(PendingHolders) /\ Cardinality(PendingHolders) \in Nat
    /\ IsFiniteSet(SessionHolders) /\ Cardinality(SessionHolders) \in Nat
    /\ \A k : IsFiniteSet(GateHolders(k)) /\ Cardinality(GateHolders(k)) \in Nat
  <1>1. PendingHolders \subseteq Conns /\ SessionHolders \subseteq Conns
        /\ \A k : GateHolders(k) \subseteq Conns
    BY DEF PendingHolders, SessionHolders, GateHolders
  <1>2. QED
    BY <1>1, AdmissionAssumption, FS_Subset, FS_CardinalityType

-----------------------------------------------------------------------------
(* The type invariant.                                                     *)

(* A gate that admits keeps a map of positive counts.                      *)
LEMMA AcquireType ==
    ASSUME TypeOK, NEW k \in IPs
    PROVE  /\ DOMAIN acquire(k) \subseteq IPs
           /\ acquire(k) \in [DOMAIN acquire(k) -> Nat \ {0}]
  BY DEF TypeOK, acquire, heldBy

(* So does one that releases.                                              *)
LEMMA ReleaseType ==
    ASSUME TypeOK, NEW k \in IPs
    PROVE  /\ DOMAIN release(k) \subseteq IPs
           /\ release(k) \in [DOMAIN release(k) -> Nat \ {0}]
  <1>1. CASE ~GateOn
    BY <1>1 DEF TypeOK, release
  <1>2. CASE GateOn /\ heldBy(k) <= 1
    BY <1>2 DEF TypeOK, release
  <1>3. CASE GateOn /\ ~(heldBy(k) <= 1)
    <2>1. k \in DOMAIN held /\ held[k] \in Nat /\ held[k] > 1
      BY <1>3 DEF TypeOK, heldBy
    <2>2. release(k) = [held EXCEPT ![k] = held[k] - 1]
      BY <1>3 DEF release
    <2>3. QED
      BY <2>1, <2>2 DEF TypeOK
  <1>4. QED
    BY <1>1, <1>2, <1>3

(* No step breaks the types.                                               *)
LEMMA TypeStep ==
    ASSUME TypeOK, [Next]_vars
    PROVE  TypeOK'
  <1> USE AdmissionAssumption DEF PendingCapacity, handshakePoolFactor, Phases, Answers, Goto, Reply
  <1>1. ASSUME NEW c \in Conns, Disabled(c) PROVE TypeOK'
    BY <1>1 DEF TypeOK, Disabled
  <1>2. ASSUME NEW c \in Conns, NEW k \in IPs, Connect(c, k) PROVE TypeOK'
    BY <1>2, AcquireType DEF TypeOK, Connect
  <1>3. ASSUME NEW c \in Conns, NEW k \in IPs, GateRefuse(c, k) PROVE TypeOK'
    BY <1>3 DEF TypeOK, GateRefuse
  <1>4. ASSUME NEW c \in Conns, TakePending(c) \/ PendingFull(c) PROVE TypeOK'
    BY <1>4 DEF TypeOK, TakePending, PendingFull
  <1>5. ASSUME NEW c \in Conns, ReleaseShed(c) \/ HandoffGate(c) \/ UnwindGate(c) PROVE TypeOK'
    <2>1. ip[c] \in IPs
      BY DEF TypeOK
    <2>2. QED
      BY <1>5, <2>1, ReleaseType DEF TypeOK, ReleaseShed, HandoffGate, UnwindGate
  <1>6. ASSUME NEW c \in Conns, Accept(c) \/ ReadAuth(c) PROVE TypeOK'
    BY <1>6 DEF TypeOK, Accept, ReadAuth
  <1>7. ASSUME NEW c \in Conns, TakeSession(c) \/ SessionsFull(c) \/ Reject(c) PROVE TypeOK'
    BY <1>7 DEF TypeOK, TakeSession, SessionsFull, Reject
  <1>8. ASSUME NEW c \in Conns, HandoffPending(c) \/ UnwindPending(c) PROVE TypeOK'
    <2>1. once' \in [Conns -> BOOLEAN]
      BY <1>8, Zenon DEF TypeOK, HandoffPending, UnwindPending
    <2>2. QED
      BY <1>8, <2>1 DEF TypeOK, HandoffPending, UnwindPending
  <1>9. ASSUME NEW c \in Conns, SessionReturns(c) \/ ReleaseSession(c) \/ UnwindDone(c) PROVE TypeOK'
    BY <1>9 DEF TypeOK, SessionReturns, ReleaseSession, UnwindDone
  <1>10. CASE UNCHANGED vars
    BY <1>10 DEF TypeOK, vars
  <1>11. QED
    BY <1>1, <1>2, <1>3, <1>4, <1>5, <1>6, <1>7, <1>8, <1>9, <1>10 DEF Next, Handshake

(* They hold at first.                                                     *)
LEMMA TypeInit == Init => TypeOK
  BY AdmissionAssumption DEF Init, TypeOK, Phases, Answers, PendingCapacity, handshakePoolFactor

(* Every reachable state has the declared types; in particular neither     *)
(* channel ever holds more tokens than its capacity nor fewer than none.   *)
THEOREM TypeCorrect == Spec => []TypeOK
  <1>1. QED
    BY TypeInit, TypeStep, PTL DEF Spec

-----------------------------------------------------------------------------
(* How a step of one connection changes the sets of holders.               *)

OnlyMoves(c) ==
    \A d \in Conns \ {c} :
        pc'[d] = pc[d] /\ (once'[d] <=> once[d]) /\ ip'[d] = ip[d]

(* The holders of a pending slot change at the moved connection at most.   *)
LEMMA PendingMove ==
    ASSUME NEW c \in Conns, OnlyMoves(c)
    PROVE  \/ HoldsPending(c)' /\ ~HoldsPending(c) /\ c \notin PendingHolders /\ PendingHolders' = PendingHolders \cup {c}
           \/ ~HoldsPending(c)' /\ HoldsPending(c) /\ c \in PendingHolders /\ PendingHolders' = PendingHolders \ {c}
           \/ (HoldsPending(c)' <=> HoldsPending(c)) /\ PendingHolders' = PendingHolders
  <1>1. \A d \in Conns \ {c} : HoldsPending(d)' <=> HoldsPending(d)
    BY DEF OnlyMoves, HoldsPending
  <1>2. CASE HoldsPending(c)' /\ ~HoldsPending(c)
    <2>1. PendingHolders' = PendingHolders \cup {c} /\ c \notin PendingHolders
      BY <1>1, <1>2, Zenon DEF PendingHolders
    <2>2. QED
      BY <1>2, <2>1
  <1>3. CASE ~HoldsPending(c)' /\ HoldsPending(c)
    <2>1. PendingHolders' = PendingHolders \ {c} /\ c \in PendingHolders
      BY <1>1, <1>3, Zenon DEF PendingHolders
    <2>2. QED
      BY <1>3, <2>1
  <1>4. CASE HoldsPending(c)' <=> HoldsPending(c)
    <2>1. PendingHolders' = PendingHolders
      BY <1>1, <1>4, Zenon DEF PendingHolders
    <2>2. QED
      BY <1>4, <2>1
  <1>5. QED
    BY <1>2, <1>3, <1>4

(* Hence their number changes by one at most, and how.                     *)
LEMMA PendingCount ==
    ASSUME NEW c \in Conns, OnlyMoves(c)
    PROVE  Cardinality(PendingHolders') =
             CASE HoldsPending(c)' /\ ~HoldsPending(c) -> Cardinality(PendingHolders) + 1
               [] ~HoldsPending(c)' /\ HoldsPending(c) -> Cardinality(PendingHolders) - 1
               [] OTHER -> Cardinality(PendingHolders)
  BY PendingMove, HoldersFinite, CountAdd, CountRemove

(* The same of the holders of a session slot.                              *)
LEMMA SessionMove ==
    ASSUME NEW c \in Conns, OnlyMoves(c)
    PROVE  \/ HoldsSession(c)' /\ ~HoldsSession(c) /\ c \notin SessionHolders /\ SessionHolders' = SessionHolders \cup {c}
           \/ ~HoldsSession(c)' /\ HoldsSession(c) /\ c \in SessionHolders /\ SessionHolders' = SessionHolders \ {c}
           \/ (HoldsSession(c)' <=> HoldsSession(c)) /\ SessionHolders' = SessionHolders
  <1>1. \A d \in Conns \ {c} : HoldsSession(d)' <=> HoldsSession(d)
    BY DEF OnlyMoves, HoldsSession
  <1>2. CASE HoldsSession(c)' /\ ~HoldsSession(c)
    <2>1. SessionHolders' = SessionHolders \cup {c} /\ c \notin SessionHolders
      BY <1>1, <1>2, Zenon DEF SessionHolders
    <2>2. QED
      BY <1>2, <2>1
  <1>3. CASE ~HoldsSession(c)' /\ HoldsSession(c)
    <2>1. SessionHolders' = SessionHolders \ {c} /\ c \in SessionHolders
      BY <1>1, <1>3, Zenon DEF SessionHolders
    <2>2. QED
      BY <1>3, <2>1
  <1>4. CASE HoldsSession(c)' <=> HoldsSession(c)
    <2>1. SessionHolders' = SessionHolders
      BY <1>1, <1>4, Zenon DEF SessionHolders
    <2>2. QED
      BY <1>4, <2>1
  <1>5. QED
    BY <1>2, <1>3, <1>4

(* And of their number.                                                    *)
LEMMA SessionCount ==
    ASSUME NEW c \in Conns, OnlyMoves(c)
    PROVE  Cardinality(SessionHolders') =
             CASE HoldsSession(c)' /\ ~HoldsSession(c) -> Cardinality(SessionHolders) + 1
               [] ~HoldsSession(c)' /\ HoldsSession(c) -> Cardinality(SessionHolders) - 1
               [] OTHER -> Cardinality(SessionHolders)
  BY SessionMove, HoldersFinite, CountAdd, CountRemove

-----------------------------------------------------------------------------
(* The accounting invariant.  SlotAccounting is not inductive alone: the   *)
(* deferred releaseHandshake asks sync.OnceFunc whether it has run before, *)
(* so OnceInv, which ties that flag to the phase, goes with it.            *)

AccountInv == TypeOK /\ OnceInv /\ SlotAccounting

(* Nothing is held at first.                                               *)
LEMMA AccountInit == Init => AccountInv
  <1> SUFFICES ASSUME Init PROVE AccountInv
    OBVIOUS
  <1>1. PendingHolders = {} /\ SessionHolders = {}
    BY DEF Init, PendingHolders, SessionHolders, HoldsPending, HoldsSession,
           PendingPhases, SessionPhases
  <1>2. OnceInv
    BY DEF Init, OnceInv, PendingPhases
  <1>3. QED
    BY <1>1, <1>2, TypeInit, FS_EmptySet DEF Init, AccountInv, SlotAccounting

(* The steps that move one connection and no token.                        *)
MovesNoToken(c) ==
    \/ Disabled(c) \/ \E k \in IPs : Connect(c, k) \/ GateRefuse(c, k)
    \/ PendingFull(c) \/ ReleaseShed(c) \/ Accept(c) \/ ReadAuth(c)
    \/ SessionsFull(c) \/ Reject(c) \/ HandoffGate(c)
    \/ SessionReturns(c) \/ UnwindGate(c) \/ UnwindDone(c)

(* Every step of a connection moves that connection only.                  *)
LEMMA StepMovesOne ==
    ASSUME TypeOK, NEW c \in Conns,
           \/ MovesNoToken(c) \/ TakePending(c) \/ TakeSession(c)
           \/ HandoffPending(c) \/ UnwindPending(c) \/ ReleaseSession(c)
    PROVE  OnlyMoves(c)
  BY DEF TypeOK, OnlyMoves, MovesNoToken, Goto, Disabled, Connect, GateRefuse,
         TakePending, PendingFull, ReleaseShed, Accept, ReadAuth, TakeSession, SessionsFull, Reject,
         HandoffPending, HandoffGate, SessionReturns, ReleaseSession, UnwindPending, UnwindGate, UnwindDone

(* The OnceFunc has run exactly from the promotion on.                     *)
LEMMA OnceStep ==
    ASSUME TypeOK, OnceInv, NEW c \in Conns,
           \/ MovesNoToken(c) \/ TakePending(c) \/ TakeSession(c)
           \/ HandoffPending(c) \/ UnwindPending(c) \/ ReleaseSession(c)
    PROVE  OnceInv'
  <1>1. \A d \in Conns \ {c} : pc'[d] = pc[d] /\ (once'[d] <=> once[d])
    BY StepMovesOne DEF OnlyMoves
  <1>2. /\ pc'[c] \in {"gated", "shed"} \cup PendingPhases => ~once'[c]
        /\ pc'[c] \in {"regate", "running", "ending", "ungate"} => once'[c]
    BY DEF TypeOK, OnceInv, PendingPhases, MovesNoToken, Goto, Disabled, Connect, GateRefuse,
         TakePending, PendingFull, ReleaseShed, Accept, ReadAuth, TakeSession, SessionsFull, Reject,
         HandoffPending, HandoffGate, SessionReturns, ReleaseSession, UnwindPending, UnwindGate, UnwindDone
  <1>3. QED
    BY <1>1, <1>2, Zenon DEF OnceInv

(* A step moves as many tokens as it moves holders.                        *)
LEMMA SlotStep ==
    ASSUME AccountInv, NEW c \in Conns,
           \/ MovesNoToken(c) \/ TakePending(c) \/ TakeSession(c)
           \/ HandoffPending(c) \/ UnwindPending(c) \/ ReleaseSession(c)
    PROVE  SlotAccounting'
  <1> USE DEF AccountInv, HoldsPending, HoldsSession, PendingPhases, SessionPhases, Goto
  <1>1. OnlyMoves(c)
    BY StepMovesOne
  <1>2. CASE MovesNoToken(c)
    <2>1. (HoldsPending(c)' <=> HoldsPending(c)) /\ (HoldsSession(c)' <=> HoldsSession(c))
      BY <1>2 DEF TypeOK, OnceInv, MovesNoToken, Disabled, Connect, GateRefuse,
         PendingFull, ReleaseShed, Accept, ReadAuth, SessionsFull, Reject,
         HandoffGate, SessionReturns, UnwindGate, UnwindDone
    <2>2. UNCHANGED <<pending, sessions>>
      BY <1>2 DEF MovesNoToken, Disabled, Connect, GateRefuse,
         PendingFull, ReleaseShed, Accept, ReadAuth, SessionsFull, Reject,
         HandoffGate, SessionReturns, UnwindGate, UnwindDone
    <2>3. QED
      BY <1>1, <2>1, <2>2, PendingCount, SessionCount DEF SlotAccounting
  <1>3. CASE TakePending(c)
    <2>1. HoldsPending(c)' /\ ~HoldsPending(c)
      BY <1>3 DEF TypeOK, OnceInv, TakePending
    <2>2. (HoldsSession(c)' <=> HoldsSession(c))
      BY <1>3 DEF TypeOK, OnceInv, TakePending
    <2>3. QED
      BY <1>1, <1>3, <2>1, <2>2, PendingCount, SessionCount, HoldersFinite DEF SlotAccounting, TakePending
  <1>4. CASE TakeSession(c)
    <2>1. (HoldsPending(c)' <=> HoldsPending(c))
      BY <1>4 DEF TypeOK, OnceInv, TakeSession
    <2>2. HoldsSession(c)' /\ ~HoldsSession(c)
      BY <1>4 DEF TypeOK, OnceInv, TakeSession
    <2>3. QED
      BY <1>1, <1>4, <2>1, <2>2, PendingCount, SessionCount, HoldersFinite DEF SlotAccounting, TakeSession
  <1>5. CASE HandoffPending(c)
    <2>1. ~HoldsPending(c)' /\ HoldsPending(c)
      BY <1>5 DEF TypeOK, OnceInv, HandoffPending
    <2>2. (HoldsSession(c)' <=> HoldsSession(c))
      BY <1>5 DEF TypeOK, OnceInv, HandoffPending
    <2>3. QED
      BY <1>1, <1>5, <2>1, <2>2, PendingCount, SessionCount, HoldersFinite DEF SlotAccounting, HandoffPending
  <1>6. CASE ReleaseSession(c)
    <2>1. (HoldsPending(c)' <=> HoldsPending(c))
      BY <1>6 DEF TypeOK, OnceInv, ReleaseSession
    <2>2. ~HoldsSession(c)' /\ HoldsSession(c)
      BY <1>6 DEF TypeOK, OnceInv, ReleaseSession
    <2>3. QED
      BY <1>1, <1>6, <2>1, <2>2, PendingCount, SessionCount, HoldersFinite DEF SlotAccounting, ReleaseSession
  <1>7. CASE UnwindPending(c)
    <2>1. ~HoldsPending(c)' /\ HoldsPending(c)
      BY <1>7 DEF TypeOK, OnceInv, UnwindPending
    <2>2. (HoldsSession(c)' <=> HoldsSession(c))
      BY <1>7 DEF TypeOK, OnceInv, UnwindPending
    <2>3. QED
      BY <1>1, <1>7, <2>1, <2>2, PendingCount, SessionCount, HoldersFinite DEF SlotAccounting, UnwindPending
  <1>8. QED
    BY <1>2, <1>3, <1>4, <1>5, <1>6, <1>7

(* Every step is some connection's.                                        *)
LEMMA NextIsAStep ==
    ASSUME Next
    PROVE  \E c \in Conns :
              \/ MovesNoToken(c) \/ TakePending(c) \/ TakeSession(c)
              \/ HandoffPending(c) \/ UnwindPending(c) \/ ReleaseSession(c)
  BY Zenon DEF Next, Handshake, MovesNoToken

(* No step breaks the account.                                             *)
LEMMA AccountStep ==
    ASSUME AccountInv, [Next]_vars
    PROVE  AccountInv'
  <1>1. TypeOK'
    BY TypeStep DEF AccountInv
  <1>2. CASE Next
    BY <1>1, <1>2, NextIsAStep, OnceStep, SlotStep DEF AccountInv
  <1>3. CASE UNCHANGED vars
    BY <1>1, <1>3 DEF AccountInv, OnceInv, SlotAccounting, PendingHolders,
       SessionHolders, HoldsPending, HoldsSession, vars
  <1>4. QED
    BY <1>2, <1>3

(* The tokens in the two channels are exactly the connections that hold a  *)
(* slot, in every reachable state and for any number of connections.       *)
THEOREM SlotsAccounted == Spec => []SlotAccounting
  <1>1. Spec => []AccountInv
    BY AccountInit, AccountStep, PTL DEF Spec
  <1>2. AccountInv => SlotAccounting
    BY DEF AccountInv
  <1>3. QED
    BY <1>1, <1>2, PTL

(* No deferred receive blocks: whoever releases a slot finds a token.      *)
THEOREM ReleasesNeverBlock == Spec => []ReleaseNeverBlocks
  <1>1. Spec => []AccountInv
    BY AccountInit, AccountStep, PTL DEF Spec
  <1>2. ASSUME AccountInv PROVE ReleaseNeverBlocks
    <2>1. ASSUME NEW c \in Conns, pc[c] = "handoff" \/ (pc[c] = "unwind" /\ ~once[c])
          PROVE  pending > 0
      <3>1. PendingHolders # {}
        BY <2>1 DEF PendingHolders, HoldsPending, PendingPhases
      <3>2. QED
        BY <1>2, <3>1, HoldersFinite, FS_EmptySet DEF AccountInv, SlotAccounting
    <2>2. ASSUME NEW c \in Conns, pc[c] = "ending" PROVE sessions > 0
      <3>1. SessionHolders # {}
        BY <2>2 DEF SessionHolders, HoldsSession, SessionPhases
      <3>2. QED
        BY <1>2, <3>1, HoldersFinite, FS_EmptySet DEF AccountInv, SlotAccounting
    <2>3. QED
      BY <2>1, <2>2 DEF ReleaseNeverBlocks
  <1>3. QED
    BY <1>1, <1>2, PTL

-----------------------------------------------------------------------------
(* Refinement: each channel implements SlotPool.                           *)

(* Both pools are empty at first.                                          *)
LEMMA PoolInit == Init => PendingPool!Init /\ SessionPool!Init
  <1> SUFFICES ASSUME Init PROVE PendingPool!Init /\ SessionPool!Init
    OBVIOUS
  <1>1. PendingHolders = {} /\ SessionHolders = {}
    BY DEF Init, PendingHolders, SessionHolders, HoldsPending, HoldsSession,
           PendingPhases, SessionPhases
  <1>2. QED
    BY <1>1, AdmissionAssumption
    DEF Init, PendingPool!Init, SessionPool!Init, PendingCapacity, handshakePoolFactor

(* Every step takes, gives back or leaves alone, in each pool.             *)
LEMMA PoolStep ==
    ASSUME AccountInv, AccountInv', [Next]_vars
    PROVE  [PendingPool!Next]_(PendingPool!pool) /\ [SessionPool!Next]_(SessionPool!pool)
  <1>1. CASE UNCHANGED vars
    BY <1>1 DEF PendingHolders, SessionHolders, HoldsPending, HoldsSession, vars,
                PendingPool!pool, SessionPool!pool
  <1>2. CASE Next
    <2>1. PICK c \in Conns :
              \/ MovesNoToken(c) \/ TakePending(c) \/ TakeSession(c)
              \/ HandoffPending(c) \/ UnwindPending(c) \/ ReleaseSession(c)
      BY <1>2, NextIsAStep
    <2>2. OnlyMoves(c)
      BY <2>1, StepMovesOne DEF AccountInv
    <2>3. PendingCapacity \in Nat /\ MaxExecSessions \in Nat
      BY AdmissionAssumption DEF PendingCapacity, handshakePoolFactor
    <2>4. [PendingPool!Next]_(PendingPool!pool)
      <3>1. /\ pending \in 0..PendingCapacity /\ pending = Cardinality(PendingHolders)
            /\ pending' \in 0..PendingCapacity /\ pending' = Cardinality(PendingHolders')
        BY DEF AccountInv, TypeOK, SlotAccounting
      <3>2. CASE c \notin PendingHolders /\ PendingHolders' = PendingHolders \cup {c}
        <4>1. pending' = pending + 1
          BY <3>1, <3>2, CountAdd, HoldersFinite
        <4>2. PendingPool!Take(c)
          BY <2>3, <3>1, <3>2, <4>1 DEF PendingPool!Take
        <4>3. QED
          BY <4>2 DEF PendingPool!Next
      <3>3. CASE c \in PendingHolders /\ PendingHolders' = PendingHolders \ {c}
        <4>1. pending' = pending - 1
          BY <3>1, <3>3, CountRemove, HoldersFinite
        <4>2. PendingPool!Give(c)
          BY <2>3, <3>1, <3>3, <4>1 DEF PendingPool!Give
        <4>3. QED
          BY <4>2 DEF PendingPool!Next
      <3>4. CASE PendingHolders' = PendingHolders
        BY <3>1, <3>4 DEF PendingPool!pool
      <3>5. QED
        BY <2>2, <3>2, <3>3, <3>4, PendingMove
    <2>5. [SessionPool!Next]_(SessionPool!pool)
      <3>1. /\ sessions \in 0..MaxExecSessions /\ sessions = Cardinality(SessionHolders)
            /\ sessions' \in 0..MaxExecSessions /\ sessions' = Cardinality(SessionHolders')
        BY DEF AccountInv, TypeOK, SlotAccounting
      <3>2. CASE c \notin SessionHolders /\ SessionHolders' = SessionHolders \cup {c}
        <4>1. sessions' = sessions + 1
          BY <3>1, <3>2, CountAdd, HoldersFinite
        <4>2. SessionPool!Take(c)
          BY <2>3, <3>1, <3>2, <4>1 DEF SessionPool!Take
        <4>3. QED
          BY <4>2 DEF SessionPool!Next
      <3>3. CASE c \in SessionHolders /\ SessionHolders' = SessionHolders \ {c}
        <4>1. sessions' = sessions - 1
          BY <3>1, <3>3, CountRemove, HoldersFinite
        <4>2. SessionPool!Give(c)
          BY <2>3, <3>1, <3>3, <4>1 DEF SessionPool!Give
        <4>3. QED
          BY <4>2 DEF SessionPool!Next
      <3>4. CASE SessionHolders' = SessionHolders
        BY <3>1, <3>4 DEF SessionPool!pool
      <3>5. QED
        BY <2>2, <3>2, <3>3, <3>4, SessionMove
    <2>6. QED
      BY <2>4, <2>5
  <1>3. QED
    BY <1>1, <1>2

(* The pending channel and the sessions channel are pools of slots: no     *)
(* holder takes twice, none is taken beyond the capacity, each is given    *)
(* back once.                                                              *)
THEOREM ChannelsArePools == Spec => PoolsImplemented
  <1>1. Spec => []AccountInv
    BY AccountInit, AccountStep, PTL DEF Spec
  <1>2. QED
    BY <1>1, PoolInit, PoolStep, PTL
       DEF Spec, PoolsImplemented, PendingPool!Spec, SessionPool!Spec

-----------------------------------------------------------------------------
(* The per-address gate.  GateAccounting rests on OnceInv as the pools do: *)
(* which of the two deferred releases returns the address's count is       *)
(* decided by the same flag.                                               *)

GateInv == AccountInv /\ GateAccounting

(* What the two locked sections of ipGate do to the count of an address.   *)
LEMMA AcquireCount ==
    ASSUME TypeOK, GateOn, NEW k \in IPs, held' = acquire(k), NEW j \in IPs
    PROVE  heldBy(j)' = IF j = k THEN heldBy(k) + 1 ELSE heldBy(j)
  BY DEF TypeOK, acquire, heldBy

(* What a release leaves of an address's count.                            *)
LEMMA ReleaseCount ==
    ASSUME TypeOK, GateOn, NEW k \in IPs, held' = release(k), heldBy(k) > 0, NEW j \in IPs
    PROVE  heldBy(j)' = IF j = k THEN heldBy(k) - 1 ELSE heldBy(j)
  <1>1. k \in DOMAIN held /\ held[k] \in Nat \ {0} /\ heldBy(k) = held[k]
    BY DEF TypeOK, heldBy
  <1>2. CASE heldBy(k) <= 1
    <2>1. held' = [i \in DOMAIN held \ {k} |-> held[i]]
      BY <1>2 DEF release
    <2>2. QED
      BY <1>1, <1>2, <2>1 DEF heldBy
  <1>3. CASE ~(heldBy(k) <= 1)
    <2>1. held' = [held EXCEPT ![k] = held[k] - 1]
      BY <1>3 DEF release
    <2>2. QED
      BY <1>1, <2>1 DEF TypeOK, heldBy
  <1>4. QED
    BY <1>2, <1>3

(* How a step of c changes the unfinished handshakes of address k.         *)
CountedFor(c, k) == HoldsGate(c) /\ ip[c] = k

(* The unfinished handshakes of an address change at the moved connection. *)
LEMMA GateMove ==
    ASSUME NEW c \in Conns, OnlyMoves(c), NEW k
    PROVE  \/ CountedFor(c, k)' /\ ~CountedFor(c, k) /\ c \notin GateHolders(k) /\ GateHolders(k)' = GateHolders(k) \cup {c}
           \/ ~CountedFor(c, k)' /\ CountedFor(c, k) /\ c \in GateHolders(k) /\ GateHolders(k)' = GateHolders(k) \ {c}
           \/ (CountedFor(c, k)' <=> CountedFor(c, k)) /\ GateHolders(k)' = GateHolders(k)
  <1>1. \A d \in Conns \ {c} : CountedFor(d, k)' <=> CountedFor(d, k)
    BY DEF OnlyMoves, HoldsGate, CountedFor
  <1>2. /\ GateHolders(k) = {d \in Conns : CountedFor(d, k)}
        /\ GateHolders(k)' = {d \in Conns : CountedFor(d, k)'}
    BY DEF GateHolders, CountedFor
  <1>3. CASE CountedFor(c, k)' /\ ~CountedFor(c, k)
    <2>1. GateHolders(k)' = GateHolders(k) \cup {c} /\ c \notin GateHolders(k)
      BY <1>1, <1>2, <1>3, Zenon
    <2>2. QED
      BY <1>3, <2>1
  <1>4. CASE ~CountedFor(c, k)' /\ CountedFor(c, k)
    <2>1. GateHolders(k)' = GateHolders(k) \ {c} /\ c \in GateHolders(k)
      BY <1>1, <1>2, <1>4, Zenon
    <2>2. QED
      BY <1>4, <2>1
  <1>5. CASE CountedFor(c, k)' <=> CountedFor(c, k)
    <2>1. GateHolders(k)' = GateHolders(k)
      BY <1>1, <1>2, <1>5, Zenon
    <2>2. QED
      BY <1>5, <2>1
  <1>6. QED
    BY <1>3, <1>4, <1>5

(* Hence their number changes by one at most, and how.                     *)
LEMMA GateCount ==
    ASSUME NEW c \in Conns, OnlyMoves(c), NEW k
    PROVE  Cardinality(GateHolders(k)') =
             CASE CountedFor(c, k)' /\ ~CountedFor(c, k) -> Cardinality(GateHolders(k)) + 1
               [] ~CountedFor(c, k)' /\ CountedFor(c, k) -> Cardinality(GateHolders(k)) - 1
               [] OTHER -> Cardinality(GateHolders(k))
  BY GateMove, HoldersFinite, CountAdd, CountRemove

(* The steps that leave the gate's map alone.                              *)
KeepsGate(c) ==
    \/ Disabled(c) \/ \E k \in IPs : GateRefuse(c, k)
    \/ TakePending(c) \/ PendingFull(c) \/ Accept(c) \/ ReadAuth(c)
    \/ TakeSession(c) \/ SessionsFull(c) \/ Reject(c) \/ HandoffPending(c)
    \/ SessionReturns(c) \/ ReleaseSession(c) \/ UnwindPending(c) \/ UnwindDone(c)

(* Every step, as the gate sees it.                                        *)
LEMMA NextAtGate ==
    ASSUME Next
    PROVE  \E c \in Conns :
              \/ KeepsGate(c)
              \/ \E k \in IPs : Connect(c, k)
              \/ ReleaseShed(c) \/ HandoffGate(c) \/ UnwindGate(c)
  BY Zenon DEF Next, Handshake, KeepsGate

(* No step breaks the gate's account.                                      *)
LEMMA GateStep ==
    ASSUME GateInv, Next, GateOn
    PROVE  GateAccounting'
  <1> USE DEF GateInv, AccountInv
  <1>1. PICK c \in Conns :
              \/ KeepsGate(c)
              \/ \E k \in IPs : Connect(c, k)
              \/ ReleaseShed(c) \/ HandoffGate(c) \/ UnwindGate(c)
    BY NextAtGate
  <1>2. OnlyMoves(c)
    BY <1>1, StepMovesOne DEF KeepsGate, MovesNoToken
  <1>3. /\ \A k \in IPs : heldBy(k) = Cardinality(GateHolders(k)) /\ heldBy(k) \in Nat
        /\ \A k \in IPs : heldBy(k) <= MaxExecHandshakesPerIP
        /\ GateOn'
    <2>1. \A k \in IPs : heldBy(k) = Cardinality(GateHolders(k)) /\ heldBy(k) \in Nat
      BY HoldersFinite DEF GateAccounting
    <2>2. \A k \in IPs : heldBy(k) <= MaxExecHandshakesPerIP
      BY AdmissionAssumption DEF GateAccounting, heldBy
    <2>3. QED
      BY <2>1, <2>2 DEF GateOn
  <1>4. SUFFICES /\ \A k \in IPs : heldBy(k)' = Cardinality(GateHolders(k)')
                 /\ \A k \in IPs : heldBy(k)' <= MaxExecHandshakesPerIP
    <2>1. TypeOK'
      BY TypeStep
    <2>2. ASSUME NEW k \in DOMAIN held', heldBy(k)' <= MaxExecHandshakesPerIP
          PROVE  held'[k] \in 1..MaxExecHandshakesPerIP
      BY <2>1, <2>2, AdmissionAssumption DEF TypeOK, heldBy
    <2>3. QED
      BY <1>3, <2>1, <2>2 DEF GateAccounting, TypeOK
  <1>5. CASE KeepsGate(c)
    <2>1. held' = held
      BY <1>5 DEF KeepsGate, Disabled, GateRefuse, TakePending, PendingFull, Accept, ReadAuth,
         TakeSession, SessionsFull, Reject, HandoffPending, SessionReturns, ReleaseSession,
         UnwindPending, UnwindDone
    <2>2. \A k : CountedFor(c, k)' <=> CountedFor(c, k)
      BY <1>5 DEF CountedFor, HoldsGate, GatePhases, PendingPhases, TypeOK, OnceInv, Goto,
         KeepsGate, Disabled, GateRefuse, TakePending, PendingFull, Accept, ReadAuth,
         TakeSession, SessionsFull, Reject, HandoffPending, SessionReturns, ReleaseSession,
         UnwindPending, UnwindDone
    <2>3. \A k \in IPs : heldBy(k)' = heldBy(k)
      BY <2>1 DEF heldBy
    <2>4. QED
      BY <1>2, <1>3, <2>2, <2>3, GateCount
  <1>6. ASSUME NEW k \in IPs, Connect(c, k)
        PROVE  /\ \A j \in IPs : heldBy(j)' = Cardinality(GateHolders(j)')
               /\ \A j \in IPs : heldBy(j)' <= MaxExecHandshakesPerIP
    <2>1. /\ \A j : ~CountedFor(c, j)
          /\ \A j : CountedFor(c, j)' <=> j = k
      BY <1>6 DEF CountedFor, HoldsGate, GatePhases, PendingPhases, TypeOK, Goto, Connect
    <2>2. held' = acquire(k) /\ heldBy(k) < MaxExecHandshakesPerIP
      BY <1>6 DEF Connect, GateOpen
    <2>3. \A j \in IPs : heldBy(j)' = IF j = k THEN heldBy(k) + 1 ELSE heldBy(j)
      BY <2>2, AcquireCount
    <2>4. QED
      BY <1>2, <1>3, <2>1, <2>2, <2>3, GateCount, AdmissionAssumption
  <1>7. CASE ReleaseShed(c) \/ HandoffGate(c) \/ UnwindGate(c)
    <2>1. /\ \A j : CountedFor(c, j) <=> j = ip[c]
          /\ \A j : ~CountedFor(c, j)'
      BY <1>7 DEF CountedFor, HoldsGate, GatePhases, PendingPhases, TypeOK, Goto,
         ReleaseShed, HandoffGate, UnwindGate
    <2>2. held' = release(ip[c]) /\ ip[c] \in IPs
      BY <1>7 DEF ReleaseShed, HandoffGate, UnwindGate, TypeOK
    <2>3. heldBy(ip[c]) > 0
      <3>1. GateHolders(ip[c]) # {}
        BY <2>1 DEF GateHolders, CountedFor
      <3>2. QED
        BY <1>3, <2>2, <3>1, HoldersFinite, FS_EmptySet
    <2>4. \A j \in IPs : heldBy(j)' = IF j = ip[c] THEN heldBy(ip[c]) - 1 ELSE heldBy(j)
      BY <2>2, <2>3, ReleaseCount
    <2>5. QED
      BY <1>2, <1>3, <2>1, <2>2, <2>4, GateCount, AdmissionAssumption
  <1>8. QED
    BY <1>1, <1>5, <1>6, <1>7

(* The gate's invariant holds throughout.                                  *)
LEMMA GateInvariant == Spec => []GateInv
  <1>1. Init => GateInv
    <2> SUFFICES ASSUME Init PROVE GateAccounting
      BY AccountInit DEF GateInv
    <2>1. \A k \in IPs : heldBy(k) = 0 /\ GateHolders(k) = {}
      BY DEF Init, heldBy, GateHolders, HoldsGate, GatePhases, PendingPhases
    <2>2. DOMAIN held = {}
      BY DEF Init
    <2>3. QED
      BY <2>1, <2>2, FS_EmptySet DEF GateAccounting
  <1>2. ASSUME GateInv, [Next]_vars PROVE GateInv'
    <2>1. AccountInv'
      BY <1>2, AccountStep DEF GateInv
    <2>2. CASE GateOn /\ Next
      BY <1>2, <2>1, <2>2, GateStep DEF GateInv
    <2>3. CASE ~GateOn
      BY <2>1, <2>3 DEF GateInv, GateAccounting, GateOn
    <2>4. CASE UNCHANGED vars
      BY <1>2, <2>1, <2>4 DEF GateInv, GateAccounting, GateOn, heldBy, GateHolders, HoldsGate, vars
    <2>5. QED
      BY <1>2, <2>2, <2>3, <2>4
  <1>3. QED
    BY <1>1, <1>2, PTL DEF Spec

(* The gate counts exactly the unfinished handshakes of each address, for  *)
(* any number of connections, addresses and any limit: no interleaving of  *)
(* acquire, shedding, promotion and the deferred release leaves a count    *)
(* behind (which would lock an address out) or drops one, and the map      *)
(* holds a key only for an address that has a handshake under way.         *)
THEOREM GateAccounted == Spec => []GateAccounting
  <1>1. GateInv => GateAccounting
    BY DEF GateInv
  <1>2. QED
    BY <1>1, GateInvariant, PTL

(* A step of c that refuses it finds the resource it was refused taken up  *)
(* entirely by other connections.                                          *)
LEMMA RefusalStep ==
    ASSUME GateInv, [Next]_vars, NEW c \in Conns
    PROVE  /\ (answer'[c] = "429" /\ (answer[c] # "429" \/ ip'[c] # ip[c])) =>
                Cardinality(GateHolders(ip'[c]) \ {c}) = MaxExecHandshakesPerIP
           /\ (answer'[c] = "503" /\ answer[c] # "503") =>
                Cardinality(PendingHolders \ {c}) = PendingCapacity
           /\ (answer'[c] = "full" /\ answer[c] # "full") =>
                Cardinality(SessionHolders \ {c}) = MaxExecSessions
  <1> USE DEF GateInv, AccountInv
  <1>1. ASSUME answer'[c] = "429", answer[c] # "429" \/ ip'[c] # ip[c]
        PROVE  Cardinality(GateHolders(ip'[c]) \ {c}) = MaxExecHandshakesPerIP
    <2>1. PICK k \in IPs : GateRefuse(c, k)
      BY <1>1 DEF TypeOK, vars, Next, Handshake, Goto, Reply, Disabled, Connect, GateRefuse,
         TakePending, PendingFull, ReleaseShed, Accept, ReadAuth, TakeSession, SessionsFull, Reject,
         HandoffPending, HandoffGate, SessionReturns, ReleaseSession, UnwindPending, UnwindGate, UnwindDone
    <2>2. /\ ip'[c] = k /\ GateOn /\ ~(heldBy(k) < MaxExecHandshakesPerIP)
          /\ pc[c] = "none"
      BY <2>1 DEF GateRefuse, GateOpen, TypeOK
    <2>3. c \notin GateHolders(k)
      BY <2>2 DEF GateHolders, HoldsGate, GatePhases, PendingPhases
    <2>4. GateHolders(k) \ {c} = GateHolders(k)
      BY <2>3
    <2>5. heldBy(k) = Cardinality(GateHolders(k)) /\ heldBy(k) <= MaxExecHandshakesPerIP
      BY <2>2, AdmissionAssumption DEF GateAccounting, heldBy
    <2>6. QED
      BY <2>2, <2>4, <2>5, AdmissionAssumption, HoldersFinite
  <1>2. ASSUME answer'[c] = "503", answer[c] # "503"
        PROVE  Cardinality(PendingHolders \ {c}) = PendingCapacity
    <2>1. PendingFull(c)
      BY <1>2 DEF TypeOK, vars, Next, Handshake, Goto, Reply, Disabled, Connect, GateRefuse,
         TakePending, PendingFull, ReleaseShed, Accept, ReadAuth, TakeSession, SessionsFull, Reject,
         HandoffPending, HandoffGate, SessionReturns, ReleaseSession, UnwindPending, UnwindGate, UnwindDone
    <2>2. c \notin PendingHolders
      BY <2>1 DEF PendingFull, PendingHolders, HoldsPending, PendingPhases
    <2>3. PendingHolders \ {c} = PendingHolders
      BY <2>2
    <2>4. PendingCapacity \in Nat
      BY AdmissionAssumption DEF PendingCapacity, handshakePoolFactor
    <2>5. pending = PendingCapacity
      BY <2>1, <2>4 DEF PendingFull, TypeOK
    <2>6. QED
      BY <2>3, <2>5 DEF SlotAccounting
  <1>3. ASSUME answer'[c] = "full", answer[c] # "full"
        PROVE  Cardinality(SessionHolders \ {c}) = MaxExecSessions
    <2>1. SessionsFull(c)
      BY <1>3 DEF TypeOK, vars, Next, Handshake, Goto, Reply, Disabled, Connect, GateRefuse,
         TakePending, PendingFull, ReleaseShed, Accept, ReadAuth, TakeSession, SessionsFull, Reject,
         HandoffPending, HandoffGate, SessionReturns, ReleaseSession, UnwindPending, UnwindGate, UnwindDone
    <2>2. c \notin SessionHolders
      BY <2>1 DEF SessionsFull, SessionHolders, HoldsSession, SessionPhases
    <2>3. SessionHolders \ {c} = SessionHolders
      BY <2>2
    <2>4. QED
      BY <2>1, <2>3, AdmissionAssumption DEF SessionsFull, SlotAccounting, TypeOK
  <1>4. QED
    BY <1>1, <1>2, <1>3

(* A refusal is never spurious: 429, 503 and "session limit" are answered  *)
(* only while every slot of that kind is held by another connection, and   *)
(* the session limit only by promoted sessions.                            *)
THEOREM RefusalsJustified == Spec => RefusedOnlyWhenFull
  <1>1. ASSUME GateInv, [Next]_vars
        PROVE  [\A c \in Conns :
                  /\ (answer'[c] = "429" /\ (answer[c] # "429" \/ ip'[c] # ip[c])) =>
                        Cardinality(GateHolders(ip'[c]) \ {c}) = MaxExecHandshakesPerIP
                  /\ (answer'[c] = "503" /\ answer[c] # "503") =>
                        Cardinality(PendingHolders \ {c}) = PendingCapacity
                  /\ (answer'[c] = "full" /\ answer[c] # "full") =>
                        Cardinality(SessionHolders \ {c}) = MaxExecSessions]_vars
    BY <1>1, RefusalStep, Zenon
  <1>2. QED
    BY <1>1, GateInvariant, PTL DEF Spec, RefusedOnlyWhenFull
=============================================================================
