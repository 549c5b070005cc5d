---------------------------- MODULE ExecAdmission ----------------------------
(***************************************************************************)
(* Admission to the exec bridge: Handler.ServeHTTP, the parts of           *)
(* Handler.session that take and return slots, and ipGate.                 *)
(*                                                                         *)
(* A connection is one request to /api/ui/exec/ws and the goroutine that   *)
(* serves it.  It passes the per-IP gate, takes a slot of the pending      *)
(* pool, is upgraded, reads its auth frame and only then trades the        *)
(* pending slot for a session slot.  Every channel operation and every     *)
(* locked section of the gate is one step, so two connections interleave   *)
(* at each of them: between acquire and the pending send, between the      *)
(* session send and the release of the pending slot, and between the two   *)
(* halves of releaseHandshake.                                             *)
(*                                                                         *)
(* pc[c] is where the goroutine of c stands:                               *)
(*   none     not connected                                                *)
(*   gated    past handshakes.acquire, before the pending send             *)
(*   shed     pending was full, before handshakes.release                  *)
(*   accept   holds a pending slot, before websocket.Accept returns        *)
(*   auth     waits for the auth frame (at most authTimeout)               *)
(*   promote  auth frame valid and cluster known, before the session send  *)
(*   handoff  holds both slots, about to call releaseHandshake             *)
(*   regate   released the pending slot, before handshakes.release         *)
(*   running  holds a session slot only                                    *)
(*   ending   the session returned, the deferred receive of its slot next  *)
(*   reject   writes an error frame and closes                             *)
(*   unwind   the deferred releaseHandshake of ServeHTTP runs next         *)
(*   ungate   that call released the pending slot, the gate is next        *)
(***************************************************************************)
EXTENDS Integers, FiniteSets

CONSTANTS
    Conns,                    \* connections that may be in flight together
    IPs,                      \* client addresses
    MaxExecSessions,          \* capacity of the session pool
    MaxExecHandshakesPerIP    \* per-address bound; 0 disables the gate

ASSUME AdmissionAssumption ==
    /\ IsFiniteSet(Conns)
    /\ MaxExecSessions \in Nat \ {0}
    /\ MaxExecHandshakesPerIP \in Nat

VARIABLES
    enabled,   \* Handler.enabled, fixed when the handler is built
    pc,        \* where each connection's goroutine stands
    ip,        \* the address each connection came from
    once,      \* whether the connection's releaseHandshake has run (sync.OnceFunc)
    answer,    \* the last refusal or outcome the connection was given
    held,      \* ipGate.held: a map with a key only for addresses that hold
    pending,   \* number of tokens in the pending channel
    sessions   \* number of tokens in the sessions channel

vars == <<enabled, pc, ip, once, answer, held, pending, sessions>>

handshakePoolFactor == 2
PendingCapacity == handshakePoolFactor * MaxExecSessions

Phases == {"none", "gated", "shed", "accept", "auth", "promote", "handoff",
           "regate", "running", "ending", "reject", "unwind", "ungate"}
Answers == {"none", "404", "429", "503", "full", "closed"}

TypeOK ==
    /\ enabled \in BOOLEAN
    /\ pc \in [Conns -> Phases]
    /\ ip \in [Conns -> IPs]
    /\ once \in [Conns -> BOOLEAN]
    /\ answer \in [Conns -> Answers]
    /\ DOMAIN held \subseteq IPs
    /\ held \in [DOMAIN held -> Nat \ {0}]
    /\ pending \in 0..PendingCapacity
    /\ sessions \in 0..MaxExecSessions

-----------------------------------------------------------------------------
(* ipGate.  A Go map yields 0 for a missing key.                           *)

GateOn == MaxExecHandshakesPerIP > 0

heldBy(k) == IF k \in DOMAIN held THEN held[k] ELSE 0

GateOpen(k) == GateOn => heldBy(k) < MaxExecHandshakesPerIP

acquire(k) ==
    IF GateOn
    THEN [j \in DOMAIN held \cup {k} |-> IF j = k THEN heldBy(k) + 1 ELSE held[j]]
    ELSE held

(* Variants named Slip... are what a plausible mistake in the same place   *)
(* would do; they are not part of the specification.                       *)

SlipReleaseKeepsKey(k) ==
    IF k \in DOMAIN held THEN [held EXCEPT ![k] = @ - 1] ELSE held

release(k) ==
    CASE ~GateOn -> held
      [] GateOn /\ heldBy(k) <= 1 -> [j \in DOMAIN held \ {k} |-> held[j]]
      [] OTHER -> [held EXCEPT ![k] = held[k] - 1]

-----------------------------------------------------------------------------
Goto(c, p) == pc' = [pc EXCEPT ![c] = p]
Reply(c, a) == answer' = [answer EXCEPT ![c] = a]

Init ==
    /\ enabled \in BOOLEAN
    /\ pc = [c \in Conns |-> "none"]
    /\ ip \in [Conns -> IPs]
    /\ once = [c \in Conns |-> FALSE]
    /\ answer = [c \in Conns |-> "none"]
    /\ held = [k \in {} |-> 0]
    /\ pending = 0
    /\ sessions = 0

(* ServeHTTP with exec switched off.                                       *)
Disabled(c) ==
    /\ pc[c] = "none" /\ ~enabled
    /\ Reply(c, "404")
    /\ UNCHANGED <<enabled, pc, ip, once, held, pending, sessions>>

(* A request from address k passes the gate.                               *)
Connect(c, k) ==
    /\ pc[c] = "none" /\ enabled
    /\ GateOpen(k)
    /\ held' = acquire(k)
    /\ ip' = [ip EXCEPT ![c] = k]
    /\ once' = [once EXCEPT ![c] = FALSE]
    /\ Reply(c, "none")
    /\ Goto(c, "gated")
    /\ UNCHANGED <<enabled, pending, sessions>>

(* Too many handshakes from this address: 429.                             *)
GateRefuse(c, k) ==
    /\ pc[c] = "none" /\ enabled
    /\ ~GateOpen(k)
    /\ ip' = [ip EXCEPT ![c] = k]
    /\ Reply(c, "429")
    /\ UNCHANGED <<enabled, pc, once, held, pending, sessions>>

(* select { case h.pending <- struct{}{}: ...                              *)
TakePending(c) ==
    /\ pc[c] = "gated"
    /\ pending < PendingCapacity
    /\ pending' = pending + 1
    /\ Goto(c, "accept")
    /\ UNCHANGED <<enabled, ip, once, answer, held, sessions>>

SlipPendingFullEarly(c) ==
    /\ pc[c] = "gated"
    /\ pending >= PendingCapacity - 1
    /\ Reply(c, "503")
    /\ Goto(c, "shed")
    /\ UNCHANGED <<enabled, ip, once, held, pending, sessions>>

(* ... default: } the pool is full; the gate is released next.             *)
PendingFull(c) ==
    /\ pc[c] = "gated"
    /\ pending >= PendingCapacity
    /\ Reply(c, "503")
    /\ Goto(c, "shed")
    /\ UNCHANGED <<enabled, ip, once, held, pending, sessions>>

ReleaseShed(c) ==
    /\ pc[c] = "shed"
    /\ held' = release(ip[c])
    /\ Goto(c, "none")
    /\ UNCHANGED <<enabled, ip, once, answer, pending, sessions>>

(* websocket.Accept: upgraded, or an HTTP error was written already.       *)
Accept(c) ==
    /\ pc[c] = "accept"
    /\ \/ Goto(c, "auth") /\ UNCHANGED answer
       \/ Goto(c, "unwind") /\ Reply(c, "closed")
    /\ UNCHANGED <<enabled, ip, once, held, pending, sessions>>

(* readAuthFrame and registry.Resolve: a valid frame naming a known        *)
(* cluster goes on; a bad frame, an unknown cluster or authTimeout does    *)
(* not.                                                                    *)
ReadAuth(c) ==
    /\ pc[c] = "auth"
    /\ \/ Goto(c, "promote")
       \/ Goto(c, "reject")
    /\ UNCHANGED <<enabled, ip, once, answer, held, pending, sessions>>

SlipTakeSessionUnbounded(c) ==
    /\ pc[c] = "promote"
    /\ sessions' = sessions + 1
    /\ Goto(c, "handoff")
    /\ UNCHANGED <<enabled, ip, once, answer, held, pending>>

(* select { case h.sessions <- struct{}{}: ...                             *)
TakeSession(c) ==
    /\ pc[c] = "promote"
    /\ sessions < MaxExecSessions
    /\ sessions' = sessions + 1
    /\ Goto(c, "handoff")
    /\ UNCHANGED <<enabled, ip, once, answer, held, pending>>

SlipWaitForSession(c) == pc[c] = "promote" /\ UNCHANGED vars

(* ... default: } exec session limit reached.                              *)
SessionsFull(c) ==
    /\ pc[c] = "promote"
    /\ sessions >= MaxExecSessions
    /\ Reply(c, "full")
    /\ Goto(c, "reject")
    /\ UNCHANGED <<enabled, ip, once, held, pending, sessions>>

(* writeControl(error) and conn.Close on the rejected connection.          *)
Reject(c) ==
    /\ pc[c] = "reject"
    /\ Reply(c, IF answer[c] = "full" THEN "full" ELSE "closed")
    /\ Goto(c, "unwind")
    /\ UNCHANGED <<enabled, ip, once, held, pending, sessions>>

(* First half of releaseHandshake, called at the promotion: <-h.pending.   *)
(* A receive on an empty channel would block.                              *)
HandoffPending(c) ==
    /\ pc[c] = "handoff"
    /\ pending > 0
    /\ pending' = pending - 1
    /\ once' = [once EXCEPT ![c] = TRUE]
    /\ Goto(c, "regate")
    /\ UNCHANGED <<enabled, ip, answer, held, sessions>>

(* Second half: handshakes.release(ip).                                    *)
HandoffGate(c) ==
    /\ pc[c] = "regate"
    /\ held' = release(ip[c])
    /\ Goto(c, "running")
    /\ UNCHANGED <<enabled, ip, once, answer, pending, sessions>>

(* Handler.session returns, normally or by a panic the deferred calls see. *)
SessionReturns(c) ==
    /\ pc[c] = "running"
    /\ Reply(c, "closed")
    /\ Goto(c, "ending")
    /\ UNCHANGED <<enabled, ip, once, held, pending, sessions>>

(* defer func() { <-h.sessions }()                                         *)
ReleaseSession(c) ==
    /\ pc[c] = "ending"
    /\ sessions > 0
    /\ sessions' = sessions - 1
    /\ Goto(c, "unwind")
    /\ UNCHANGED <<enabled, ip, once, answer, held, pending>>

SlipUnwindTwice(c) ==
    /\ pc[c] = "unwind"
    /\ pending > 0
    /\ pending' = pending - 1
    /\ once' = [once EXCEPT ![c] = TRUE]
    /\ Goto(c, "ungate")
    /\ UNCHANGED <<enabled, ip, answer, held, sessions>>

(* defer releaseHandshake(), the first time it runs: <-h.pending ...       *)
UnwindPending(c) ==
    /\ pc[c] = "unwind" /\ ~once[c]
    /\ pending > 0
    /\ pending' = pending - 1
    /\ once' = [once EXCEPT ![c] = TRUE]
    /\ Goto(c, "ungate")
    /\ UNCHANGED <<enabled, ip, answer, held, sessions>>

(* ... then handshakes.release(ip), and ServeHTTP returns.                 *)
UnwindGate(c) ==
    /\ pc[c] = "ungate"
    /\ held' = release(ip[c])
    /\ Goto(c, "none")
    /\ UNCHANGED <<enabled, ip, once, answer, pending, sessions>>

(* defer releaseHandshake() when it has run before: a no-op.               *)
UnwindDone(c) ==
    /\ pc[c] = "unwind" /\ once[c]
    /\ Goto(c, "none")
    /\ UNCHANGED <<enabled, ip, once, answer, held, pending, sessions>>

(* Steps of the serving goroutine that need nothing from the client or the *)
(* command: each is reached within authTimeout or runs at once.            *)
Handshake(c) ==
    \/ TakePending(c) \/ PendingFull(c) \/ ReleaseShed(c)
    \/ Accept(c) \/ ReadAuth(c)
    \/ TakeSession(c) \/ SessionsFull(c) \/ Reject(c)
    \/ HandoffPending(c) \/ HandoffGate(c)
    \/ ReleaseSession(c)
    \/ UnwindPending(c) \/ UnwindGate(c) \/ UnwindDone(c)

Next ==
    \E c \in Conns :
        \/ Disabled(c)
        \/ \E k \in IPs : Connect(c, k) \/ GateRefuse(c, k)
        \/ Handshake(c)
        \/ SessionReturns(c)

Spec == Init /\ [][Next]_vars

(* The Go scheduler runs a goroutine that can run.  Nothing is assumed of  *)
(* the client (it may connect or not) nor of how long a session lasts.     *)
AdmissionFairness == \A c \in Conns : WF_vars(Handshake(c))

-----------------------------------------------------------------------------
(* Who holds what.                                                         *)

PendingPhases == {"accept", "auth", "promote", "handoff", "reject"}
GatePhases == PendingPhases \cup {"gated", "shed", "regate", "ungate"}
SessionPhases == {"handoff", "regate", "running", "ending"}

HoldsPending(c) == pc[c] \in PendingPhases \/ (pc[c] = "unwind" /\ ~once[c])
HoldsGate(c) == pc[c] \in GatePhases \/ (pc[c] = "unwind" /\ ~once[c])
HoldsSession(c) == pc[c] \in SessionPhases

PendingHolders == {c \in Conns : HoldsPending(c)}
SessionHolders == {c \in Conns : HoldsSession(c)}
GateHolders(k) == {c \in Conns : HoldsGate(c) /\ ip[c] = k}

(* The tokens in the two channels are exactly the connections that hold    *)
(* one, through every interleaving of promotion, refusal and the deferred  *)
(* releases: no path loses a token and none returns one twice.             *)
SlotAccounting ==
    /\ pending = Cardinality(PendingHolders)
    /\ sessions = Cardinality(SessionHolders)

(* The gate counts exactly the unfinished handshakes of an address, never  *)
(* beyond its limit, and forgets an address with none: the map cannot grow *)
(* with one entry per address that ever connected (limits.go release).     *)
GateAccounting ==
    GateOn => /\ \A k \in IPs : heldBy(k) = Cardinality(GateHolders(k))
              /\ \A k \in DOMAIN held : held[k] \in 1..MaxExecHandshakesPerIP

(* No deferred receive can block: whoever is about to take a token out of  *)
(* a channel finds one there (a blocked receive would pin the goroutine    *)
(* and its connection for the life of the process).                        *)
ReleaseNeverBlocks ==
    \A c \in Conns :
        /\ (pc[c] = "handoff" \/ (pc[c] = "unwind" /\ ~once[c])) => pending > 0
        /\ pc[c] = "ending" => sessions > 0

(* A connection is turned away for want of a slot only while every slot is *)
(* held by another connection that is really in that phase: 429 by as many *)
(* handshakes of its own address, 503 by handshakes, "session limit" by    *)
(* promoted sessions - a flood of handshakes alone never causes the last.  *)
RefusedOnlyWhenFull ==
    [][\A c \in Conns :
          /\ (answer'[c] = "429" /\ (answer[c] # "429" \/ ip'[c] # ip[c])) =>
                Cardinality(GateHolders(ip'[c]) \ {c}) = MaxExecHandshakesPerIP
          /\ (answer'[c] = "503" /\ answer[c] # "503") =>
                Cardinality(PendingHolders \ {c}) = PendingCapacity
          /\ (answer'[c] = "full" /\ answer[c] # "full") =>
                Cardinality(SessionHolders \ {c}) = MaxExecSessions
      ]_vars

(* An unauthenticated connection cannot sit on a pending slot: it leaves   *)
(* the pool whatever the sessions and the other connections do.            *)
HandshakeEnds == \A c \in Conns : HoldsPending(c) ~> ~HoldsPending(c)

PendingPool == INSTANCE SlotPool
    WITH Clients <- Conns, Capacity <- PendingCapacity,
         holders <- PendingHolders, free <- PendingCapacity - pending
SessionPool == INSTANCE SlotPool
    WITH Clients <- Conns, Capacity <- MaxExecSessions,
         holders <- SessionHolders, free <- MaxExecSessions - sessions

(* The two channels implement the abstract pool of slots: every step that  *)
(* moves a token makes exactly one connection a holder or stops it being   *)
(* one, through promotion, refusal and the deferred releases.              *)
PoolsImplemented == PendingPool!Spec /\ SessionPool!Spec
=============================================================================
