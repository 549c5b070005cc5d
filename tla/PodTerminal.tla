----------------------------- MODULE PodTerminal ------------------------------
(***************************************************************************)
(* The Terminal tab: PodTerminalTab's form and terminal, and               *)
(* useExecSession, its WebSocket.  A session is known by its generation.   *)
(***************************************************************************)
EXTENDS DetailPage

CONSTANT MaxSessions   \* bound: generations of the session

ASSUME SessionAssumption == MaxSessions \in Nat

VARIABLES
    started, status, execError,
    gen, ws, starts,     \* the generation, the socket held, starts awaiting a token
    sockets,             \* sockets not yet closed at both ends
    screen               \* sessions whose bytes the terminal shows

execVars == <<started, status, execError, gen, ws, starts, sockets, screen>>

ExecInit ==
    /\ started = FALSE /\ status = "idle" /\ execError = FALSE
    /\ gen = 0 /\ ws = None /\ starts = {} /\ sockets = {} /\ screen = {}

terminalShown == terminalMounted /\ kind(object) = "Pod"

-----------------------------------------------------------------------------
(* stop(): the handlers go before the socket is closed.                    *)
Closing == {IF s.id = ws THEN [s EXCEPT !.closing = TRUE, !.attached = FALSE] ELSE s : s \in sockets}

Stopped == IF status \in {"connecting", "ready"} THEN "closed" ELSE status

stop ==
    /\ gen' = gen + 1 /\ ws' = None /\ sockets' = Closing
    /\ started' = FALSE /\ screen' = {} /\ UNCHANGED starts

Disconnect ==
    /\ terminalShown /\ started /\ stop /\ status' = Stopped
    /\ UNCHANGED <<page, execError>>

(* Start terminal, up to getBearerToken's await.                           *)
Start ==
    /\ terminalShown /\ ~started /\ gen < MaxSessions
    /\ gen' = gen + 2 /\ ws' = None /\ sockets' = Closing
    /\ started' = TRUE /\ screen' = {}
    /\ status' = "connecting" /\ execError' = FALSE
    /\ starts' = starts \cup {[gen |-> gen', pod |-> uidOf(object)]}
    /\ UNCHANGED page

SlipTokenArrives(s) ==
    /\ starts' = starts \ {s}
    /\ ws' = s.gen
    /\ sockets' = sockets \cup {[id |-> s.gen, pod |-> s.pod, open |-> FALSE,
                                 closing |-> FALSE, attached |-> TRUE]}
    /\ UNCHANGED <<page, started, status, execError, gen, screen>>

(* ... and after it: a superseded start opens nothing.                     *)
TokenArrives(s) ==
    /\ starts' = starts \ {s}
    /\ IF s.gen # gen THEN UNCHANGED <<ws, sockets>>
       ELSE /\ ws' = s.gen
            /\ sockets' = sockets \cup {[id |-> s.gen, pod |-> s.pod, open |-> FALSE,
                                         closing |-> FALSE, attached |-> TRUE]}
    /\ UNCHANGED <<page, started, status, execError, gen, screen>>

NotAuthenticated(s) ==
    /\ starts' = starts \ {s}
    /\ IF s.gen # gen THEN UNCHANGED <<status, execError>>
       ELSE status' = "error" /\ execError' = TRUE
    /\ UNCHANGED <<page, started, gen, ws, sockets, screen>>

-----------------------------------------------------------------------------
(* The socket's events; a frame may still be buffered on a closing one.    *)
Opened(s) ==
    /\ ~s.open /\ ~s.closing /\ sockets' = (sockets \ {s}) \cup {[s EXCEPT !.open = TRUE]}
    /\ UNCHANGED <<page, started, status, execError, gen, ws, starts, screen>>

Control(s, type) ==
    /\ s.open /\ s.attached
    /\ status' = CASE type = "ready" -> "ready" [] type = "error" -> "error" [] OTHER -> "closed"
    /\ execError' = (execError \/ type = "error")
    /\ screen' = IF type = "exit" THEN screen \cup {s.id} ELSE screen
    /\ UNCHANGED <<page, started, gen, ws, starts, sockets>>

Output(s) ==
    /\ s.open /\ s.attached /\ started /\ screen' = screen \cup {s.id}
    /\ UNCHANGED <<page, started, status, execError, gen, ws, starts, sockets>>

Closed(s) ==
    /\ s.open \/ s.closing
    /\ sockets' = sockets \ {s}
    /\ status' = IF s.attached /\ status # "error" THEN "closed" ELSE status
    /\ ws' = IF s.attached /\ ws = s.id THEN None ELSE ws
    /\ UNCHANGED <<page, started, execError, gen, starts, screen>>

(* onerror, of a connection that never opened or of one that breaks, and   *)
(* the close behind it: an error while still connecting, else a close.     *)
SocketFails(s) ==
    /\ ~s.closing /\ sockets' = sockets \ {s}
    /\ status' = IF status \in {"connecting", "error"} THEN "error" ELSE "closed"
    /\ execError' = (execError \/ status = "connecting")
    /\ ws' = IF ws = s.id THEN None ELSE ws
    /\ UNCHANGED <<page, started, gen, starts, screen>>

-----------------------------------------------------------------------------
(* The page's steps seen from the tab: unmounted with the page, the object *)
(* or the route it is keyed by; another uid in place tears it down too.    *)
TerminalFollows ==
    LET shown == terminalMounted' /\ kind(object') = "Pod"
    IN IF terminalShown /\ (~shown \/ target' # target)
       THEN stop /\ status' = "idle" /\ execError' = FALSE
       ELSE IF terminalShown /\ uidOf(object') # uidOf(object)
       THEN stop /\ status' = Stopped /\ execError' = FALSE
       ELSE UNCHANGED execVars

ExecNext ==
    \/ PageStep /\ UNCHANGED owned /\ Bounce /\ TerminalFollows
    \/ \E t \in {"overview", "terminal"} : SelectTab(t) /\ UNCHANGED execVars
    \/ Start \/ Disconnect
    \/ \E s \in starts : TokenArrives(s) \/ NotAuthenticated(s)
    \/ \E s \in sockets :
          \/ Opened(s) \/ Output(s) \/ Closed(s) \/ SocketFails(s)
          \/ \E type \in {"ready", "error", "exit"} : Control(s, type)

ExecSpec == PageInit /\ ExecInit /\ [][ExecNext]_<<page, execVars>>

-----------------------------------------------------------------------------
(* Every socket still open is the tab's one session, addressed to the pod  *)
(* on screen; the terminal shows bytes of that session only; "connecting"  *)
(* and "connected" stand for a session that is.                            *)
TerminalTruthful ==
    /\ \A s \in sockets : ~s.closing =>
          s.id = ws /\ started /\ object # None /\ s.pod = uidOf(object)
    /\ screen \subseteq {gen}
    /\ status \in {"connecting", "ready"} =>
          ws = gen \/ \E s \in starts : s.gen = gen

(* A live shell ends with the user's Disconnect, its own socket, another   *)
(* route or another pod: never with a refresh, a failed one included, or a *)
(* change of tabs.                                                         *)
ShellSurvives ==
    [][ws # None /\ ws' = None =>
          \/ Disconnect \/ target' # target \/ object.of # target
          \/ object' # None /\ uidOf(object') # uidOf(object)
          \/ ws \notin {s.id : s \in sockets'}]_<<page, execVars>>
=============================================================================
