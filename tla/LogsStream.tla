------------------------------ MODULE LogsStream ------------------------------
(***************************************************************************)
(* useLogsStream: a log followed over a connection that may drop, staged   *)
(* and flushed into a bounded buffer; and useLogSearch, which keeps the    *)
(* hits of a query up to date while that buffer grows and loses its head.  *)
(* Each action is the code between two awaits, or one callback.            *)
(*                                                                         *)
(* A line is its source, its number in that source's log and the count of  *)
(* lines the stream had received with it.  A query is the set of the       *)
(* numbers it matches.                                                     *)
(***************************************************************************)
EXTENDS Integers, Sequences, FiniteSets

CONSTANTS
    Sources,     \* what a log URL names: a pod instance and a container
    Queries,     \* the searches: sets of line numbers
    None,
    MAX_LINES,
    RETRY_FIRST_MS, RETRY_MAX_MS, RETRY_RESET_MS, \* in clock ticks
    Second,      \* clock ticks per second
    MaxLog,      \* bound: lines written to a log
    MaxArrived,  \* bound: lines one stream receives
    MaxClock,    \* bound: the time
    MaxStarts    \* bound: the generation

ASSUME LogsAssumption ==
    /\ MAX_LINES \in Nat \ {0} /\ Second \in Nat \ {0}
    /\ {RETRY_FIRST_MS, RETRY_MAX_MS, RETRY_RESET_MS} \subseteq Nat \ {0}
    /\ RETRY_FIRST_MS <= RETRY_MAX_MS
    /\ {MaxLog, MaxArrived, MaxClock, MaxStarts} \subseteq Nat
    /\ Queries \subseteq SUBSET (1..MaxLog)
    /\ None \notin Queries \cup Sources \cup Int

VARIABLES
    clock, log,      \* the cluster's side: log[n] is when line n was written
    generation, source, lines, pending, arrived,
    timer,           \* the generation the armed flush captured
    reads,           \* the start() loops that have not returned
    lastLineAt, running, error, reconnecting, truncated, dropped,
    query, debounced, matches, active,
    last             \* the bookkeeping of the incremental rescan

cluster == <<clock, log>>
buffer == <<lines, pending, arrived, timer, lastLineAt, truncated, dropped>>
status == <<generation, source, reads, running, error, reconnecting>>
search == <<query, debounced, matches, active, last>>
stream == <<cluster, buffer, status, search>>

Line == [src : Sources, n : 1..MaxLog, k : 1..MaxArrived]
Time == 0..MaxClock
QueryOrNone == Queries \cup {None}

(* A start() loop: waiting for the response, for a chunk or for the        *)
(* backoff.  window is what the reconnect will ask for, in seconds.        *)
Loop == [gen : 1..MaxStarts, src : Sources, follow : BOOLEAN,
         at : {"fetch", "read", "wait"}, next : 1..(MaxLog + 1),
         began : Time, delay : 0..RETRY_MAX_MS, until : Nat,
         window : Nat \cup {None}]

TypeOK ==
    /\ clock \in Time /\ log \in Seq(Time) /\ Len(log) <= MaxLog
    /\ generation \in 0..MaxStarts /\ source \in Sources \cup {None}
    /\ lines \in Seq(Line) /\ pending \in Seq(Line)
    /\ Len(lines) <= MAX_LINES /\ Len(pending) <= MAX_LINES
    /\ arrived \in 0..MaxArrived /\ dropped \in 0..MaxArrived
    /\ timer \in 1..MaxStarts \cup {None} /\ lastLineAt \in Time \cup {None}
    /\ reads \subseteq Loop
    /\ {running, error, reconnecting, truncated} \subseteq BOOLEAN
    /\ {query, debounced, last.query} \subseteq QueryOrNone
    /\ matches \in Seq(1..MAX_LINES) /\ active \in 1..MAX_LINES \cup {None}

StreamInit ==
    /\ clock = 0 /\ log = [n \in 1..(MaxLog - 1) |-> 0]
    /\ generation = 0 /\ source = None
    /\ lines = <<>> /\ pending = <<>> /\ arrived = 0 /\ timer = None
    /\ reads = {} /\ lastLineAt = None
    /\ running = FALSE /\ error = FALSE /\ reconnecting = FALSE
    /\ truncated = FALSE /\ dropped = 0
    /\ query = None /\ debounced = None /\ matches = <<>> /\ active = None
    /\ last = [query |-> None, buf |-> 0, len |-> 0, dropped |-> 0]

-----------------------------------------------------------------------------
(* The search.                                                             *)

(* The hits beyond line from: one pass that collects.                      *)
scanLines(buf, q, from) ==
    LET scan[i \in 0..Len(buf)] ==
            IF i = 0 THEN <<>>
            ELSE IF i > from /\ buf[i].n \in q THEN Append(scan[i - 1], i)
            ELSE scan[i - 1]
    IN  scan[Len(buf)]

(* How many hits a drop of delta lines at the head takes.                  *)
Removed(delta) ==
    CHOOSE k \in 0..Len(matches) :
        /\ \A i \in 1..k : matches[i] <= delta
        /\ k < Len(matches) => matches[k + 1] > delta

SlipShifted(delta) == [i \in 1..Len(matches) |-> matches[i] - delta]

(* The hits that survive it, moved up.                                     *)
Shifted(delta) ==
    [i \in 1..(Len(matches) - Removed(delta)) |-> matches[i + Removed(delta)] - delta]

larger(a, b) == IF a > b THEN a ELSE b

SlipRescan(q, buf, id, drop) ==
    LET delta == drop - last.dropped IN
    /\ matches' = Shifted(delta) \o scanLines(buf, q, larger(0, last.len - delta))
    /\ active' = active

(* The same query on the same, longer array: only the new lines are read.  *)
Rescan(q, buf, id, drop) ==
    LET delta == drop - last.dropped
    IN  /\ matches' = Shifted(delta) \o scanLines(buf, q, larger(0, last.len - delta))
        /\ active' = IF active = None \/ active <= Removed(delta) THEN None
                     ELSE active - Removed(delta)

(* The synchronous watcher of [compiled, version].                         *)
Searched(q, buf, id, drop) ==
    /\ \/ q = None /\ matches' = <<>> /\ active' = None
       \/ /\ q # None /\ (q # last.query \/ id # last.buf)
          /\ matches' = scanLines(buf, q, 0) /\ active' = None
       \/ /\ q # None /\ q = last.query /\ id = last.buf
          /\ Rescan(q, buf, id, drop)
    /\ last' = [query |-> q, buf |-> id, len |-> Len(buf), dropped |-> drop]

Typed(q) ==
    /\ q # query /\ query' = q
    /\ UNCHANGED <<cluster, buffer, status, debounced, matches, active, last>>

(* The debounce timer is armed while query and debounced differ.           *)
Debounced ==
    /\ query # debounced /\ debounced' = query
    /\ Searched(query, lines, last.buf, dropped)
    /\ UNCHANGED <<cluster, buffer, status, query>>

(* move(): settle() applies a pending query at once (its hits are scanned  *)
(* afresh and nothing is selected), then the selection steps, wrapping.    *)
move(step) ==
    LET settled == query = debounced
        hits == IF settled THEN matches
                ELSE IF query = None THEN <<>> ELSE scanLines(lines, query, 0)
        from == IF settled THEN active ELSE None
    IN  /\ debounced' = query /\ matches' = hits
        /\ last' = [last EXCEPT !.query = query]
        /\ active' = IF hits = <<>> THEN from
                     ELSE IF from = None THEN IF step = 1 THEN 1 ELSE Len(hits)
                     ELSE ((from - 1 + step + Len(hits)) % Len(hits)) + 1
        /\ UNCHANGED <<cluster, buffer, status, query>>

clear ==
    /\ query # None \/ active # None
    /\ query' = None /\ active' = None
    /\ UNCHANGED <<cluster, buffer, status, debounced, matches, last>>

-----------------------------------------------------------------------------
(* The buffer.                                                             *)

trim(s) ==
    IF Len(s) <= MAX_LINES THEN s
    ELSE SubSeq(s, Len(s) - MAX_LINES + 1, Len(s))

(* flush() with staged lines p, cut being whether anything was trimmed     *)
(* before.                                                                 *)
flush(p, cut) ==
    LET all == lines \o p IN
    /\ lines' = trim(all) /\ pending' = <<>> /\ timer' = None
    /\ truncated' = (cut \/ Len(all) > MAX_LINES)
    /\ dropped' = dropped + Len(all) - Len(trim(all))
    /\ Searched(debounced, trim(all), last.buf, dropped + Len(all) - Len(trim(all)))
    /\ UNCHANGED <<query, debounced>>

(* The next n lines of the log as the stream r receives them.              *)
Chunk(r, n) ==
    [i \in 1..n |-> [src |-> r.src, n |-> r.next + i - 1, k |-> arrived + i]]

(* append(): staged, trimmed, and a flush armed if there is none.          *)
append(new) ==
    /\ pending' = trim(pending \o new)
    /\ truncated' = (truncated \/ Len(pending \o new) > MAX_LINES)
    /\ lastLineAt' = clock
    /\ timer' = IF timer = None THEN generation ELSE timer
    /\ arrived' = arrived + Len(new)

FlushTimer ==
    /\ timer # None
    /\ IF timer = generation THEN flush(pending, truncated)
       ELSE /\ timer' = None
            /\ UNCHANGED <<lines, pending, truncated, dropped, search>>
    /\ UNCHANGED <<cluster, arrived, lastLineAt, status>>

-----------------------------------------------------------------------------
(* start(), stop() and the retry loop.                                     *)

stale(r) == r.gen # generation

(* stop() ends a backoff at once; a read may already have resolved.  The   *)
(* loop's locals no longer matter.                                         *)
Disowned ==
    {[r EXCEPT !.began = 0, !.delay = 0] : r \in {l \in reads : l.at # "wait"}}

(* The log endpoint: the tail asked for, or the lines of the last w        *)
(* seconds.  Where the answer begins when the request is sent now.         *)
FirstLine(w) ==
    IF w = None THEN {1, larger(1, Len(log))}
    ELSE {1 + Cardinality({n \in 1..Len(log) : log[n] < clock - w * Second})}

stop ==
    /\ generation' = generation + 1
    /\ pending' = <<>> /\ timer' = None
    /\ reads' = Disowned
    /\ running' = FALSE /\ reconnecting' = FALSE
    /\ UNCHANGED <<cluster, source, lines, arrived, lastLineAt, truncated,
                   dropped, error, search>>

(* start(): stop(), then a fresh buffer and the first request.  q is the   *)
(* query in force; a new component begins without one.                     *)
start(src, follow, q) ==
    /\ generation' = generation + 1 /\ source' = src
    /\ lines' = <<>> /\ pending' = <<>> /\ arrived' = 0 /\ timer' = None
    /\ dropped' = 0 /\ truncated' = FALSE /\ lastLineAt' = None
    /\ running' = TRUE /\ error' = FALSE /\ reconnecting' = FALSE
    /\ \E first \in FirstLine(None) :
          reads' = Disowned \cup
             {[gen |-> generation + 1, src |-> src, follow |-> follow,
               at |-> "fetch", next |-> first, began |-> clock, delay |-> 0,
               until |-> 0, window |-> None]}
    /\ debounced' = q
    /\ Searched(q, <<>>, generation + 1, 0)
    /\ UNCHANGED cluster

(* start()'s finally, with staged lines p.                                 *)
finish(r, failed, p, cut) ==
    /\ reads' = reads \ {r}
    /\ flush(p, cut)
    /\ running' = FALSE /\ reconnecting' = FALSE
    /\ error' = (error \/ failed)
    /\ UNCHANGED <<cluster, generation, source>>

(* Whatever a superseded loop resumes with, it returns.                    *)
Superseded(r) ==
    /\ stale(r) /\ reads' = reads \ {r}
    /\ UNCHANGED <<cluster, buffer, generation, source, running, error,
                   reconnecting, search>>

Connected(r) ==
    /\ r.at = "fetch" /\ ~stale(r)
    /\ reads' = (reads \ {r}) \cup {[r EXCEPT !.at = "read"]}
    /\ reconnecting' = FALSE
    /\ UNCHANGED <<cluster, buffer, generation, source, running, error, search>>

(* A response without a body is reported and final.                        *)
NoBody(r) ==
    /\ r.at = "fetch" /\ ~stale(r)
    /\ finish(r, TRUE, pending, truncated)
    /\ UNCHANGED <<arrived, lastLineAt>>

SlipReceived(r, n) ==
    /\ r.at = "read"
    /\ r.next + n <= Len(log) + 1 /\ arrived + n <= MaxArrived
    /\ append(Chunk(r, n))
    /\ reads' = (reads \ {r}) \cup {[r EXCEPT !.next = @ + n]}
    /\ UNCHANGED <<cluster, lines, dropped, generation, source, running, error,
                   reconnecting, search>>

(* A chunk that completes n lines.                                         *)
Received(r, n) ==
    /\ r.at = "read" /\ ~stale(r)
    /\ r.next + n <= Len(log) + 1 /\ arrived + n <= MaxArrived
    /\ append(Chunk(r, n))
    /\ reads' = (reads \ {r}) \cup {[r EXCEPT !.next = @ + n]}
    /\ UNCHANGED <<cluster, lines, dropped, generation, source, running, error,
                   reconnecting, search>>

(* The clean end, with n = 1 an unterminated last line.                    *)
Ended(r, n) ==
    /\ r.at = "read" /\ ~stale(r)
    /\ r.next + n <= Len(log) + 1 /\ arrived + n <= MaxArrived
    /\ LET p == pending \o Chunk(r, n)
       IN  finish(r, FALSE, trim(p), truncated \/ Len(p) > MAX_LINES)
    /\ arrived' = arrived + n
    /\ lastLineAt' = IF n = 0 THEN lastLineAt ELSE clock

sinceLastLine ==
    IF lastLineAt = None THEN None
    ELSE (clock - lastLineAt + Second - 1) \div Second + 1

SlipDropped(r) ==
    /\ r.at # "wait" /\ ~stale(r) /\ r.follow
    /\ reads' = reads \ {r}
    /\ reconnecting' = TRUE
    /\ flush(pending, truncated)
    /\ UNCHANGED <<cluster, arrived, lastLineAt, generation, source, running, error>>

(* A followed stream drops: its window is measured, then it backs off.     *)
Dropped(r) ==
    /\ r.at # "wait" /\ ~stale(r) /\ r.follow
    /\ LET delay == IF clock - r.began >= RETRY_RESET_MS THEN 0 ELSE r.delay
       IN  reads' = (reads \ {r}) \cup
             {[r EXCEPT !.at = "wait", !.delay = delay,
                        !.until = clock + delay, !.window = sinceLastLine]}
    /\ reconnecting' = TRUE
    /\ flush(pending, truncated)
    /\ UNCHANGED <<cluster, arrived, lastLineAt, generation, source, running, error>>

(* The failure is final: a 4xx, or nothing to resume.                      *)
Failed(r, fatal) ==
    /\ r.at # "wait" /\ ~stale(r)
    /\ fatal \/ ~r.follow
    /\ finish(r, TRUE, pending, truncated)
    /\ UNCHANGED <<arrived, lastLineAt>>

(* The backoff is over: the next attempt.                                  *)
Retry(r) ==
    /\ r.at = "wait" /\ ~stale(r) /\ clock >= r.until
    /\ \E first \in FirstLine(r.window) :
          reads' = (reads \ {r}) \cup
             {[r EXCEPT !.at = "fetch", !.next = first, !.began = clock,
                        !.window = None, !.until = 0,
                        !.delay = IF @ = 0 THEN RETRY_FIRST_MS
                                  ELSE IF 2 * @ < RETRY_MAX_MS THEN 2 * @
                                  ELSE RETRY_MAX_MS]}
    /\ UNCHANGED <<cluster, buffer, generation, source, running, error,
                   reconnecting, search>>

-----------------------------------------------------------------------------
(* The cluster: containers write, time passes.                             *)
Write ==
    /\ Len(log) < MaxLog /\ log' = Append(log, clock)
    /\ UNCHANGED <<clock, buffer, status, search>>

(* A due retry timer fires before more time passes.                        *)
Tick ==
    /\ clock < MaxClock /\ clock' = clock + 1
    /\ \A r \in reads : r.at = "wait" => clock < r.until
    /\ UNCHANGED <<log, buffer, status, search>>

Reading ==
    \E r \in reads :
        \/ Superseded(r) \/ Connected(r) \/ NoBody(r) \/ Dropped(r) \/ Retry(r)
        \/ \E n \in 1..2 : Received(r, n)
        \/ \E n \in 0..1 : Ended(r, n)
        \/ \E fatal \in BOOLEAN : Failed(r, fatal)

Searching ==
    \/ \E q \in QueryOrNone : Typed(q)
    \/ \E step \in {1, -1} : move(step)
    \/ Debounced \/ clear

StreamNext == FlushTimer \/ Reading \/ Searching \/ Write \/ Tick

-----------------------------------------------------------------------------
Consecutive(s) == \A i \in 1..(Len(s) - 1) : s[i + 1].k = s[i].k + 1

(* Trimming the staging array and the visible one can never leave a gap:   *)
(* what is on screen, and what will be after the next flush, is the        *)
(* contiguous tail of what the current stream received and nothing else's, *)
(* and it is the whole of it unless the viewer says "truncated".  Staged   *)
(* lines always have a flush armed.                                        *)
TailIntact ==
    LET all == trim(lines \o pending) IN
    /\ Consecutive(lines) /\ Consecutive(all)
    /\ running /\ arrived > 0 => all # <<>> /\ all[Len(all)].k = arrived
    /\ ~truncated => \A i \in 1..Len(lines \o pending) : (lines \o pending)[i].k = i
    /\ \A i \in 1..Len(all) : all[i].src = source
    /\ pending # <<>> => timer = generation

(* The incremental rescan agrees with scanning the whole buffer, through   *)
(* appends, drops of the head, restarts and changes of the query.          *)
SearchExact ==
    /\ matches = IF debounced = None THEN <<>> ELSE scanLines(lines, debounced, 0)
    /\ active # None => active \in 1..Len(matches)

SelectedLine == lines[matches[active]]

(* A flush never moves the selection to another line: the selected hit     *)
(* stays on its line, or is deselected because that line was dropped.      *)
SelectionSticks ==
    [][ (/\ active # None /\ generation' = generation
         /\ lines' # lines /\ active' # None) => SelectedLine' = SelectedLine
      ]_stream

(* running is what the viewer calls streaming: it is on exactly while a    *)
(* start() loop of the current generation is alive, and reconnecting only  *)
(* while that loop has no connection.                                      *)
RunningTruthful ==
    /\ running <=> \E r \in reads : ~stale(r)
    /\ reconnecting => \E r \in reads : ~stale(r) /\ r.at # "read"

(* "the only way back to where the stream stopped is a time window": a     *)
(* resumed request asks for every line written since the last one arrived. *)
SeamCovered ==
    \A r \in reads : \A n \in 1..Len(log) :
        (/\ ~stale(r) /\ r.at = "fetch"
         /\ lastLineAt # None /\ log[n] > lastLineAt) => r.next <= n
===============================================================================
